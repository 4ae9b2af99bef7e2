-------------------------- MODULE KeypomNearProofs --------------------------
(***************************************************************************)
(* NEAR is backed: where every key has one use, which hands out one asset, *)
(* the contract has the NEAR that it owes.                                 *)
(*                                                                         *)
(* Each funder, drop, key and promise has a stake in the contract's NEAR:  *)
(* what it has to be able to get out of it.  The inductive invariant is    *)
(* that the stakes and the fees are covered (NearCovered), together with   *)
(* what the callbacks take from the promises (Priced) and the invariants   *)
(* of the other modules (Books).  Every step pays for the stakes it adds   *)
(* (Paid).  Most change the stake of at most one drop, key, promise and    *)
(* funder (NearMoves), so that the sums are handled once, in NearMoved;    *)
(* the calls that create or delete several keys or drops have lemmas of    *)
(* their own.  What is owed is a part of the stakes (StakesAreOwed).       *)
(***************************************************************************)
EXTENDS KeypomTokenProofs

\* The transfers of tokens take no NEAR that nobody was charged for: of an
\* FT the contract attaches from_near(1), and of an NFT one yoctoNEAR.
Free(asset) ==
    /\ asset.type = "ft" => YoctoPerNear = 0
    /\ asset.type = "nft" => OneYocto = 0

FreeTransfers == \A shape \in Shapes : Free(shape.asset_data[1].assets[1])

\* What a use of a drop's keys was charged, ...
use_cost(d) ==
    get_yocto_refund_amount(asset_of(d), only_metadata(drop_by_id[d]).tokens_per_use)

\* ... and the storage of the NFTs an asset has.
ids_stake(asset) == NftBytes * Len(asset.token_ids)

\* The stake of an account ...
funder_stake(a) ==
    IF a \in Accounts THEN user_balance[a] + MetadataBytes * unwrap_or(funder_metadata[a], 0) ELSE 0
FunderStakes == [a \in Accounts |-> funder_stake(a)]

\* ... of a drop, ...
drop_stake(d) ==
    IF d \in DOMAIN asset_by_id THEN DropBytes + ids_stake(asset_of(d)) ELSE 0
DropStakes == [d \in DOMAIN asset_by_id |-> drop_stake(d)]

\* ... of a key, which owes its use until it is taken, ...
stake_of_key(t, key_info) ==
    KeyBytes + IF key_info.remaining_uses = 0 THEN 0 ELSE PkBytes + use_cost(parse_token_id(t))
key_stake(t) ==
    IF t \in DOMAIN key_info_by_token_id THEN stake_of_key(t, key_info_by_token_id[t]) ELSE 0
KeyStakes == [t \in DOMAIN key_info_by_token_id |-> key_stake(t)]

\* ... and of a promise: what its callback hands out, or gives back.
stake_of(receipt) ==
    CASE receipt.kind = "create_account" -> use_cost(parse_token_id(receipt.token_id))
      [] receipt.kind = "claim" /\ receipt.promise.type = "ft" ->
            use_cost(parse_token_id(receipt.token_id))
      [] receipt.kind = "claim" /\ receipt.promise.type = "nft" -> NftBytes
      [] receipt.kind = "nft_refund" -> receipt.storage_released
      [] OTHER -> 0
promise_stake(r) == IF r \in DOMAIN receipts THEN stake_of(receipts[r]) ELSE 0
PromiseStakes == [r \in DOMAIN receipts |-> promise_stake(r)]

\* There is enough for all of them, and for the fees.
Stakes ==
    SumFunction(FunderStakes) + fees_collected + SumFunction(DropStakes) + SumFunction(KeyStakes)
        + SumFunction(PromiseStakes)
NearCovered == Stakes <= vault

\* What the callbacks rely on: the promise of a NEAR asset carries what the
\* use was charged, and an NFT withdrawal knows the storage of its NFTs.
PricedPromise(receipt) ==
    /\ receipt.kind = "claim" =>
          LET d == parse_token_id(receipt.token_id)
          IN  /\ d \in DOMAIN drop_by_id
              /\ receipt.promise.type = "near" =>
                    receipt.promise.deposits = <<only_metadata(drop_by_id[d]).tokens_per_use>>
    /\ receipt.kind = "nft_refund" =>
          receipt.storage_released = NftBytes * Len(receipt.token_ids)

Priced ==
    /\ \A d \in DOMAIN drop_by_id : Free(asset_of(d))
    /\ \A r \in DOMAIN receipts : PricedPromise(receipts[r])

Books == Kept /\ Recorded /\ FeeInv /\ HoldingsTyped /\ SettingsTyped

\* Every stake is an amount.
Staked ==
    /\ Amounts(FunderStakes) /\ Amounts(DropStakes) /\ Amounts(KeyStakes) /\ Amounts(PromiseStakes)
    /\ \A a : funder_stake(a) \in Nat
    /\ \A d : drop_stake(d) \in Nat
    /\ \A t : key_stake(t) \in Nat
    /\ \A r : promise_stake(r) \in Nat
    /\ \A d \in DOMAIN drop_by_id : use_cost(d) \in Nat /\ ids_stake(asset_of(d)) \in Nat

\* The storage of IDs is an amount, ...
LEMMA IdsStaked ==
    ASSUME NEW asset, NEW S, asset.token_ids \in Seq(S)
    PROVE  ids_stake(asset) \in Nat
  <1>1. Len(asset.token_ids) \in Nat
    BY LenProperties
  <1> QED
    BY <1>1, Products, StorageAssumption DEF ids_stake

\* ... and so is every stake, where there are finitely many accounts.
LEMMA BooksAreStaked == ASSUME IsFiniteSet(Accounts) PROVE Books => Staked
  <1> SUFFICES ASSUME Books PROVE Staked
    OBVIOUS
  <1>1. /\ IsFiniteSet(DOMAIN asset_by_id) /\ IsFiniteSet(DOMAIN key_info_by_token_id)
        /\ IsFiniteSet(DOMAIN receipts) /\ DOMAIN asset_by_id = DOMAIN drop_by_id
    BY KeysAreFinite DEF Books, Kept, Inv, FinitelyMany
  <1>2. \A d \in DOMAIN drop_by_id : use_cost(d) \in Nat /\ ids_stake(asset_of(d)) \in Nat
    <2>1. SUFFICES ASSUME NEW d \in DOMAIN drop_by_id
                   PROVE  use_cost(d) \in Nat /\ ids_stake(asset_of(d)) \in Nat
      OBVIOUS
    <2>2. AssetKept(asset_of(d), only_metadata(drop_by_id[d])) /\ asset_id_of(d) \in DOMAIN asset_by_id[d]
      BY OnlyRecord, <2>1 DEF Books, Kept
    <2>3. AssetTyped(asset_of(d))
      BY DropRecords, <2>1, <2>2 DEF Books, RecordsTyped, asset_of
    <2>4. only_metadata(drop_by_id[d]).tokens_per_use \in Nat /\ asset_of(d).token_ids \in Seq(NftTokens)
      BY <2>2 DEF AssetKept
    <2> QED
      BY <2>3, <2>4, CostOfAsset, IdsStaked DEF use_cost
  <1>3. \A d : drop_stake(d) \in Nat
    BY <1>1, <1>2, StorageAssumption DEF drop_stake
  <1>4. \A t : key_stake(t) \in Nat
    <2>1. \A t \in DOMAIN key_info_by_token_id : parse_token_id(t) \in DOMAIN drop_by_id
      BY DEF Books, Kept, Inv, Current, Registry, Housed
    <2> QED
      BY <1>2, <2>1, StorageAssumption DEF key_stake, stake_of_key
  <1>5. \A r : promise_stake(r) \in Nat
    <2>1. SUFFICES ASSUME NEW r \in DOMAIN receipts PROVE stake_of(receipts[r]) \in Nat
      BY DEF promise_stake
    <2>2. is_claim(receipts[r]) => parse_token_id(receipts[r].token_id) \in DOMAIN drop_by_id
      BY <2>1 DEF Books, Kept, Held, claims, Inv, Current, Registry, Housed
    <2>3. receipts[r].kind = "nft_refund" => receipts[r].storage_released \in Nat
      BY <2>1 DEF Books, Recorded, ReceiptTyped
    <2> QED
      BY <1>2, <2>2, <2>3, StorageAssumption DEF stake_of, is_claim
  <1>6. \A a : funder_stake(a) \in Nat
    <2>1. SUFFICES ASSUME NEW a \in Accounts PROVE funder_stake(a) \in Nat
      BY DEF funder_stake
    <2>2. user_balance[a] \in Nat /\ unwrap_or(funder_metadata[a], 0) \in Nat
      BY <2>1, OptionAmounts DEF Books, HoldingsTyped, SettingsTyped
    <2> QED
      BY <2>2, Products, StorageAssumption DEF funder_stake
  <1> QED
    BY <1>1, <1>2, <1>3, <1>4, <1>5, <1>6
    DEF Staked, Amounts, FunderStakes, DropStakes, KeyStakes, PromiseStakes

-----------------------------------------------------------------------------
(* A step changes the stakes of a drop, a key, a promise and an account.   *)

\* What a use costs does not change.
LEMMA NextKindsStay == OneAsset => (Kept /\ Inv' /\ [Next]_vars => KindsStay)
  <1> SUFFICES ASSUME OneAsset, Kept, Inv', [Next]_vars PROVE KindsStay
    OBVIOUS
  <1>1. CASE Creates
    <2>1. DropsCome
      BY <1>1, CreationAddsDrops DEF Kept
    <2>2. \A d \in DOMAIN drop_by_id :
             only_metadata(drop_by_id'[d]) = only_metadata(drop_by_id[d]) /\ asset_of(d)' = asset_of(d)
      BY <2>1 DEF DropsCome, only_metadata, only_use, asset_of, asset_id_of
    <2> QED
      BY <2>2 DEF KindsStay, SameKind
  <1>2. CASE ~Creates
    <2>1. PICK d, r, x : Placed(d, r, x)
      BY <1>2, StepMoves DEF Moves
    <2> QED
      BY <2>1, PlacedKept DEF Kept
  <1> QED
    BY <1>1, <1>2

\* So what a use was charged stays.
LEMMA CostStays ==
    ASSUME KindsStay, NEW d \in DOMAIN drop_by_id, d \in DOMAIN drop_by_id'
    PROVE  use_cost(d)' = use_cost(d)
  <1>1. \A new, old, n : SameKind(new, old) =>
            get_yocto_refund_amount(new, n) = get_yocto_refund_amount(old, n)
    BY DEF SameKind, get_yocto_refund_amount
  <1>2. /\ only_metadata(drop_by_id'[d]) = only_metadata(drop_by_id[d])
        /\ SameKind(asset_of(d)', asset_of(d))
    BY DEF KindsStay
  <1> QED
    BY <1>1, <1>2 DEF use_cost

\* f and g differ at x only.
OnlyAt(f, g, x) == DOMAIN f \ {x} = DOMAIN g \ {x} /\ \A y \in DOMAIN f \ {x} : f[y] = g[y]

OnlyFunder(a) ==
    \A b \in Accounts : b # a =>
        user_balance'[b] = user_balance[b] /\ funder_metadata'[b] = funder_metadata[b]

OnlyKey(t) ==
    /\ DOMAIN key_info_by_token_id' \ {t} = DOMAIN key_info_by_token_id \ {t}
    /\ \A u \in DOMAIN key_info_by_token_id : u # t =>
          key_info_by_token_id'[u].remaining_uses = key_info_by_token_id[u].remaining_uses

\* What is left of the stakes after a step that leaves x in drop d, counting
\* the uses of keys as before it.
drop_left(d, x) == IF d \in DOMAIN drop_by_id' THEN DropBytes + ids_stake(x) ELSE 0
key_left(t) ==
    IF t \in DOMAIN key_info_by_token_id' THEN stake_of_key(t, key_info_by_token_id'[t]) ELSE 0
promise_left(r) == IF r \in DOMAIN receipts' THEN stake_of(receipts'[r]) ELSE 0

\* No stake grows that is not paid for.
NearEven(d, x, t, r, a) ==
    funder_stake(a)' + fees_collected' + drop_left(d, x) + key_left(t) + promise_left(r) + vault
        <= funder_stake(a) + fees_collected + drop_stake(d) + key_stake(t) + promise_stake(r) + vault'

NearMoves ==
    \E d, x, t, r, a :
        /\ AssetSet(d, x) /\ OnlyKey(t) /\ OnlyPromise(r) /\ OnlyFunder(a)
        /\ r \in DOMAIN receipts' => PricedPromise(receipts'[r])
        /\ NearEven(d, x, t, r, a)

\* The assets' records of one drop change: so does its stake only, ...
LEMMA StakesOfDrops ==
    ASSUME Inv, Inv', NEW d, NEW x, AssetSet(d, x)
    PROVE  /\ OnlyAt(DropStakes, DropStakes', d)
           /\ drop_stake(d)' = drop_left(d, x)
  <1>1. DOMAIN asset_by_id = DOMAIN drop_by_id /\ DOMAIN asset_by_id' = DOMAIN drop_by_id'
    BY DEF Inv
  <1>2. \A e \in DOMAIN drop_by_id' : e \in DOMAIN drop_by_id /\ asset_id_of(e)' = asset_id_of(e)
    BY DEF AssetSet, SameDrops, asset_id_of, only_metadata, only_use
  <1>3. \A e \in DOMAIN drop_by_id \ {d} :
           e \in DOMAIN drop_by_id' /\ asset_of(e)' = asset_of(e)
    BY <1>2 DEF AssetSet, asset_of
  <1>4. d \in DOMAIN drop_by_id' => asset_of(d)' = x
    BY <1>2 DEF AssetSet, asset_of
  <1>5. drop_stake(d)' = drop_left(d, x)
    BY <1>1, <1>4 DEF drop_stake, drop_left, ids_stake
  <1>6. \A e \in DOMAIN drop_by_id \ {d} : drop_stake(e)' = drop_stake(e)
    BY <1>1, <1>3 DEF drop_stake, ids_stake
  <1> QED
    BY <1>1, <1>2, <1>3, <1>5, <1>6 DEF OnlyAt, DropStakes

\* ... as with a key ...
LEMMA StakesOfKeys ==
    ASSUME Inv, Inv', KindsStay, NEW t, OnlyKey(t)
    PROVE  OnlyAt(KeyStakes, KeyStakes', t)
  <1> SUFFICES ASSUME NEW u \in DOMAIN key_info_by_token_id, u # t
               PROVE  key_stake(u)' = key_stake(u)
    BY DEF OnlyAt, KeyStakes, OnlyKey
  <1>1. u \in DOMAIN key_info_by_token_id'
    BY DEF OnlyKey
  <1>2. parse_token_id(u) \in DOMAIN drop_by_id /\ parse_token_id(u) \in DOMAIN drop_by_id'
    BY <1>1 DEF Inv, Current, Registry, Housed
  <1>3. use_cost(parse_token_id(u))' = use_cost(parse_token_id(u))
    BY <1>2, CostStays
  <1> QED
    BY <1>1, <1>3 DEF key_stake, stake_of_key, OnlyKey, parse_token_id

\* ... and a promise.
LEMMA StakesOfPromises ==
    ASSUME Inv, Inv', Held, Held', KindsStay, NEW r, OnlyPromise(r)
    PROVE  OnlyAt(PromiseStakes, PromiseStakes', r)
  <1>1. DOMAIN receipts \ {r} = DOMAIN receipts' \ {r}
    BY DEF OnlyPromise
  <1> SUFFICES ASSUME NEW s \in DOMAIN receipts, s # r
               PROVE  promise_stake(s)' = promise_stake(s)
    BY <1>1 DEF OnlyAt, PromiseStakes
  <1>2. s \in DOMAIN receipts' /\ receipts'[s] = receipts[s]
    BY DEF OnlyPromise
  <1>3. ASSUME NEW d, d \in DOMAIN drop_by_id, d \in DOMAIN drop_by_id'
        PROVE  use_cost(d)' = use_cost(d)
    BY <1>3, CostStays
  <1>4. PICK q : q = receipts[s]
    OBVIOUS
  <1>5. ASSUME is_claim(q)
        PROVE  use_cost(parse_token_id(q.token_id))' = use_cost(parse_token_id(q.token_id))
    <2>1. s \in claims /\ s \in claims'
      BY <1>2, <1>4, <1>5 DEF claims
    <2>2. /\ q.token_id \in DOMAIN key_info_by_token_id
          /\ q.token_id \in DOMAIN key_info_by_token_id'
      BY <1>2, <1>4, <2>1 DEF Held
    <2>3. parse_token_id(q.token_id) \in DOMAIN drop_by_id /\ parse_token_id(q.token_id) \in DOMAIN drop_by_id'
      BY <2>2 DEF Inv, Current, Registry, Housed
    <2> QED
      BY <1>3, <2>3
  <1>6. promise_stake(s) = stake_of(q) /\ promise_stake(s)' = stake_of(q)'
    BY <1>2, <1>4 DEF promise_stake, stake_of, use_cost
  <1> QED
    BY <1>5, <1>6 DEF stake_of, is_claim
\* The stake of a key, and of a promise, after a step, in the terms before it.
LEMMA StakesLeft ==
    ASSUME Inv, Inv', Held', SameDrops, KindsStay
    PROVE  (\A t : key_stake(t)' = key_left(t)) /\ (\A r : promise_stake(r)' = promise_left(r))
  <1>1. ASSUME NEW t \in DOMAIN key_info_by_token_id'
        PROVE  use_cost(parse_token_id(t))' = use_cost(parse_token_id(t))
    <2>1. parse_token_id(t) \in DOMAIN drop_by_id'
      BY <1>1 DEF Inv, Current, Registry, Housed
    <2>2. parse_token_id(t) \in DOMAIN drop_by_id
      BY <2>1 DEF SameDrops
    <2> QED
      BY <2>1, <2>2, CostStays
  <1>2. \A t : key_stake(t)' = key_left(t)
    BY <1>1 DEF key_stake, key_left, stake_of_key
  <1>3. ASSUME NEW r PROVE promise_stake(r)' = promise_left(r)
    <2>1. SUFFICES ASSUME r \in DOMAIN receipts' PROVE stake_of(receipts[r])' = stake_of(receipts'[r])
      BY DEF promise_stake, promise_left
    <2>2. PICK q : q = receipts'[r]
      OBVIOUS
    <2>3. is_claim(q) => q.token_id \in DOMAIN key_info_by_token_id'
      BY <2>1, <2>2 DEF Held, claims, is_claim
    <2>4. is_claim(q) => use_cost(parse_token_id(q.token_id))' = use_cost(parse_token_id(q.token_id))
      BY <1>1, <2>3
    <2>5. stake_of(receipts[r])' = stake_of(q)' /\ stake_of(receipts'[r]) = stake_of(q)
      BY <2>2 DEF stake_of, use_cost
    <2> QED
      BY <2>4, <2>5 DEF stake_of, is_claim
  <1> QED
    BY <1>2, <1>3

\* The sum changes by what that one stake does.
LEMMA SumOnlyAt ==
    ASSUME NEW f, NEW g, Amounts(f), Amounts(g), NEW x, OnlyAt(f, g, x)
    PROVE  SumFunction(g) + amount_at(f, x) = SumFunction(f) + amount_at(g, x)
  BY SumChangedAt DEF OnlyAt

\* Sums and stakes are amounts, and each stake is that of its sum.
StakesSummed ==
    /\ SumFunction(FunderStakes) \in Nat /\ SumFunction(DropStakes) \in Nat
    /\ SumFunction(KeyStakes) \in Nat /\ SumFunction(PromiseStakes) \in Nat
    /\ \A a : amount_at(FunderStakes, a) = funder_stake(a)
    /\ \A d : amount_at(DropStakes, d) = drop_stake(d)
    /\ \A t : amount_at(KeyStakes, t) = key_stake(t)
    /\ \A r : amount_at(PromiseStakes, r) = promise_stake(r)

\* They are, where all stakes are amounts.
LEMMA StakesAreSums == Staked => StakesSummed
  <1> SUFFICES ASSUME Staked PROVE StakesSummed
    OBVIOUS
  <1>1. /\ SumFunction(FunderStakes) \in Nat /\ SumFunction(DropStakes) \in Nat
        /\ SumFunction(KeyStakes) \in Nat /\ SumFunction(PromiseStakes) \in Nat
    BY SumOfAmounts DEF Staked
  <1>2. \A a : amount_at(FunderStakes, a) = funder_stake(a)
    BY DEF amount_at, FunderStakes, funder_stake
  <1>3. \A d : amount_at(DropStakes, d) = drop_stake(d)
    BY DEF amount_at, DropStakes, drop_stake
  <1>4. \A t : amount_at(KeyStakes, t) = key_stake(t)
    BY DEF amount_at, KeyStakes, key_stake
  <1>5. \A r : amount_at(PromiseStakes, r) = promise_stake(r)
    BY DEF amount_at, PromiseStakes, promise_stake
  <1> QED
    BY <1>1, <1>2, <1>3, <1>4, <1>5 DEF StakesSummed

\* An account's balance or metadata changes: so does its stake only.
LEMMA StakesOfFunders ==
    ASSUME NEW a, OnlyFunder(a)
    PROVE  OnlyAt(FunderStakes, FunderStakes', a)
  BY DEF OnlyFunder, OnlyAt, FunderStakes, funder_stake

\* What a step does to the sums and what is attached to it.
Paid == Stakes' + vault <= Stakes + vault'

\* A step that changes few stakes and pays for them pays for all stakes.
LEMMA NearMoved ==
    ASSUME Books, Books', Staked, Staked', KindsStay, NearMoves
    PROVE  Paid
  <1>1. PICK d, x, t, r, a :
            /\ AssetSet(d, x) /\ OnlyKey(t) /\ OnlyPromise(r) /\ OnlyFunder(a)
            /\ NearEven(d, x, t, r, a)
    BY DEF NearMoves
  <1>2. Inv /\ Inv' /\ Held /\ Held' /\ SameDrops
    BY <1>1 DEF Books, Kept, AssetSet
  <1>3. drop_stake(d)' = drop_left(d, x) /\ OnlyAt(DropStakes, DropStakes', d)
    BY <1>1, <1>2, StakesOfDrops
  <1>4. key_stake(t)' = key_left(t) /\ promise_stake(r)' = promise_left(r)
    BY <1>2, StakesLeft
  <1>5. OnlyAt(KeyStakes, KeyStakes', t) /\ OnlyAt(PromiseStakes, PromiseStakes', r)
    BY <1>1, <1>2, StakesOfKeys, StakesOfPromises
  <1>6. OnlyAt(FunderStakes, FunderStakes', a)
    BY <1>1, StakesOfFunders
  <1> DEFINE fs == SumFunction(FunderStakes)  fs2 == SumFunction(FunderStakes)'
             ds == SumFunction(DropStakes)    ds2 == SumFunction(DropStakes)'
             ks == SumFunction(KeyStakes)     ks2 == SumFunction(KeyStakes)'
             ps == SumFunction(PromiseStakes) ps2 == SumFunction(PromiseStakes)'
  <1>7. /\ fs \in Nat /\ ds \in Nat /\ ks \in Nat /\ ps \in Nat
        /\ amount_at(FunderStakes, a) = funder_stake(a) /\ amount_at(DropStakes, d) = drop_stake(d)
        /\ amount_at(KeyStakes, t) = key_stake(t) /\ amount_at(PromiseStakes, r) = promise_stake(r)
    BY StakesAreSums DEF StakesSummed
  <1>8. /\ fs2 \in Nat /\ ds2 \in Nat /\ ks2 \in Nat /\ ps2 \in Nat
        /\ amount_at(FunderStakes', a) = funder_stake(a)'
        /\ amount_at(DropStakes', d) = drop_stake(d)'
        /\ amount_at(KeyStakes', t) = key_stake(t)'
        /\ amount_at(PromiseStakes', r) = promise_stake(r)'
    <2>1. StakesSummed'
      BY StakesAreSums, PTL
    <2> QED
      BY <2>1 DEF StakesSummed, amount_at
  <1>9. Amounts(FunderStakes) /\ Amounts(DropStakes) /\ Amounts(KeyStakes) /\ Amounts(PromiseStakes)
    BY DEF Staked
  <1>10. /\ Amounts(FunderStakes') /\ Amounts(DropStakes')
         /\ Amounts(KeyStakes') /\ Amounts(PromiseStakes')
    BY DEF Staked, Amounts
  <1>11. /\ fs2 + funder_stake(a) = fs + funder_stake(a)'
         /\ ds2 + drop_stake(d) = ds + drop_stake(d)'
         /\ ks2 + key_stake(t) = ks + key_stake(t)'
         /\ ps2 + promise_stake(r) = ps + promise_stake(r)'
    BY <1>3, <1>5, <1>6, <1>7, <1>8, <1>9, <1>10, SumOnlyAt
  <1>12. /\ funder_stake(a) \in Nat /\ drop_stake(d) \in Nat /\ key_stake(t) \in Nat
         /\ promise_stake(r) \in Nat /\ vault \in Nat /\ fees_collected \in Nat
         /\ funder_stake(a)' \in Nat /\ drop_stake(d)' \in Nat /\ key_stake(t)' \in Nat
         /\ promise_stake(r)' \in Nat /\ vault' \in Nat /\ fees_collected' \in Nat
    BY DEF Staked, Books, HoldingsTyped, FeeInv
  <1>13. funder_stake(a)' + fees_collected' + drop_stake(d)' + key_stake(t)' + promise_stake(r)' + vault
            <= funder_stake(a) + fees_collected + drop_stake(d) + key_stake(t) + promise_stake(r) + vault'
    BY <1>1, <1>3, <1>4 DEF NearEven
  <1>14. /\ Stakes = fs + fees_collected + ds + ks + ps
         /\ Stakes' = fs2 + fees_collected' + ds2 + ks2 + ps2
    BY DEF Stakes
  <1> HIDE DEF fs, fs2, ds, ds2, ks, ks2, ps, ps2
  <1>15. fs2 = fs + funder_stake(a)' - funder_stake(a) /\ ds2 = ds + drop_stake(d)' - drop_stake(d)
    BY <1>7, <1>8, <1>11, <1>12
  <1>16. ks2 = ks + key_stake(t)' - key_stake(t) /\ ps2 = ps + promise_stake(r)' - promise_stake(r)
    BY <1>7, <1>8, <1>11, <1>12
  <1> QED
    BY <1>7, <1>12, <1>13, <1>14, <1>15, <1>16 DEF Paid

-----------------------------------------------------------------------------
(* What a drop and its keys are charged, and what a claim takes.           *)

\* What a use of a drop with one asset is charged, and the storage of its NFTs.
LEMMA CostOfStocked ==
    ASSUME NEW drop, NEW assets, StockedWith(drop, assets),
           AssetTyped(assets[only_metadata(drop).asset_id])
    PROVE  LET asset == assets[only_metadata(drop).asset_id]
               cost == get_yocto_refund_amount(asset, only_metadata(drop).tokens_per_use)
           IN  /\ cost \in Nat /\ ids_stake(asset) \in Nat
               /\ cost_of_use(assets, only_use(drop).assets_metadata) = cost
               /\ get_total_costs_for_key(1, assets, drop.asset_data_for_uses) = cost
               /\ get_total_costs_for_key(0, assets, drop.asset_data_for_uses) = 0
               /\ nft_bytes(assets) = ids_stake(asset)
  <1> DEFINE m == only_metadata(drop)
             asset == assets[m.asset_id]
             cost == get_yocto_refund_amount(asset, m.tokens_per_use)
             use == only_use(drop)
             data == drop.asset_data_for_uses
  <1>1. /\ data = <<use>> /\ use.uses = 1 /\ use.assets_metadata = <<m>>
        /\ DOMAIN assets = {m.asset_id} /\ AssetKept(asset, m)
    BY DEF StockedWith
  <1>2. cost \in Nat
    BY <1>1, CostOfAsset DEF AssetKept
  <1>3. cost_of_use(assets, use.assets_metadata) = cost
    <2> DEFINE f == [i \in DOMAIN use.assets_metadata |->
                        get_yocto_refund_amount(assets[use.assets_metadata[i].asset_id],
                                                use.assets_metadata[i].tokens_per_use)]
    <2>1. DOMAIN f = {1} /\ f[1] = cost
      BY <1>1
    <2> HIDE DEF f
    <2>2. SumFunction(f) = cost
      BY <1>2, <2>1, SumOfOne
    <2> QED
      BY <2>2 DEF cost_of_use, f
  <1>4. uses_through(data, 1) = 1
    <2> DEFINE f == [k \in 1 .. 1 |-> data[k].uses]
    <2>1. DOMAIN f = {1} /\ f[1] = 1
      BY <1>1
    <2> HIDE DEF f
    <2>2. SumFunction(f) = 1
      BY <2>1, SumOfOne
    <2> QED
      BY <2>2 DEF uses_through, f
  <1>5. uses_after(data, 1) = 0
    BY <1>1, <1>4 DEF uses_after, max_key_uses
  <1>6. ASSUME NEW n \in 0 .. 1
        PROVE  get_total_costs_for_key(n, assets, data) = IF n = 1 THEN cost ELSE 0
    <2> DEFINE remaining == get_remaining_asset_data(data, n)
               f == [g \in DOMAIN remaining |-> remaining[g] * cost_of_use(assets, data[g].assets_metadata)]
    <2>1. DOMAIN remaining = {1}
      BY <1>1 DEF get_remaining_asset_data
    <2>2. remaining[1] = n
      BY <1>1, <1>5, <2>1 DEF get_remaining_asset_data
    <2>3. cost_of_use(assets, data[1].assets_metadata) = cost
      BY <1>1, <1>3
    <2> HIDE DEF remaining, cost
    <2>4. DOMAIN f = {1} /\ f[1] = n * cost
      BY <2>1, <2>2, <2>3
    <2>5. n * cost = IF n = 1 THEN cost ELSE 0
      BY <1>2
    <2>6. f[1] = (IF n = 1 THEN cost ELSE 0) /\ f[1] \in Nat
      BY <1>2, <2>4, <2>5
    <2> HIDE DEF f
    <2>7. SumFunction(f) = IF n = 1 THEN cost ELSE 0
      BY <2>4, <2>6, SumOfOne
    <2> QED
      BY <2>7 DEF get_total_costs_for_key, f, remaining
  <1>7. ids_stake(asset) \in Nat /\ nft_bytes(assets) = ids_stake(asset)
    <2> DEFINE f == [a \in DOMAIN assets |-> Len(assets[a].token_ids)]
    <2>1. Len(asset.token_ids) \in Nat
      BY <1>1, LenProperties DEF AssetKept
    <2>2. DOMAIN f = {m.asset_id} /\ f[m.asset_id] = Len(asset.token_ids)
      BY <1>1
    <2> HIDE DEF f
    <2>3. SumFunction(f) = Len(asset.token_ids)
      BY <2>1, <2>2, SumOfOne
    <2>4. ids_stake(asset) \in Nat
      BY <2>1, Products, StorageAssumption DEF ids_stake
    <2> QED
      BY <2>3, <2>4 DEF nft_bytes, ids_stake, f
  <1> QED
    BY <1>2, <1>3, <1>6, <1>7

\* Each call carries its method's deposit and no method is called twice.
LEMMA CallsPaid ==
    ASSUME NEW asset, AssetTyped(asset), NEW fc_args,
           NEW p, calls_promise(asset, claim_fc_asset(asset.methods, fc_args)) = Some(p)
    PROVE  near_of(p) <= deposits_of(asset.methods)
  <1> DEFINE methods == asset.methods
             calls == claim_fc_asset(methods, fc_args)
             g == [i \in DOMAIN methods |-> methods[i].attached_deposit]
  <1>1. methods \in Seq(ToSet(methods)) /\ \A i \in DOMAIN methods : methods[i].attached_deposit \in Nat
    BY MethodsTyped DEF AssetTyped
  <1>2. CallsMade(calls, methods)
    BY <1>1, ClaimMakesCalls
  <1> HIDE DEF calls
  <1>3. p = [Promise(asset, 0, NoToken, 0) EXCEPT
                !.deposits = [i \in DOMAIN calls |-> calls[i].attached_deposit], !.calls = calls]
    BY Zenon DEF calls_promise, calls, Some, None
  <1>4. p.deposits = [i \in DOMAIN calls |-> calls[i].attached_deposit]
    BY <1>3 DEF Promise
  <1>5. ASSUME NEW i \in DOMAIN calls
        PROVE  /\ calls[i].method \in DOMAIN methods
               /\ calls[i].attached_deposit = methods[calls[i].method].attached_deposit
    <2>1. CallMade(calls[i], methods)
      BY <1>2 DEF CallsMade, ToSet
    <2>2. PICK given : calls[i] = CallOf(methods[calls[i].method], calls[i].method, given)
      BY <2>1 DEF CallMade
    <2> QED
      BY <2>1, <2>2 DEF CallMade, CallOf
  <1> DEFINE f == [i \in DOMAIN calls |-> calls[i].attached_deposit]
             into == [i \in DOMAIN calls |-> calls[i].method]
  <1>6. DOMAIN calls = 1 .. Len(calls) /\ Len(calls) \in Nat
        /\ DOMAIN methods = 1 .. Len(methods) /\ Len(methods) \in Nat
    BY <1>1, <1>2, LenProperties DEF CallsMade
  <1>7. Amounts(f) /\ Amounts(g)
    <2>1. IsFiniteSet(DOMAIN calls) /\ IsFiniteSet(DOMAIN methods)
      <3>1. \A n \in Nat : IsFiniteSet(1 .. n)
        BY FS_Interval
      <3> QED
        BY <1>6, <3>1
    <2>2. \A i \in DOMAIN calls : calls[i].attached_deposit \in Nat
      BY <1>1, <1>5
    <2> QED
      BY <1>1, <2>1, <2>2 DEF Amounts
  <1>8. into \in [DOMAIN f -> DOMAIN g] /\ \A i \in DOMAIN f : f[i] <= g[into[i]]
    BY <1>1, <1>5
  <1>9. \A i, j \in DOMAIN f : into[i] = into[j] => i = j
    <2> SUFFICES ASSUME NEW i \in DOMAIN calls, NEW j \in DOMAIN calls, i # j
                 PROVE  calls[i].method # calls[j].method
      OBVIOUS
    <2>1. calls[i].method \in Int /\ calls[j].method \in Int
      BY <1>5, <1>6
    <2>2. i < j \/ j < i
      BY <1>6
    <2>3. /\ i < j => calls[i].method < calls[j].method
          /\ j < i => calls[j].method < calls[i].method
      BY <1>2 DEF CallsMade
    <2> QED
      BY <2>1, <2>2, <2>3
  <1>10. p.deposits = f /\ deposits_of(methods) = SumFunction(g)
    BY <1>4 DEF deposits_of
  <1> HIDE DEF f, g, into
  <1>11. SumFunction(f) <= SumFunction(g)
    BY <1>7, <1>8, <1>9, SumInjected
  <1> QED
    BY <1>10, <1>11 DEF near_of, near_back, SumFunction

\* What the promise of a claim is worth, with the NEAR it takes along and
\* what the asset keeps, is no more than the use cost and the asset had.
claim_stake(asset, metadata) ==
    CASE asset.type = "ft" -> get_yocto_refund_amount(asset, metadata.tokens_per_use)
      [] asset.type = "nft" -> NftBytes
      [] OTHER -> 0

ClaimCosts(asset, metadata, claimed) ==
    LET p == unwrap(claimed.promise)
    IN  /\ p.type = "near" => p.deposits = <<metadata.tokens_per_use>>
        /\ near_of(p) \in Nat
        /\ near_of(p) + claim_stake(asset, metadata) + ids_stake(claimed.asset)
              <= get_yocto_refund_amount(asset, metadata.tokens_per_use) + ids_stake(asset)

\* A promise of one transfer takes its deposit, and gives it back when it is lost.
LEMMA OneDeposit ==
    ASSUME NEW p, NEW n \in Nat, p.deposits = <<n>>
    PROVE  near_of(p) = n /\ near_back(p, {1}) = n /\ near_back(p, {}) = 0
  <1>1. DOMAIN p.deposits = {1} /\ p.deposits[1] = n
    OBVIOUS
  <1>2. SumFunction(p.deposits) = n
    BY <1>1, SumOfOne
  <1> QED
    BY <1>1, <1>2, SumEmpty DEF near_of, near_back, SumFunction

\* What a claim takes, and leaves to its callback, the use was charged.
LEMMA ClaimIsPaid ==
    ASSUME NEW asset, NEW metadata, AssetKept(asset, metadata), AssetTyped(asset), Free(asset),
           NEW args, NEW claimed, claimed = claim_asset(asset, metadata.tokens_per_use, args),
           claimed.promise # None
    PROVE  ClaimCosts(asset, metadata, claimed)
  <1> DEFINE n == metadata.tokens_per_use
             cost == get_yocto_refund_amount(asset, n)
             p == unwrap(claimed.promise)
  <1>1. /\ n \in Nat /\ cost \in Nat /\ asset.cost \in Nat /\ ids_stake(asset) \in Nat
        /\ asset.type \in AssetTypes /\ NftBytes \in Nat
    BY CostOfAsset, IdsStaked, StorageAssumption DEF AssetKept, AssetTyped, AssetTypeOK
  <1>2. \A q : unwrap(Some(q)) = q
    BY DEF unwrap, Some
  <1>3. \A amount, token : \A near \in Nat :
           LET q == Promise(asset, amount, token, near)
           IN  q.deposits = <<near>> /\ q.type = asset.type /\ near_of(q) = near
    <2> TAKE amount, token
    <2> TAKE near \in Nat
    <2>1. Promise(asset, amount, token, near).deposits = <<near>>
          /\ Promise(asset, amount, token, near).type = asset.type
      BY DEF Promise
    <2> QED
      BY <2>1, OneDeposit
  <1>4. CASE asset.type = "ft"
    <2>1. from_near(asset.cost) + from_near(1) = 0
      BY <1>1, <1>4 DEF Free, from_near
    <2>2. /\ claimed.asset = [asset EXCEPT !.balance_avail = @ - n]
          /\ claimed.promise = Some(Promise(asset, n, NoToken, 0))
      BY <1>4, <2>1 DEF claim_asset
    <2>3. near_of(p) = 0 /\ p.type = "ft"
      BY <1>2, <1>3, <1>4, <2>2
    <2>4. ids_stake(claimed.asset) = ids_stake(asset)
      BY <2>2 DEF ids_stake, AssetKept
    <2> QED
      BY <1>1, <1>4, <2>3, <2>4 DEF ClaimCosts, claim_stake
  <1>5. CASE asset.type = "nft"
    <2>1. /\ asset.token_ids # << >> /\ claimed.asset = [asset EXCEPT !.token_ids = Front(@)]
          /\ claimed.promise = Some(Promise(asset, 0, Last(asset.token_ids), 0))
      BY <1>5 DEF claim_asset, is_empty, Free
    <2>2. near_of(p) = 0 /\ p.type = "nft"
      BY <1>2, <1>3, <1>5, <2>1
    <2>3. /\ Len(asset.token_ids) \in Nat \ {0} /\ claimed.asset.token_ids = Front(asset.token_ids)
          /\ Len(Front(asset.token_ids)) = Len(asset.token_ids) - 1
      <3>1. claimed.asset.token_ids = Front(asset.token_ids)
        BY <2>1 DEF AssetKept
      <3>2. \A s \in Seq(NftTokens) : s # << >> =>
               Len(s) \in Nat \ {0} /\ Len(SubSeq(s, 1, Len(s) - 1)) = Len(s) - 1
        <4> SUFFICES ASSUME NEW s \in Seq(NftTokens), s # << >>
                     PROVE  Len(s) \in Nat \ {0} /\ Len(SubSeq(s, 1, Len(s) - 1)) = Len(s) - 1
          OBVIOUS
        <4> DEFINE len == Len(s)
                   front == SubSeq(s, 1, len - 1)
        <4>1. len \in Nat \ {0} /\ \A i \in 1 .. len : s[i] \in NftTokens
          BY LenProperties, EmptySeq
        <4>2. len - 1 \in Int /\ \A i \in 1 .. len - 1 : s[i] \in NftTokens
          BY <4>1
        <4> HIDE DEF len
        <4>3. Len(front) = IF 1 <= len - 1 THEN len - 1 - 1 + 1 ELSE 0
          BY <4>2, SubSeqProperties
        <4> HIDE DEF front
        <4>4. Len(front) = len - 1
          BY <4>1, <4>3
        <4> QED
          BY <4>1, <4>4 DEF len, front
      <3> QED
        BY <2>1, <3>1, <3>2 DEF AssetKept, Front
    <2>4. ids_stake(claimed.asset) + NftBytes = ids_stake(asset)
      <3>1. \A k \in Nat \ {0} : NftBytes * (k - 1) + NftBytes = NftBytes * k
        BY <1>1
      <3> QED
        BY <2>3, <3>1 DEF ids_stake
    <2>5. ids_stake(claimed.asset) \in Nat
      BY <1>1, <2>3, Products DEF ids_stake
    <2> QED
      BY <1>1, <1>5, <2>2, <2>4, <2>5 DEF ClaimCosts, claim_stake
  <1>6. CASE asset.type = "fc"
    <2>1. claimed.asset = asset
          /\ claimed.promise = calls_promise(asset, claim_fc_asset(asset.methods, args))
      BY <1>6 DEF claim_asset
    <2>2. claimed.promise = Some(p)
      BY <2>1, <1>2 DEF calls_promise
    <2>3. near_of(p) <= deposits_of(asset.methods) /\ near_of(p) \in Nat
      BY <2>1, <2>2, CallsPaid, CallsCarry, PromiseCarries
    <2>4. cost = deposits_of(asset.methods)
      BY <1>6 DEF get_yocto_refund_amount
    <2>5. p.type = "fc"
      BY <1>2, <1>6, <2>1, <2>2 DEF calls_promise, Promise
    <2> QED
      BY <1>1, <1>6, <2>1, <2>3, <2>4, <2>5 DEF ClaimCosts, claim_stake
  <1>7. CASE asset.type = "near"
    <2>1. claimed.asset = asset /\ claimed.promise = Some(Promise(asset, 0, NoToken, n))
      BY <1>7 DEF claim_asset
    <2>2. near_of(p) = n /\ p.deposits = <<n>>
      BY <1>1, <1>2, <1>3, <2>1
    <2>3. cost = n
      BY <1>7 DEF get_yocto_refund_amount
    <2> QED
      BY <1>1, <1>7, <2>1, <2>2, <2>3 DEF ClaimCosts, claim_stake
  <1>8. CASE asset.type = "none"
    BY <1>8 DEF claim_asset
  <1> QED
    BY <1>1, <1>4, <1>5, <1>6, <1>7, <1>8 DEF AssetTypes

-----------------------------------------------------------------------------
(* The steps of the claims.                                                *)

\* The storage of the NFTs of a drop with one asset.
LEMMA BytesOfOne ==
    ASSUME NEW d, NEW x, Len(x.token_ids) \in Nat
    PROVE  nft_bytes(only_asset(d, x)) = ids_stake(x) /\ ids_stake(x) \in Nat
  <1> DEFINE assets == only_asset(d, x)
             f == [a \in DOMAIN assets |-> Len(assets[a].token_ids)]
  <1>1. DOMAIN f = {asset_id_of(d)} /\ f[asset_id_of(d)] = Len(x.token_ids)
    BY DEF only_asset
  <1> HIDE DEF f
  <1>2. SumFunction(f) = Len(x.token_ids)
    BY <1>1, SumOfOne
  <1>3. ids_stake(x) \in Nat
    BY Products, StorageAssumption DEF ids_stake
  <1> QED
    BY <1>2, <1>3 DEF nft_bytes, ids_stake, f

\* The funder of a drop and what it has.
LEMMA FunderOfDrop ==
    ASSUME Books, NEW d \in DOMAIN drop_by_id
    PROVE  LET a == drop_by_id[d].funder_id
           IN  a \in Accounts /\ user_balance[a] \in Nat /\ funder_stake(a) \in Nat
  <1>1. drop_by_id[d].funder_id \in Accounts
    BY DEF Books, Kept, Inv, Current, Registry, Typed, IsMap, Drop
  <1>2. ASSUME NEW a \in Accounts PROVE user_balance[a] \in Nat /\ funder_stake(a) \in Nat
    <2>1. user_balance[a] \in Nat /\ unwrap_or(funder_metadata[a], 0) \in Nat
      BY OptionAmounts DEF Books, HoldingsTyped, SettingsTyped
    <2> QED
      BY <2>1, Products, StorageAssumption DEF funder_stake
  <1> QED
    BY <1>1, <1>2

\* A balance that is raised or lowered.
LEMMA BalanceModified ==
    ASSUME Books, NEW a \in Accounts, NEW n \in Int, internal_modify_user_balance(a, n),
           UNCHANGED funder_metadata
    PROVE  OnlyFunder(a) /\ funder_stake(a)' = funder_stake(a) + n /\ funder_stake(a) \in Nat
  <1>1. user_balance'[a] = user_balance[a] + n /\ OnlyFunder(a)
    BY DEF internal_modify_user_balance, OnlyFunder, Books, HoldingsTyped
  <1>2. user_balance[a] \in Nat /\ unwrap_or(funder_metadata[a], 0) \in Nat
    BY OptionAmounts DEF Books, HoldingsTyped, SettingsTyped
  <1>3. MetadataBytes * unwrap_or(funder_metadata[a], 0) \in Nat
    BY <1>2, Products, StorageAssumption
  <1>4. /\ funder_stake(a) = user_balance[a] + MetadataBytes * unwrap_or(funder_metadata[a], 0)
        /\ funder_stake(a)' = user_balance'[a] + MetadataBytes * unwrap_or(funder_metadata[a], 0)
    BY DEF funder_stake
  <1> QED
    BY <1>1, <1>2, <1>3, <1>4

\* What is cleaned up goes to the funder, and no more than that.
LeftByCleanup(t, x, refund) ==
    LET d == parse_token_id(t)
    IN  /\ AssetSet(d, x) /\ OnlyKey(t) /\ key_left(t) = 0
        /\ drop_left(d, x) \in Nat /\ ids_stake(x) \in Nat
        /\ \E a : /\ OnlyFunder(a) /\ funder_stake(a) \in Nat /\ funder_stake(a)' \in Nat
                  /\ funder_stake(a)' + drop_left(d, x)
                        <= funder_stake(a) + refund + KeyBytes + DropBytes + ids_stake(x)

\* handle_key_cleanup pays the funder what the key and the drop it removes had at stake.
LEMMA CleanupNear ==
    ASSUME Books, NEW t, parse_token_id(t) \in DOMAIN drop_by_id, NEW keys,
           DOMAIN keys = DOMAIN key_info_by_token_id, keys[t].remaining_uses = 0,
           \A u \in DOMAIN keys : u # t =>
               keys[u].remaining_uses = key_info_by_token_id[u].remaining_uses,
           NEW x, Len(x.token_ids) \in Nat, NEW withdrawn, NEW refund \in Nat, NEW added \in Nat,
           handle_key_cleanup(t, keys, only_asset(parse_token_id(t), x), withdrawn, refund, added),
           UNCHANGED funder_metadata
    PROVE  LeftByCleanup(t, x, refund)
  <1> DEFINE d == parse_token_id(t)
             assets == only_asset(d, x)
             removed == drop_is_finished(drop_by_id[d], KeysOf(keys, d) \ {t}, withdrawn)
             freed == KeyBytes + (IF removed THEN DropBytes + nft_bytes(assets) ELSE 0) - added
             n == IF freed > 0 THEN freed ELSE 0
  <1>1. AssetSet(d, x)
    BY CleanupSets DEF Books, Kept, only_asset
  <1>2. key_info_by_token_id' = Without(keys, {t})
    BY DEF handle_key_cleanup
  <1>3. OnlyKey(t) /\ key_left(t) = 0
    BY <1>2 DEF Without, Restrict, OnlyKey, key_left
  <1>4. PICK a \in Accounts : internal_modify_user_balance(a, refund + n)
    BY FunderOfDrop DEF handle_key_cleanup
  <1>5. removed => drop_by_id' = Without(drop_by_id, {d})
    BY DEF handle_key_cleanup
  <1>6. nft_bytes(assets) = ids_stake(x) /\ ids_stake(x) \in Nat
    BY BytesOfOne
  <1> HIDE DEF removed, assets
  <1>7. n \in Nat /\ n <= KeyBytes + IF removed THEN DropBytes + ids_stake(x) ELSE 0
    <2>1. DropBytes \in Nat /\ KeyBytes \in Nat
      BY StorageAssumption
    <2> DEFINE more == IF removed THEN DropBytes + ids_stake(x) ELSE 0
    <2>2. more \in Nat /\ freed = KeyBytes + more - added
      BY <1>6, <2>1
    <2> HIDE DEF more, freed
    <2>3. n \in Nat /\ n <= KeyBytes + more
      BY <2>1, <2>2
    <2> QED
      BY <2>3 DEF more
  <1> HIDE DEF n
  <1>9. OnlyFunder(a) /\ funder_stake(a)' = funder_stake(a) + (refund + n) /\ funder_stake(a) \in Nat
    <2>1. refund + n \in Int
      BY <1>7
    <2> QED
      BY <1>4, <2>1, BalanceModified
  <1>10. /\ removed => drop_left(d, x) = 0
         /\ drop_left(d, x) \in Nat /\ drop_left(d, x) <= DropBytes + ids_stake(x)
    BY <1>5, <1>6, StorageAssumption DEF Without, Restrict, drop_left
  <1>11. funder_stake(a)' + drop_left(d, x)
            <= funder_stake(a) + refund + KeyBytes + DropBytes + ids_stake(x)
    <2>1. DropBytes \in Nat /\ KeyBytes \in Nat
      BY StorageAssumption
    <2>2. n + drop_left(d, x) <= KeyBytes + DropBytes + ids_stake(x)
      BY <1>5, <1>6, <1>7, <1>10, <2>1 DEF drop_left
    <2> QED
      BY <1>6, <1>7, <1>9, <1>10, <2>1, <2>2
  <1> QED
    <2>1. funder_stake(a) + (refund + n) \in Nat
      BY <1>7, <1>9
    <2> QED
      BY <1>1, <1>3, <1>6, <1>9, <1>10, <1>11, <2>1 DEF LeftByCleanup

\* What is known of a drop.
LEMMA DropKnown ==
    ASSUME Books, Priced, NEW d \in DOMAIN drop_by_id
    PROVE  LET asset == asset_of(d)
               m == only_metadata(drop_by_id[d])
           IN  /\ AssetKept(asset, m) /\ AssetTyped(asset) /\ Free(asset)
               /\ asset_by_id[d] = only_asset(d, asset)
               /\ Len(asset.token_ids) \in Nat /\ ids_stake(asset) \in Nat /\ use_cost(d) \in Nat
               /\ use_cost(d) = get_yocto_refund_amount(asset, m.tokens_per_use)
               /\ drop_stake(d) = DropBytes + ids_stake(asset)
  <1>1. AssetKept(asset_of(d), only_metadata(drop_by_id[d])) /\ asset_id_of(d) \in DOMAIN asset_by_id[d]
        /\ asset_by_id[d] = only_asset(d, asset_of(d))
    BY OnlyRecord DEF Books, Kept, only_asset
  <1>2. AssetTyped(asset_of(d))
    BY DropRecords, <1>1 DEF Books, RecordsTyped, asset_of
  <1>3. only_metadata(drop_by_id[d]).tokens_per_use \in Nat /\ asset_of(d).token_ids \in Seq(NftTokens)
    BY <1>1 DEF AssetKept
  <1>4. ids_stake(asset_of(d)) \in Nat /\ use_cost(d) \in Nat /\ Len(asset_of(d).token_ids) \in Nat
    BY <1>2, <1>3, CostOfAsset, IdsStaked, LenProperties DEF use_cost
  <1>5. d \in DOMAIN asset_by_id /\ Free(asset_of(d))
    BY DEF Books, Kept, Inv, Priced
  <1> QED
    BY <1>1, <1>2, <1>4, <1>5 DEF use_cost, drop_stake

\* What is left of a drop that is kept.
LEMMA DropLeft ==
    ASSUME NEW d, NEW x, ids_stake(x) \in Nat
    PROVE  drop_left(d, x) \in Nat /\ drop_left(d, x) <= DropBytes + ids_stake(x)
  BY StorageAssumption DEF drop_left

\* The stake of the promise of a claim.
LEMMA ClaimReceiptStake ==
    ASSUME NEW t, NEW use, NEW claimed, NEW p, NEW asset, NEW metadata,
           Last(fired_promises(claimed)) = p, p.type = asset.type,
           use_cost(parse_token_id(t)) = get_yocto_refund_amount(asset, metadata.tokens_per_use)
    PROVE  stake_of(ClaimReceipt(t, use, claimed)) = claim_stake(asset, metadata)
  <1> DEFINE receipt == ClaimReceipt(t, use, claimed)
  <1>1. receipt.kind = "claim" /\ receipt.promise.type = asset.type /\ receipt.token_id = t
    BY DEF ClaimReceipt
  <1> HIDE DEF receipt
  <1>2. stake_of(receipt) = claim_stake(asset, metadata)
    BY <1>1 DEF stake_of, claim_stake
  <1> QED
    BY <1>2 DEF receipt

\* A claim that awaits its promise.
LEMMA AwaitedNear ==
    ASSUME Books, Priced, NEW t, NEW keys, keys[t].remaining_uses = 0, NEW claimed, NEW c, NEW use,
           \A u \in DOMAIN keys : u # t =>
               keys[u].remaining_uses = key_info_by_token_id[u].remaining_uses,
           parse_token_id(t) \in DOMAIN drop_by_id, ClaimedAsset(parse_token_id(t), claimed, c),
           DOMAIN keys = DOMAIN key_info_by_token_id, t \in DOMAIN keys,
           NEW lost, NEW results, internal_claim_assets(t, keys, claimed, results, lost),
           UNCHANGED <<fees_collected, funder_metadata>>,
           NEW r, OnlyPromise(r), r \in DOMAIN receipts', is_awaited(claimed),
           receipts'[r] = ClaimReceipt(t, use, claimed),
           key_stake(t) \in Nat, promise_stake(r) \in Nat,
           KeyBytes + use_cost(parse_token_id(t)) <= key_stake(t) + promise_stake(r)
    PROVE  NearMoves
  <1> DEFINE d == parse_token_id(t)
             asset == asset_of(d)
             m == only_metadata(drop_by_id[d])
             p == unwrap(c.promise)
  <1>1. /\ AssetKept(asset, m) /\ AssetTyped(asset) /\ Free(asset)
        /\ ids_stake(asset) \in Nat /\ use_cost(d) \in Nat
        /\ use_cost(d) = get_yocto_refund_amount(asset, m.tokens_per_use)
        /\ drop_stake(d) = DropBytes + ids_stake(asset)
    BY DropKnown
  <1>2. /\ c.promise # None /\ fired_promises(claimed) = <<p>> /\ detached_promises(claimed) = << >>
    BY OnePromise DEF ClaimedAsset
  <1>3. PICK args : c = claim_asset(asset, m.tokens_per_use, args)
    BY DEF ClaimedAsset
  <1>4. ClaimTakes(asset, m, c) /\ claimed.assets = only_asset(d, c.asset)
    BY DEF ClaimedAsset, only_asset
  <1> HIDE DEF asset, m
  <1>5. ClaimCosts(asset, m, c)
    BY <1>1, <1>2, <1>3, ClaimIsPaid
  <1>6. p.type = asset.type /\ AssetKept(c.asset, m)
    <2>1. p.type = asset.type
      BY <1>2, <1>4 DEF ClaimTakes
    <2>2. AssetKept(c.asset, m)
      BY <1>1, <1>2, <1>4, TakenFromAsset
    <2> QED
      BY <2>1, <2>2
  <1>7. ids_stake(c.asset) \in Nat /\ ids_stake(asset) \in Nat
    BY <1>1, <1>6, IdsStaked DEF AssetKept
  <1>8. vault' = vault - near_of(p)
    <2>1. near_attached(<<p>>) = near_of(p)
      <3> DEFINE f == [i \in DOMAIN <<p>> |-> near_of(<<p>>[i])]
      <3>1. DOMAIN f = {1} /\ f[1] = near_of(p)
        OBVIOUS
      <3>2. near_of(p) \in Nat
        BY <1>5 DEF ClaimCosts
      <3> HIDE DEF f
      <3>3. SumFunction(f) = near_of(p)
        BY <3>1, <3>2, SumOfOne
      <3> QED
        BY <3>3 DEF near_attached, f
    <2>2. near_lost(<< >>, lost) = 0
      BY SumEmpty DEF near_lost, SumFunction
    <2>3. vault' = vault - near_attached(<<p>>) + near_lost(<< >>, lost)
      BY <1>2 DEF internal_claim_assets
    <2>4. vault \in Nat /\ near_of(p) \in Nat
      BY <1>5 DEF ClaimCosts, Books, HoldingsTyped
    <2> HIDE DEF p
    <2> QED
      BY <2>1, <2>2, <2>3, <2>4
  <1>9. /\ UNCHANGED <<drop_by_id, user_balance>> /\ key_info_by_token_id' = keys
        /\ asset_by_id' = [asset_by_id EXCEPT ![d] = claimed.assets]
    BY DEF internal_claim_assets
  <1>10. AssetSet(d, c.asset)
    <2>1. SameDrops
      BY ClaimedAssetsDrops
    <2> QED
      BY <1>4, <1>9, <2>1, AssetWritten DEF Books, Kept, only_asset
  <1>11. OnlyKey(t) /\ key_left(t) = KeyBytes
    BY <1>9, StorageAssumption DEF OnlyKey, key_left, stake_of_key
  <1>12. \A a : OnlyFunder(a) /\ funder_stake(a)' = funder_stake(a)
    BY <1>9 DEF OnlyFunder, funder_stake
  <1>13. PICK a \in Accounts : funder_stake(a) \in Nat
    BY FunderOfDrop
  <1>14. promise_left(r) = claim_stake(asset, m)
    <2>1. Last(fired_promises(claimed)) = p
      <3>1. \A q : Last(<<q>>) = q
        BY DEF Last
      <3> QED
        BY <1>2, <3>1
    <2> HIDE DEF p
    <2>2. stake_of(ClaimReceipt(t, use, claimed)) = claim_stake(asset, m)
      BY <1>1, <1>6, <2>1, ClaimReceiptStake
    <2> QED
      BY <2>2 DEF promise_left
  <1>15. PricedPromise(receipts'[r])
    <2>1. Last(fired_promises(claimed)) = p
      <3>1. \A q : Last(<<q>>) = q
        BY DEF Last
      <3> QED
        BY <1>2, <3>1
    <2>2. p.type = "near" => p.deposits = <<m.tokens_per_use>>
      BY <1>5 DEF ClaimCosts
    <2> HIDE DEF p
    <2>3. PricedPromise(ClaimReceipt(t, use, claimed))
      BY <2>1, <2>2 DEF PricedPromise, ClaimReceipt, m
    <2> QED
      BY <2>3
  <1>16. NearEven(d, c.asset, t, r, a)
    <2>1. near_of(p) \in Nat /\ near_of(p) + claim_stake(asset, m) + ids_stake(c.asset)
                                   <= use_cost(d) + ids_stake(asset)
      BY <1>1, <1>5 DEF ClaimCosts
    <2>2. drop_left(d, c.asset) \in Nat /\ drop_left(d, c.asset) <= DropBytes + ids_stake(c.asset)
      BY <1>7, DropLeft
    <2>3. claim_stake(asset, m) \in Nat /\ DropBytes \in Nat /\ KeyBytes \in Nat
      BY <1>1, StorageAssumption DEF claim_stake
    <2>4. vault \in Nat /\ fees_collected \in Nat /\ fees_collected' = fees_collected
      BY DEF Books, HoldingsTyped, FeeInv
    <2> DEFINE n == near_of(p)  cs == claim_stake(asset, m)  u == use_cost(d)
               i1 == ids_stake(c.asset)  i2 == ids_stake(asset)
               stake == key_stake(t)  promised == promise_stake(r)
    <2>5. n \in Nat /\ cs \in Nat /\ u \in Nat /\ i1 \in Nat /\ i2 \in Nat /\ n + cs + i1 <= u + i2
          /\ stake \in Nat /\ promised \in Nat
      BY <1>1, <1>7, <2>1, <2>3
    <2>6. vault' = vault - n /\ promise_left(r) = cs /\ drop_left(d, c.asset) <= DropBytes + i1
          /\ drop_stake(d) = DropBytes + i2 /\ KeyBytes + u <= stake + promised
      BY <1>1, <1>8, <1>14, <2>2
    <2> HIDE DEF n, cs, u, i1, i2, d, stake, promised
    <2>7. funder_stake(a)' + fees_collected' + drop_left(d, c.asset) + key_left(t) + promise_left(r) + vault
             <= funder_stake(a) + fees_collected + drop_stake(d) + stake + promised + vault'
      BY <1>11, <1>12, <1>13, <2>2, <2>3, <2>4, <2>5, <2>6
    <2> QED
      BY <2>7 DEF NearEven, stake, promised
  <1> HIDE DEF d
  <1> QED
    BY <1>10, <1>11, <1>12, <1>15, <1>16 DEF NearMoves

\* A refund is no more than what the key and the promise had a stake in,
\* with what they leave of the asset y in x.
RefundPaid(t, r, x, y, refund) ==
    refund + KeyBytes + ids_stake(x) + vault <= key_stake(t) + promise_stake(r) + ids_stake(y) + vault'

\* A callback that cleans up after a key, whose use is refunded, or whose
\* promise ran.
LEMMA CleanedUpNear ==
    ASSUME Books, Priced, NEW t, parse_token_id(t) \in DOMAIN drop_by_id, NEW x, NEW refund \in Nat,
           LeftByCleanup(t, x, refund), NEW r, OnlyPromise(r), r \notin DOMAIN receipts',
           UNCHANGED fees_collected, vault' \in Nat,
           key_stake(t) \in Nat, promise_stake(r) \in Nat,
           RefundPaid(t, r, x, asset_of(parse_token_id(t)), refund)
    PROVE  NearMoves
  <1> DEFINE d == parse_token_id(t)
             i1 == ids_stake(x)
             i2 == ids_stake(asset_of(d))
             stake == key_stake(t)
             promised == promise_stake(r)
  <1>1. PICK a : /\ OnlyFunder(a) /\ funder_stake(a) \in Nat /\ funder_stake(a)' \in Nat
                 /\ funder_stake(a)' + drop_left(d, x)
                       <= funder_stake(a) + refund + KeyBytes + DropBytes + i1
    BY DEF LeftByCleanup
  <1>2. /\ AssetSet(d, x) /\ OnlyKey(t) /\ key_left(t) = 0 /\ drop_left(d, x) \in Nat /\ i1 \in Nat
    BY DEF LeftByCleanup
  <1>3. promise_left(r) = 0
    BY DEF promise_left
  <1>4. drop_stake(d) = DropBytes + i2 /\ i2 \in Nat
    BY DropKnown
  <1>5. vault \in Nat /\ vault' \in Nat /\ fees_collected \in Nat /\ fees_collected' = fees_collected
    BY DEF Books, HoldingsTyped, FeeInv
  <1>6. DropBytes \in Nat /\ KeyBytes \in Nat
    BY StorageAssumption
  <1>7. stake \in Nat /\ promised \in Nat
        /\ refund + KeyBytes + i1 + vault <= stake + promised + i2 + vault'
    BY DEF RefundPaid
  <1> HIDE DEF i1, i2, d, stake, promised
  <1>8. funder_stake(a)' + fees_collected' + drop_left(d, x) + key_left(t) + promise_left(r) + vault
           <= funder_stake(a) + fees_collected + drop_stake(d) + stake + promised + vault'
    <2> DEFINE f2 == funder_stake(a)'  f == funder_stake(a)  l == drop_left(d, x)
    <2>1. /\ f \in Nat /\ f2 \in Nat /\ l \in Nat /\ i1 \in Nat /\ i2 \in Nat
          /\ f2 + l <= f + refund + KeyBytes + DropBytes + i1
      BY <1>1, <1>2, <1>4
    <2> HIDE DEF f, f2, l
    <2>2. PICK v \in Nat : v = vault'
      BY <1>5
    <2>3. refund + KeyBytes + i1 + vault <= stake + promised + i2 + v
      BY <1>7, <2>2
    <2>4. vault \in Nat /\ fees_collected \in Nat /\ i2 \in Nat /\ stake \in Nat /\ promised \in Nat
      BY <1>4, <1>5, <1>7
    <2>5. f2 + l + vault <= f + DropBytes + i2 + stake + promised + v
      BY <1>6, <2>1, <2>3, <2>4
    <2>6. f2 + fees_collected + l + 0 + 0 + vault
             <= f + fees_collected + (DropBytes + i2) + stake + promised + v
      BY <1>6, <2>1, <2>4, <2>5
    <2> QED
      BY <1>2, <1>3, <1>4, <1>5, <2>2, <2>6 DEF f, f2, l
  <1>9. NearEven(d, x, t, r, a)
    BY <1>8 DEF NearEven, stake, promised
  <1> QED
    BY <1>1, <1>2, <1>9 DEF NearMoves

\* A claim that finds nothing to hand out.
LEMMA UnawaitedNear ==
    ASSUME Books, Priced, NEW t, NEW keys, keys[t].remaining_uses = 0, NEW claimed, NEW c,
           \A u \in DOMAIN keys : u # t =>
               keys[u].remaining_uses = key_info_by_token_id[u].remaining_uses,
           parse_token_id(t) \in DOMAIN drop_by_id, ClaimedAsset(parse_token_id(t), claimed, c),
           DOMAIN keys = DOMAIN key_info_by_token_id,
           NEW lost, NEW results \in {<< >>, <<TRUE>>},
           internal_claim_assets(t, keys, claimed, results, lost),
           UNCHANGED <<fees_collected, funder_metadata>>,
           NEW r, OnlyPromise(r), r \notin DOMAIN receipts', ~is_awaited(claimed),
           key_stake(t) \in Nat, promise_stake(r) \in Nat,
           KeyBytes + use_cost(parse_token_id(t)) <= key_stake(t) + promise_stake(r)
    PROVE  NearMoves
  <1> DEFINE d == parse_token_id(t)
             asset == asset_of(d)
             token_ids == claimed.token_ids
  <1>1. /\ ids_stake(asset) \in Nat /\ use_cost(d) \in Nat /\ Len(asset.token_ids) \in Nat
    BY DropKnown
  <1>2. c.promise = None /\ fired_promises(claimed) = << >> /\ detached_promises(claimed) = << >>
    BY OnePromise DEF ClaimedAsset
  <1>3. claimed.assets = only_asset(d, asset)
    BY <1>2 DEF ClaimedAsset, ClaimTakes, only_asset
  <1>4. on_assets_claimed(t, keys, claimed.assets, token_ids, results)
    BY DEF internal_claim_assets
  <1>5. vault' = vault
    <2>1. near_attached(<< >>) = 0 /\ near_lost(<< >>, lost) = 0
      BY SumEmpty DEF near_attached, near_lost, SumFunction
    <2>2. vault' = vault - near_attached(<< >>) + near_lost(<< >>, lost)
      BY <1>2 DEF internal_claim_assets
    <2> QED
      BY <2>1, <2>2 DEF Books, HoldingsTyped
  <1>6. results \in {<< >>, <<TRUE>>, <<FALSE>>} /\ results # <<FALSE>>
    <2>1. << >> # <<FALSE>>
      OBVIOUS
    <2>2. <<TRUE>>[1] # <<FALSE>>[1]
      OBVIOUS
    <2> QED
      BY <2>1, <2>2
  <1>7. PaysBack(t, keys, asset, token_ids, results)
    <2> HIDE DEF asset, token_ids
    <2> QED
      BY <1>3, <1>4, <1>6, AssetsClaimed DEF Books, Kept
  <1>8. (results = <<FALSE>>) = FALSE
    BY <1>6
  <1>9. given_back(d, asset, token_ids, FALSE) = asset /\ given_refund(d, asset, token_ids, FALSE) = 0
    BY DEF given_back, given_refund
  <1>10. PICK withdrawn :
            handle_key_cleanup(t, keys, only_asset(d, asset), withdrawn, 0,
                nft_bytes(only_asset(d, asset)) - nft_bytes(only_asset(d, asset)))
    <2>1. given_refund(d, asset, token_ids, results = <<FALSE>>) = 0
          /\ given_back(d, asset, token_ids, results = <<FALSE>>) = asset
      BY <1>8, <1>9, Zenon
    <2> HIDE DEF asset, token_ids
    <2>2. 0 \in Nat
      OBVIOUS
    <2> QED
      BY <1>7, <2>1, <2>2, Zenon DEF PaysBack, d
  <1>11. nft_bytes(only_asset(d, asset)) - nft_bytes(only_asset(d, asset)) = 0
    <2>1. nft_bytes(only_asset(d, asset)) \in Nat
      BY <1>1, BytesOfOne
    <2> QED
      BY <2>1
  <1>12. LeftByCleanup(t, asset, 0)
    <2> HIDE DEF asset
    <2> QED
      BY <1>1, <1>10, <1>11, CleanupNear DEF d
  <1>13. RefundPaid(t, r, asset, asset, 0)
    <2>1. KeyBytes \in Nat /\ vault \in Nat
      BY StorageAssumption DEF Books, HoldingsTyped
    <2> HIDE DEF asset
    <2> QED
      BY <1>1, <1>5, <2>1 DEF d, RefundPaid
  <1>14. vault' \in Nat
    BY <1>5 DEF Books, HoldingsTyped
  <1> QED
    BY <1>12, <1>13, <1>14, CleanedUpNear

\* A depleted key in a drop has a stake in its storage only.
LEMMA DepletedKey ==
    ASSUME NEW t \in DOMAIN key_info_by_token_id, key_info_by_token_id[t].remaining_uses = 0
    PROVE  key_stake(t) = KeyBytes /\ key_stake(t) \in Nat
  BY StorageAssumption DEF key_stake, stake_of_key

\* Claiming a key takes its use.
LEMMA ClaimNear ==
    ASSUME Books, Priced, Staked, NEW pk \in DOMAIN token_id_by_pk, NEW fc_args, NEW lost,
           Claim(pk, fc_args, lost)
    PROVE  NearMoves
  <1> DEFINE t == token_id_by_pk[pk]
             keys == keys_after_claim(pk)
             use == get_key_cur_use(drop_by_id[parse_token_id(t)], key_info_by_token_id[t])
             claimed == assets_of_last_use(t, keys, fc_args)
  <1>1. /\ t \in DOMAIN key_info_by_token_id /\ key_info_by_token_id[t].remaining_uses # 0
        /\ DOMAIN keys = DOMAIN key_info_by_token_id /\ keys[t].remaining_uses = 0
        /\ \A u \in DOMAIN keys : u # t => keys[u] = key_info_by_token_id[u]
    BY ClaimDepletes DEF Books, Kept
  <1>2. parse_token_id(t) \in DOMAIN drop_by_id
    BY <1>1 DEF Books, Kept, Inv, Current, Registry, Housed
  <1>3. claim_of(t, keys, use, claimed, lost) /\ UNCHANGED <<fees_collected, funder_metadata>>
    BY DEF Claim, settings
  <1>4. key_stake(t) \in Nat /\ KeyBytes + use_cost(parse_token_id(t)) <= key_stake(t)
    <2>1. KeyBytes \in Nat /\ PkBytes \in Nat /\ use_cost(parse_token_id(t)) \in Nat
      BY <1>2, StorageAssumption DEF Staked
    <2> QED
      BY <1>1, <2>1 DEF key_stake, stake_of_key
  <1> HIDE DEF t, keys, use, claimed
  <1>5. PICK c : ClaimedAsset(parse_token_id(t), claimed, c)
    BY <1>1, <1>2, ClaimOfOne DEF Books, Kept, claimed
  <1>6. internal_claim_assets(t, keys, claimed, << >>, lost)
    BY <1>3 DEF claim_of
  <1>7. \A r : r \notin DOMAIN receipts =>
           /\ promise_stake(r) \in Nat
           /\ KeyBytes + use_cost(parse_token_id(t)) <= key_stake(t) + promise_stake(r)
    <2>1. \A r : r \notin DOMAIN receipts => promise_stake(r) = 0
      BY DEF promise_stake
    <2> QED
      BY <1>4, <2>1
  <1>8. CASE is_awaited(claimed)
    <2>1. PICK r : /\ r \notin DOMAIN receipts /\ r \in DOMAIN receipts'
                   /\ receipts'[r] = ClaimReceipt(t, use, claimed) /\ OnlyPromise(r)
      BY <1>3, <1>8, FiredOne DEF claim_of
    <2> QED
      BY <1>1, <1>2, <1>3, <1>4, <1>5, <1>6, <1>7, <1>8, <2>1, AwaitedNear
  <1>9. CASE ~is_awaited(claimed)
    <2>1. UNCHANGED receipts
      BY <1>3, <1>9 DEF claim_of
    <2>2. PICK r : r \notin DOMAIN receipts
      BY NoSetContainsEverything
    <2>3. OnlyPromise(r) /\ r \notin DOMAIN receipts'
      BY <2>1, <2>2 DEF OnlyPromise
    <2> QED
      BY <1>1, <1>2, <1>3, <1>4, <1>5, <1>6, <1>7, <1>9, <2>2, <2>3, UnawaitedNear
  <1> QED
    BY <1>8, <1>9

\* A created account is handed the asset of the use its promise has a stake in.
LEMMA CreatedNear ==
    ASSUME Books, Priced, Staked, NEW r, NEW lost, OnNewAccountCreated(r, lost)
    PROVE  NearMoves
  <1> DEFINE t == receipts[r].token_id
             keys == key_info_by_token_id
             use == receipts[r].use
             claimed == assets_for(receipts[r])
  <1>1. /\ claim_in_flight(r, "create_account") /\ callback_finds_key(r)
        /\ hand_out(r, claimed, lost) /\ UNCHANGED <<fees_collected, funder_metadata>>
    BY DEF OnNewAccountCreated, settings
  <1>2. t \in DOMAIN keys /\ keys[t].remaining_uses = 0
    BY <1>1 DEF Books, Kept, Held, claims, is_claim, claim_in_flight
  <1>3. parse_token_id(t) \in DOMAIN drop_by_id
    BY <1>1 DEF callback_finds_key
  <1>4. /\ internal_claim_assets(t, keys, claimed, <<TRUE>>, lost)
        /\ receipts' = IF is_awaited(claimed)
                       THEN [receipts EXCEPT ![r] = ClaimReceipt(t, use, claimed)]
                       ELSE Without(receipts, {r})
    BY <1>1 DEF hand_out
  <1>5. r \in DOMAIN receipts
    BY <1>1 DEF claim_in_flight
  <1>6. claimed = assets_of_last_use(t, keys, receipts[r].fc_args)
    BY DEF assets_for
  <1>7. promise_stake(r) = use_cost(parse_token_id(t)) /\ promise_stake(r) \in Nat
    BY <1>1, <1>3 DEF Staked, promise_stake, stake_of, claim_in_flight
  <1>8. key_stake(t) = KeyBytes /\ key_stake(t) \in Nat
    BY <1>2, DepletedKey
  <1> HIDE DEF t, keys, use, claimed
  <1>9. PICK c : ClaimedAsset(parse_token_id(t), claimed, c)
    BY <1>2, <1>3, <1>6, ClaimOfOne DEF Books, Kept
  <1>10. OnlyPromise(r)
    BY <1>4, <1>5 DEF OnlyPromise, Without, Restrict
  <1>11. KeyBytes + use_cost(parse_token_id(t)) <= key_stake(t) + promise_stake(r)
    BY <1>7, <1>8
  <1>12. /\ DOMAIN keys = DOMAIN key_info_by_token_id
         /\ \A u \in DOMAIN keys : u # t =>
               keys[u].remaining_uses = key_info_by_token_id[u].remaining_uses
    BY DEF keys
  <1>13. CASE is_awaited(claimed)
    <2>1. r \in DOMAIN receipts' /\ receipts'[r] = ClaimReceipt(t, use, claimed)
      BY <1>4, <1>5, <1>13
    <2> QED
      BY <1>1, <1>2, <1>3, <1>4, <1>7, <1>8, <1>9, <1>10, <1>11, <1>12, <1>13, <2>1, AwaitedNear
  <1>14. CASE ~is_awaited(claimed)
    <2>1. r \notin DOMAIN receipts'
      BY <1>4, <1>14 DEF Without, Restrict
    <2> QED
      BY <1>1, <1>2, <1>3, <1>4, <1>7, <1>8, <1>9, <1>10, <1>11, <1>12, <1>14, <2>1, UnawaitedNear
  <1> QED
    BY <1>13, <1>14

\* An account that was not created: its use goes back.
LEMMA CreationFailedNear ==
    ASSUME Books, Priced, Staked, NEW r, OnAccountCreationFailed(r)
    PROVE  NearMoves
  <1> DEFINE t == receipts[r].token_id
             d == parse_token_id(t)
             asset == asset_of(d)
             metadata == last_use_data(drop_by_id[d], key_info_by_token_id[t]).assets_metadata
  <1>1. /\ claim_in_flight(r, "create_account") /\ callback_finds_key(r) /\ Resolve(r)
        /\ UNCHANGED <<fees_collected, funder_metadata, vault>>
    BY DEF OnAccountCreationFailed, holdings, settings
  <1>2. d \in DOMAIN drop_by_id
    BY <1>1 DEF callback_finds_key
  <1>3. handle_key_cleanup(t, key_info_by_token_id, asset_by_id[d],
            all_assets_empty(asset_by_id[d]), cost_of_use(asset_by_id[d], metadata), 0)
    BY DEF OnAccountCreationFailed
  <1>4. t \in DOMAIN key_info_by_token_id /\ key_info_by_token_id[t].remaining_uses = 0
    BY <1>1 DEF Books, Kept, Held, claims, is_claim, claim_in_flight
  <1>5. /\ asset_by_id[d] = only_asset(d, asset) /\ AssetTyped(asset)
        /\ Len(asset.token_ids) \in Nat /\ ids_stake(asset) \in Nat /\ use_cost(d) \in Nat
    BY <1>2, DropKnown
  <1>6. cost_of_use(asset_by_id[d], metadata) = use_cost(d)
    <2>1. StockedWith(drop_by_id[d], asset_by_id[d])
      BY <1>2 DEF Books, Kept, Stocked
    <2>2. metadata = only_use(drop_by_id[d]).assets_metadata
      BY <1>4, <2>1, LastUseIsOnly
    <2>3. AssetTyped(asset_by_id[d][only_metadata(drop_by_id[d]).asset_id])
      BY <1>5 DEF asset_of, asset_id_of
    <2>4. cost_of_use(asset_by_id[d], only_use(drop_by_id[d]).assets_metadata) = use_cost(d)
      BY <2>1, <2>3, CostOfStocked DEF use_cost, asset_of, asset_id_of
    <2> QED
      BY <2>2, <2>4
  <1>7. promise_stake(r) = use_cost(d) /\ promise_stake(r) \in Nat
    BY <1>1, <1>5 DEF promise_stake, stake_of, claim_in_flight
  <1>8. key_stake(t) = KeyBytes /\ key_stake(t) \in Nat
    BY <1>4, DepletedKey
  <1>9. OnlyPromise(r) /\ r \notin DOMAIN receipts'
    BY <1>1, ResolvedOne
  <1> HIDE DEF t, asset
  <1>10. LeftByCleanup(t, asset, use_cost(d))
    BY <1>1, <1>2, <1>3, <1>4, <1>5, <1>6, CleanupNear
  <1>11. RefundPaid(t, r, asset, asset, use_cost(d))
    <2>1. KeyBytes \in Nat /\ vault \in Nat /\ vault' = vault
      BY <1>1, StorageAssumption DEF Books, HoldingsTyped
    <2> QED
      BY <1>5, <1>7, <1>8, <2>1 DEF RefundPaid
  <1>12. vault' \in Nat
    BY <1>1 DEF Books, HoldingsTyped
  <1> QED
    BY <1>1, <1>2, <1>5, <1>7, <1>8, <1>9, <1>10, <1>11, <1>12, CleanedUpNear DEF asset

\* What a failed claim leaves of its asset and refunds: its promise had a
\* stake in that, and one of NEAR returns what it carried.
FailurePaid(asset, m, failed) ==
    /\ failed.refund \in Nat /\ Len(failed.asset.token_ids) \in Nat
    /\ ids_stake(asset) \in Nat /\ ids_stake(failed.asset) \in Nat
    /\ ids_stake(asset) <= ids_stake(failed.asset)
    /\ failed.refund + ids_stake(failed.asset)
          <= ids_stake(asset) + claim_stake(asset, m) + IF asset.type = "near" THEN m.tokens_per_use ELSE 0

\* What a claim that failed gives back, it had at stake.
LEMMA FailureIsPaid ==
    ASSUME NEW asset, NEW m, AssetKept(asset, m), AssetTyped(asset), NEW receipt,
           ClaimKept(receipt, asset, m), NEW token_id, token_id = receipt.token_ids[1]
    PROVE  FailurePaid(asset, m, on_failed_claim(asset, m.tokens_per_use, token_id))
  <1> DEFINE n == m.tokens_per_use
             failed == on_failed_claim(asset, n, token_id)
  <1> SUFFICES FailurePaid(asset, m, failed)
    OBVIOUS
  <1>1. /\ n \in Nat /\ asset.cost \in Nat /\ asset.type \in AssetTypes /\ NftBytes \in Nat
        /\ asset.token_ids \in Seq(NftTokens) /\ ids_stake(asset) \in Nat
    BY IdsStaked, StorageAssumption DEF AssetKept, AssetTyped, AssetTypeOK
  <1>2. Len(asset.token_ids) \in Nat
    BY <1>1, LenProperties
  <1>3. CASE asset.type = "ft"
    <2>1. failed.refund = asset.cost /\ failed.asset = add_to_balance_avail(asset, n)
      BY <1>3 DEF on_failed_claim
    <2>2. failed.asset.token_ids = asset.token_ids
      BY <2>1 DEF add_to_balance_avail, AssetKept
    <2>3. claim_stake(asset, m) = asset.cost
      BY <1>3 DEF claim_stake, get_yocto_refund_amount
    <2> HIDE DEF failed
    <2> QED
      BY <1>1, <1>2, <1>3, <2>1, <2>2, <2>3 DEF FailurePaid, ids_stake
  <1>4. CASE asset.type = "nft"
    <2>1. failed.refund = 0 /\ failed.asset = add_to_token_ids(asset, <<unwrap(token_id)>>)
      BY <1>4 DEF on_failed_claim
    <2>2. unwrap(token_id) \in NftTokens
      <3>1. PICK token \in NftTokens : receipt.token_ids = <<Some(token)>>
        BY <1>4 DEF ClaimKept
      <3>2. token_id = Some(token)
        BY <3>1
      <3>3. unwrap(Some(token)) = token
        BY DEF unwrap, Some
      <3> QED
        BY <3>2, <3>3
    <2>3. failed.asset.token_ids = asset.token_ids \o <<unwrap(token_id)>>
      BY <2>1 DEF add_to_token_ids, AssetKept
    <2>4. Len(asset.token_ids \o <<unwrap(token_id)>>) = Len(asset.token_ids) + 1
      <3>1. <<unwrap(token_id)>> \in Seq(NftTokens) /\ Len(<<unwrap(token_id)>>) = 1
        BY <2>2
      <3> QED
        BY <1>1, <3>1, ConcatProperties
    <2>5. claim_stake(asset, m) = NftBytes
      BY <1>4 DEF claim_stake
    <2>6. \A k \in Nat : NftBytes * (k + 1) = NftBytes * k + NftBytes
      BY <1>1
    <2>7. Len(failed.asset.token_ids) = Len(asset.token_ids) + 1
          /\ ids_stake(failed.asset) = ids_stake(asset) + NftBytes
      BY <1>2, <2>3, <2>4, <2>6 DEF ids_stake
    <2> HIDE DEF failed
    <2> QED
      BY <1>1, <1>2, <1>4, <2>1, <2>5, <2>7 DEF FailurePaid
  <1>5. CASE asset.type = "near"
    <2>1. failed.refund = n /\ failed.asset = asset
      BY <1>5 DEF on_failed_claim
    <2>2. claim_stake(asset, m) = 0
      BY <1>5 DEF claim_stake
    <2> HIDE DEF failed
    <2> QED
      BY <1>1, <1>2, <1>5, <2>1, <2>2 DEF FailurePaid
  <1>6. CASE asset.type \in {"fc", "none"}
    <2>1. failed.refund = 0 /\ failed.asset = asset
      BY <1>6 DEF on_failed_claim
    <2>2. claim_stake(asset, m) = 0
      BY <1>6 DEF claim_stake
    <2> HIDE DEF failed
    <2> QED
      BY <1>1, <1>2, <1>6, <2>1, <2>2 DEF FailurePaid
  <1> QED
    BY <1>1, <1>3, <1>4, <1>5, <1>6 DEF AssetTypes

\* The callback of a claim refunds what its promise did not take.
LEMMA AssetsClaimedNear ==
    ASSUME Books, Priced, Staked, NEW r, NEW lost, OnAssetsClaimed(r, lost)
    PROVE  NearMoves
  <1> DEFINE receipt == receipts[r]
             t == receipt.token_id
             d == parse_token_id(t)
             p == receipt.promise
             fails == has_failed(p, lost)
             asset == asset_of(d)
             m == only_metadata(drop_by_id[d])
             token_ids == receipt.token_ids
             failed == on_failed_claim(asset, m.tokens_per_use, token_ids[1])
             x == IF fails /\ asset.type # "fc" THEN failed.asset ELSE asset
             refund == IF fails /\ asset.type # "fc" THEN failed.refund ELSE 0
  <1>1. /\ r \in DOMAIN receipts /\ receipt.kind = "claim" /\ Resolve(r)
        /\ lost \subseteq DOMAIN p.deposits
        /\ vault' = vault + near_back(p, lost)
        /\ IF on_assets_claimed_defined(t, token_ids, ~fails)
           THEN on_assets_claimed(t, key_info_by_token_id, asset_by_id[d], token_ids, <<~fails>>)
           ELSE UNCHANGED <<drop_by_id, asset_by_id, key_info_by_token_id, drop_ids_by_funder,
                            user_balance>>
        /\ UNCHANGED <<fees_collected, funder_metadata>>
    BY DEF OnAssetsClaimed, claim_in_flight, settings
  <1>2. t \in DOMAIN key_info_by_token_id /\ key_info_by_token_id[t].remaining_uses = 0
    BY <1>1 DEF Books, Kept, Held, claims, is_claim
  <1>3. d \in DOMAIN drop_by_id /\ ClaimKept(receipt, asset, m)
    BY <1>1 DEF Books, Kept, Promised, PromiseKept
  <1>4. /\ AssetKept(asset, m) /\ AssetTyped(asset) /\ asset_by_id[d] = only_asset(d, asset)
        /\ Len(asset.token_ids) \in Nat /\ ids_stake(asset) \in Nat
        /\ use_cost(d) = get_yocto_refund_amount(asset, m.tokens_per_use) /\ use_cost(d) \in Nat
    BY <1>3, DropKnown
  <1>5. fails \in BOOLEAN
    BY DEF has_failed
  <1>6. on_assets_claimed_defined(t, token_ids, ~fails)
    <2>1. last_use_data(drop_by_id[d], key_info_by_token_id[t]) = only_use(drop_by_id[d])
      BY <1>2, <1>3, LastUseIsOnly DEF Books, Kept, Stocked
    <2>2. only_use(drop_by_id[d]).assets_metadata = <<m>>
      BY <1>3 DEF Books, Kept, Stocked, StockedWith
    <2>3. <<m>> # << >> /\ <<m>>[1] = m /\ asset_by_id[d][m.asset_id] = asset
      BY DEF asset_of, asset_id_of
    <2>4. asset.type = "nft" => token_ids[1] # None
      <3>1. asset.type = "nft" => token_ids = <<Some(p.token)>>
        BY <1>3 DEF ClaimKept
      <3>2. <<Some(p.token)>>[1] = Some(p.token) /\ Some(p.token) # None
        BY DEF Some, None
      <3> HIDE DEF p, receipt, asset, token_ids
      <3> QED
        BY <3>1, <3>2
    <2> HIDE DEF m, asset, receipt, fails, token_ids
    <2> QED
      BY <1>2, <1>3, <2>1, <2>2, <2>3, <2>4 DEF on_assets_claimed_defined
  <1>7. on_assets_claimed(t, key_info_by_token_id, asset_by_id[d], token_ids, <<~fails>>)
    BY <1>1, <1>6
  <1>8. FailurePaid(asset, m, failed)
    BY <1>3, <1>4, FailureIsPaid
  <1>9. /\ refund \in Nat /\ ids_stake(x) \in Nat /\ Len(x.token_ids) \in Nat
        /\ ids_stake(asset) <= ids_stake(x)
        /\ refund + ids_stake(x) <= ids_stake(asset) + claim_stake(asset, m)
              + IF fails /\ asset.type = "near" THEN m.tokens_per_use ELSE 0
    <2>1. claim_stake(asset, m) \in Nat
      BY <1>4, StorageAssumption DEF claim_stake
    <2> HIDE DEF failed, asset, m, fails
    <2>2. CASE fails /\ asset.type # "fc"
      <3>1. x = failed.asset /\ refund = failed.refund
        BY <2>2
      <3> QED
        BY <1>4, <1>8, <2>1, <2>2, <3>1 DEF FailurePaid
    <2>3. CASE ~(fails /\ asset.type # "fc")
      <3>1. x = asset /\ refund = 0 /\ ~(fails /\ asset.type = "near")
        BY <2>3
      <3> QED
        BY <1>4, <2>1, <3>1
    <2> QED
      BY <2>2, <2>3
  <1>10. PICK withdrawn :
            handle_key_cleanup(t, key_info_by_token_id, only_asset(d, x), withdrawn, refund,
                nft_bytes(only_asset(d, x)) - nft_bytes(only_asset(d, asset)))
    <2>1. <<~fails>> \in {<< >>, <<TRUE>>, <<FALSE>>} /\ (<<~fails>> = <<FALSE>>) = fails
      BY <1>5
    <2>2. PaysBack(t, key_info_by_token_id, asset, token_ids, <<~fails>>)
      <3> HIDE DEF fails, asset, token_ids
      <3> QED
        BY <1>2, <1>3, <1>4, <1>7, <2>1, AssetsClaimed DEF Books, Kept
    <2>3. given_back(d, asset, token_ids, fails) = x /\ given_refund(d, asset, token_ids, fails) = refund
      BY DEF given_back, given_refund
    <2> HIDE DEF fails, x, refund, asset, token_ids
    <2>4. given_back(d, asset, token_ids, <<~fails>> = <<FALSE>>) = x
          /\ given_refund(d, asset, token_ids, <<~fails>> = <<FALSE>>) = refund
      BY <2>1, <2>3
    <2> QED
      BY <1>9, <2>2, <2>4, Zenon DEF PaysBack, d
  <1>11. OnlyPromise(r) /\ r \notin DOMAIN receipts'
    BY <1>1, ResolvedOne
  <1>12. promise_stake(r) = claim_stake(asset, m) /\ promise_stake(r) \in Nat
    <2>1. p.type = asset.type
      BY <1>3 DEF ClaimKept
    <2>2. promise_stake(r) = claim_stake(asset, m)
      BY <1>1, <1>4, <2>1 DEF promise_stake, stake_of, claim_stake
    <2> QED
      BY <2>2 DEF Staked
  <1>13. key_stake(t) = KeyBytes /\ key_stake(t) \in Nat
    BY <1>2, DepletedKey
  <1>14. /\ near_back(p, lost) \in Nat
         /\ fails /\ asset.type = "near" => near_back(p, lost) = m.tokens_per_use
    <2>1. PromiseTyped(p)
      BY <1>1 DEF Books, Recorded, ReceiptTyped
    <2>2. near_back(p, lost) \in Nat
      BY <1>1, <2>1, PromiseCarries
    <2>3. ASSUME fails, asset.type = "near"
          PROVE  near_back(p, lost) = m.tokens_per_use
      <3>1. p.type = "near"
        BY <1>3, <2>3 DEF ClaimKept
      <3>2. p.deposits = <<m.tokens_per_use>>
        BY <1>1, <3>1 DEF Priced, PricedPromise
      <3>3. m.tokens_per_use \in Nat
        BY <1>4 DEF AssetKept
      <3>4. Len(p.deposits) = 1 /\ DOMAIN p.deposits = {1}
        BY <3>2
      <3>5. lost = {1}
        BY <1>1, <2>3, <3>4 DEF has_failed
      <3> HIDE DEF p, m
      <3> QED
        BY <3>2, <3>3, <3>5, OneDeposit
    <2> QED
      BY <2>2, <2>3
  <1>15. m.tokens_per_use \in Nat
    BY <1>4 DEF AssetKept
  <1> HIDE DEF x, refund, asset, m, fails, p, t, d
  <1>16. LeftByCleanup(t, x, refund)
    <2>1. nft_bytes(only_asset(d, x)) - nft_bytes(only_asset(d, asset)) \in Nat
      <3>1. nft_bytes(only_asset(d, x)) = ids_stake(x)
            /\ nft_bytes(only_asset(d, asset)) = ids_stake(asset)
        BY <1>4, <1>9, BytesOfOne
      <3> QED
        BY <1>4, <1>9, <3>1
    <2>2. parse_token_id(t) = d
      BY DEF d
    <2> QED
      BY <1>1, <1>2, <1>3, <1>9, <1>10, <2>1, <2>2, CleanupNear
  <1>17. vault \in Nat /\ vault' \in Nat
    BY <1>1, <1>14 DEF Books, HoldingsTyped
  <1>18. RefundPaid(t, r, x, asset_of(d), refund)
    <2> DEFINE i1 == ids_stake(x)  i2 == ids_stake(asset)  cs == claim_stake(asset, m)
               back == near_back(p, lost)
    <2>1. /\ i1 \in Nat /\ i2 \in Nat /\ cs \in Nat /\ back \in Nat /\ refund \in Nat
          /\ refund + i1 <= i2 + cs + back
      BY <1>4, <1>9, <1>12, <1>14, <1>15
    <2>2. key_stake(t) = KeyBytes /\ promise_stake(r) = cs /\ KeyBytes \in Nat /\ vault' = vault + back
      BY <1>1, <1>12, <1>13, StorageAssumption
    <2> HIDE DEF i1, i2, cs, back
    <2>3. PICK v \in Nat : v = vault'
      BY <1>17
    <2>4. refund + KeyBytes + i1 + vault <= KeyBytes + cs + i2 + v
      BY <1>17, <2>1, <2>2, <2>3
    <2> QED
      BY <2>2, <2>3, <2>4 DEF RefundPaid, i1, i2, asset
  <1>19. parse_token_id(t) = d
    BY DEF d
  <1> QED
    BY <1>1, <1>3, <1>9, <1>11, <1>12, <1>13, <1>16, <1>17, <1>18, <1>19, CleanedUpNear

-----------------------------------------------------------------------------
(* The other steps on a drop, a key, a promise and an account: each of     *)
(* them has its stake grow by no more than n.                              *)

DropGrows(n) ==
    \E d, x : /\ AssetSet(d, x) /\ drop_left(d, x) \in Nat /\ drop_stake(d) \in Nat
              /\ drop_left(d, x) <= drop_stake(d) + n
KeyGrows(n) ==
    \E t : /\ OnlyKey(t) /\ key_left(t) \in Nat /\ key_stake(t) \in Nat
           /\ key_left(t) <= key_stake(t) + n
PromiseGrows(n) ==
    \E r : /\ OnlyPromise(r) /\ (r \in DOMAIN receipts' => PricedPromise(receipts'[r]))
           /\ promise_left(r) \in Nat /\ promise_stake(r) \in Nat
           /\ promise_left(r) <= promise_stake(r) + n
FunderGrows(n) ==
    \E a : /\ OnlyFunder(a) /\ funder_stake(a)' \in Nat /\ funder_stake(a) \in Nat
           /\ funder_stake(a)' <= funder_stake(a) + n

\* A step that pays for this growth, and for that of the fees, is even.
LEMMA GrowthPaid ==
    ASSUME Books, NEW i \in Int, NEW k \in Int, NEW p \in Int, NEW f \in Int,
           DropGrows(i), KeyGrows(k), PromiseGrows(p), FunderGrows(f),
           fees_collected' \in Nat, vault' \in Nat,
           i + k + p + f + fees_collected' + vault <= fees_collected + vault'
    PROVE  NearMoves
  <1>1. PICK d, x : /\ AssetSet(d, x) /\ drop_left(d, x) \in Nat /\ drop_stake(d) \in Nat
                    /\ drop_left(d, x) <= drop_stake(d) + i
    BY DEF DropGrows
  <1>2. PICK t : /\ OnlyKey(t) /\ key_left(t) \in Nat /\ key_stake(t) \in Nat
                 /\ key_left(t) <= key_stake(t) + k
    BY DEF KeyGrows
  <1>3. PICK r : /\ OnlyPromise(r) /\ (r \in DOMAIN receipts' => PricedPromise(receipts'[r]))
                 /\ promise_left(r) \in Nat /\ promise_stake(r) \in Nat
                 /\ promise_left(r) <= promise_stake(r) + p
    BY DEF PromiseGrows
  <1>4. PICK a : /\ OnlyFunder(a) /\ funder_stake(a)' \in Nat /\ funder_stake(a) \in Nat
                 /\ funder_stake(a)' <= funder_stake(a) + f
    BY DEF FunderGrows
  <1>5. vault \in Nat /\ fees_collected \in Nat
    BY DEF Books, HoldingsTyped, FeeInv
  <1>6. NearEven(d, x, t, r, a)
    <2>1. PICK v \in Nat, w \in Nat : v = vault' /\ w = fees_collected'
      OBVIOUS
    <2>2. PICK d1 \in Nat, d2 \in Nat : d1 = drop_stake(d) /\ d2 = drop_left(d, x) /\ d2 <= d1 + i
      BY <1>1
    <2>3. PICK k1 \in Nat, k2 \in Nat : k1 = key_stake(t) /\ k2 = key_left(t) /\ k2 <= k1 + k
      BY <1>2
    <2>4. PICK p1 \in Nat, p2 \in Nat : p1 = promise_stake(r) /\ p2 = promise_left(r) /\ p2 <= p1 + p
      BY <1>3
    <2>5. PICK f1 \in Nat, f2 \in Nat : f1 = funder_stake(a) /\ f2 = funder_stake(a)' /\ f2 <= f1 + f
      BY <1>4
    <2>6. i + k + p + f + w + vault <= fees_collected + v
      BY <2>1
    <2>7. f2 + w + d2 + k2 + p2 + vault <= f1 + fees_collected + d1 + k1 + p1 + v
      BY <1>5, <2>2, <2>3, <2>4, <2>5, <2>6
    <2> QED
      BY <2>1, <2>2, <2>3, <2>4, <2>5, <2>7 DEF NearEven
  <1> QED
    BY <1>1, <1>2, <1>3, <1>4, <1>6 DEF NearMoves

\* What does not change does not grow.
LEMMA DropsQuiet ==
    ASSUME Books, UNCHANGED <<drop_by_id, asset_by_id>>
    PROVE  DropGrows(0)
  <1>1. PICK d : d \notin DOMAIN drop_by_id
    BY NoSetContainsEverything
  <1>2. AssetSet(d, asset_of(d))
    BY RecordsStay DEF Books
  <1>3. drop_stake(d) = 0 /\ drop_left(d, asset_of(d)) = 0
    BY <1>1 DEF drop_stake, drop_left, Books, Kept, Inv
  <1> QED
    BY <1>2, <1>3 DEF DropGrows

\* No use is taken.
LEMMA KeysQuiet ==
    ASSUME DOMAIN key_info_by_token_id' = DOMAIN key_info_by_token_id,
           \A u \in DOMAIN key_info_by_token_id :
               key_info_by_token_id'[u].remaining_uses = key_info_by_token_id[u].remaining_uses
    PROVE  KeyGrows(0)
  <1>1. PICK t : t \notin DOMAIN key_info_by_token_id
    BY NoSetContainsEverything
  <1>2. OnlyKey(t) /\ key_left(t) = 0 /\ key_stake(t) = 0
    BY <1>1 DEF OnlyKey, key_left, key_stake
  <1> QED
    BY <1>2 DEF KeyGrows

\* No promise comes or goes.
LEMMA PromisesQuiet == ASSUME UNCHANGED receipts PROVE PromiseGrows(0)
  <1>1. PICK r : r \notin DOMAIN receipts
    BY NoSetContainsEverything
  <1>2. /\ OnlyPromise(r) /\ r \notin DOMAIN receipts'
        /\ promise_left(r) = 0 /\ promise_stake(r) = 0
    BY <1>1 DEF OnlyPromise, promise_left, promise_stake
  <1> QED
    BY <1>2 DEF PromiseGrows

\* No account's balance or metadata changes.
LEMMA FundersQuiet == ASSUME UNCHANGED <<user_balance, funder_metadata>> PROVE FunderGrows(0)
  <1>1. PICK a : a \notin Accounts
    BY NoSetContainsEverything
  <1>2. OnlyFunder(a) /\ funder_stake(a) = 0 /\ funder_stake(a)' = 0
    BY <1>1 DEF OnlyFunder, funder_stake
  <1> QED
    BY <1>2 DEF FunderGrows

\* A promise that is fired adds its stake.
LEMMA FiredGrows ==
    ASSUME Books, NEW receipt, Fire(receipt), PricedPromise(receipt), stake_of(receipt) \in Nat
    PROVE  PromiseGrows(stake_of(receipt))
  <1>1. PICK r : /\ r \notin DOMAIN receipts /\ r \in DOMAIN receipts'
                 /\ receipts'[r] = receipt /\ OnlyPromise(r)
    BY FiredOne
  <1>2. promise_stake(r) = 0 /\ promise_left(r) = stake_of(receipt)
    BY <1>1 DEF promise_stake, promise_left
  <1> QED
    BY <1>1, <1>2 DEF PromiseGrows

\* A promise that is resolved gives back its stake.
LEMMA ResolvedGrows ==
    ASSUME Staked, NEW r, Resolve(r)
    PROVE  PromiseGrows(-promise_stake(r))
  <1>1. OnlyPromise(r) /\ r \notin DOMAIN receipts'
    BY ResolvedOne
  <1>2. promise_left(r) = 0 /\ promise_stake(r) \in Nat
    BY <1>1 DEF promise_left, Staked
  <1>3. 0 <= promise_stake(r) + (-promise_stake(r))
    BY <1>2
  <1> QED
    BY <1>1, <1>2, <1>3 DEF PromiseGrows

\* A balance that changes by n.
LEMMA BalanceGrows ==
    ASSUME Books, NEW a \in Accounts, NEW n \in Int, internal_modify_user_balance(a, n),
           user_balance[a] + n >= 0, UNCHANGED funder_metadata
    PROVE  FunderGrows(n)
  <1>1. OnlyFunder(a) /\ funder_stake(a)' = funder_stake(a) + n /\ funder_stake(a) \in Nat
    BY BalanceModified
  <1>2. funder_stake(a) + n \in Nat
    <2> DEFINE s == MetadataBytes * unwrap_or(funder_metadata[a], 0)
    <2>1. user_balance[a] \in Nat /\ s \in Nat
      BY OptionAmounts, Products, StorageAssumption DEF Books, HoldingsTyped, SettingsTyped
    <2>2. funder_stake(a) = user_balance[a] + s
      BY DEF funder_stake
    <2> HIDE DEF s
    <2> QED
      BY <2>1, <2>2
  <1> QED
    BY <1>1, <1>2 DEF FunderGrows

\* A depleted key gives its use to the promise that creates the account.
LEMMA CreateAccountNear ==
    ASSUME Books, Priced, Staked, NEW pk \in DOMAIN token_id_by_pk, NEW fc_args,
           CreateAccountAndClaim(pk, fc_args)
    PROVE  NearMoves
  <1> DEFINE t == token_id_by_pk[pk]
             keys == keys_after_claim(pk)
             d == parse_token_id(t)
             drop == drop_by_id[d]
             use == get_key_cur_use(drop, key_info_by_token_id[t])
             receipt == [kind |-> "create_account", token_id |-> t, use |-> use,
                         fc_args |-> fc_args, root |-> root_account_for(drop, use)]
  <1>1. /\ t \in DOMAIN key_info_by_token_id /\ key_info_by_token_id[t].remaining_uses # 0
        /\ DOMAIN keys = DOMAIN key_info_by_token_id /\ keys[t].remaining_uses = 0
        /\ \A u \in DOMAIN keys : u # t => keys[u] = key_info_by_token_id[u]
    BY ClaimDepletes DEF Books, Kept
  <1>2. d \in DOMAIN drop_by_id /\ use_cost(d) \in Nat
    BY <1>1 DEF Staked, Books, Kept, Inv, Current, Registry, Housed
  <1>3. /\ Fire(receipt) /\ key_info_by_token_id' = keys
        /\ UNCHANGED <<drop_by_id, asset_by_id, user_balance, funder_metadata, fees_collected, vault>>
    BY DEF CreateAccountAndClaim, settings, holdings
  <1>4. PricedPromise(receipt) /\ stake_of(receipt) = use_cost(d)
    BY DEF PricedPromise, stake_of
  <1>5. PromiseGrows(use_cost(d))
    <2> HIDE DEF receipt
    <2> QED
      BY <1>2, <1>3, <1>4, FiredGrows
  <1>6. KeyGrows(-use_cost(d))
    <2> HIDE DEF keys, t
    <2>1. OnlyKey(t)
      BY <1>1, <1>3 DEF OnlyKey
    <2>2. key_left(t) = KeyBytes
      BY <1>1, <1>3, StorageAssumption DEF key_left, stake_of_key
    <2>3. key_stake(t) = KeyBytes + (PkBytes + use_cost(d))
      BY <1>1 DEF key_stake, stake_of_key
    <2>4. KeyBytes \in Nat /\ PkBytes \in Nat
      BY StorageAssumption
    <2> HIDE DEF d
    <2>5. key_left(t) <= key_stake(t) + (-use_cost(d)) /\ key_left(t) \in Nat /\ key_stake(t) \in Nat
      BY <1>2, <2>2, <2>3, <2>4
    <2> QED
      BY <2>1, <2>5 DEF KeyGrows
  <1>7. DropGrows(0) /\ FunderGrows(0)
    BY <1>3, DropsQuiet, FundersQuiet
  <1> HIDE DEF d
  <1>8. /\ vault' \in Nat /\ fees_collected' \in Nat /\ -use_cost(d) \in Int /\ use_cost(d) \in Int
        /\ 0 + (-use_cost(d)) + use_cost(d) + 0 + fees_collected' + vault <= fees_collected + vault'
    BY <1>2, <1>3 DEF Books, HoldingsTyped, FeeInv
  <1> QED
    BY <1>5, <1>6, <1>7, <1>8, GrowthPaid

\* A callback that panics forgets what its promise had a stake in.
LEMMA CreationPanicsNear ==
    ASSUME Books, Priced, Staked, NEW r, OnNewAccountCreatedPanics(r)
    PROVE  NearMoves
  <1>1. /\ Resolve(r)
        /\ UNCHANGED <<drop_by_id, asset_by_id, key_info_by_token_id, user_balance,
                       funder_metadata, fees_collected, vault>>
    BY DEF OnNewAccountCreatedPanics, CallbackPanics, registry, settings, holdings
  <1>2. DropGrows(0) /\ FunderGrows(0) /\ KeyGrows(0)
    BY <1>1, DropsQuiet, FundersQuiet, KeysQuiet
  <1>3. PICK n \in Nat : n = promise_stake(r)
    BY DEF Staked
  <1>4. PromiseGrows(-n)
    BY <1>1, <1>3, ResolvedGrows
  <1>5. /\ vault' \in Nat /\ fees_collected' \in Nat /\ -n \in Int
        /\ 0 + 0 + (-n) + 0 + fees_collected' + vault <= fees_collected + vault'
    BY <1>1 DEF Books, HoldingsTyped, FeeInv
  <1> QED
    BY <1>2, <1>4, <1>5, GrowthPaid

\* The fees leave with the promise that pays them out, ...
LEMMA WithdrawFeesNear ==
    ASSUME Books, WithdrawFees
    PROVE  NearMoves
  <1>1. /\ fees_collected <= vault /\ fees_collected' = 0 /\ vault' = vault - fees_collected
        /\ Fire(FeeReceipt(fees_collected))
        /\ UNCHANGED <<drop_by_id, asset_by_id, key_info_by_token_id, user_balance, funder_metadata>>
    BY DEF WithdrawFees, registry, settings
  <1>2. DropGrows(0) /\ FunderGrows(0) /\ KeyGrows(0)
    BY <1>1, DropsQuiet, FundersQuiet, KeysQuiet
  <1>3. PICK receipt : receipt = FeeReceipt(fees_collected)
    OBVIOUS
  <1>4. PricedPromise(receipt) /\ stake_of(receipt) = 0
    BY <1>3 DEF PricedPromise, stake_of, FeeReceipt
  <1>5. PromiseGrows(0)
    BY <1>1, <1>3, <1>4, FiredGrows
  <1>6. vault \in Nat /\ fees_collected \in Nat
    BY DEF Books, HoldingsTyped, FeeInv
  <1>7. /\ vault' \in Nat /\ fees_collected' \in Nat
        /\ 0 + 0 + 0 + 0 + fees_collected' + vault <= fees_collected + vault'
    BY <1>1, <1>6
  <1> QED
    BY <1>2, <1>5, <1>7, GrowthPaid

\* ... and come back when it fails.
LEMMA OnWithdrawFeesNear ==
    ASSUME Books, Staked, NEW r, NEW succeeded, OnWithdrawFees(r, succeeded)
    PROVE  NearMoves
  <1>1. /\ r \in DOMAIN receipts /\ receipts[r].kind = "withdraw_fees" /\ Resolve(r)
        /\ \/ UNCHANGED <<fees_collected, vault>>
           \/ /\ fees_collected' = fees_collected + receipts[r].amount
              /\ vault' = vault + receipts[r].amount
        /\ UNCHANGED <<drop_by_id, asset_by_id, key_info_by_token_id, user_balance, funder_metadata>>
    BY DEF OnWithdrawFees, fees_put_back, registry, settings
  <1>2. DropGrows(0) /\ FunderGrows(0) /\ KeyGrows(0)
    BY <1>1, DropsQuiet, FundersQuiet, KeysQuiet
  <1>3. promise_stake(r) = 0
    BY <1>1 DEF promise_stake, stake_of
  <1>4. PromiseGrows(0)
    BY <1>1, <1>3, ResolvedGrows
  <1>5. receipts[r].amount \in Nat /\ vault \in Nat /\ fees_collected \in Nat
    BY <1>1 DEF Books, HoldingsTyped, FeeInv, is_fee_receipt
  <1>6. /\ vault' \in Nat /\ fees_collected' \in Nat
        /\ 0 + 0 + 0 + 0 + fees_collected' + vault <= fees_collected + vault'
    BY <1>1, <1>5
  <1> QED
    BY <1>2, <1>4, <1>6, GrowthPaid

\* A funder adds to the balance, ...
LEMMA AddToBalanceNear ==
    ASSUME Books, NEW caller \in Accounts, NEW deposit \in Nat, AddToBalance(caller, deposit)
    PROVE  NearMoves
  <1>1. /\ internal_modify_user_balance(caller, deposit) /\ vault' = vault + deposit
        /\ UNCHANGED <<drop_by_id, asset_by_id, key_info_by_token_id, funder_metadata, receipts,
                       fees_collected>>
    BY DEF AddToBalance, registry, settings
  <1>2. DropGrows(0) /\ PromiseGrows(0) /\ KeyGrows(0)
    BY <1>1, DropsQuiet, PromisesQuiet, KeysQuiet
  <1>3. user_balance[caller] \in Nat
    BY DEF Books, HoldingsTyped
  <1>4. deposit \in Int /\ user_balance[caller] + deposit >= 0
    BY <1>3
  <1>5. FunderGrows(deposit)
    BY <1>1, <1>4, BalanceGrows
  <1>6. vault \in Nat /\ fees_collected \in Nat
    BY DEF Books, HoldingsTyped, FeeInv
  <1>7. /\ vault' \in Nat /\ fees_collected' \in Nat
        /\ 0 + 0 + 0 + deposit + fees_collected' + vault <= fees_collected + vault'
    BY <1>1, <1>6
  <1> QED
    BY <1>2, <1>4, <1>5, <1>7, GrowthPaid

\* ... or withdraws from it.
LEMMA WithdrawBalanceNear ==
    ASSUME Books, NEW caller \in Accounts, NEW amount_to_withdraw \in Withdrawals,
           WithdrawFromBalance(caller, amount_to_withdraw)
    PROVE  NearMoves
  <1> DEFINE amount == unwrap_or(amount_to_withdraw, user_balance[caller])
  <1>1. /\ amount <= user_balance[caller] /\ amount > 0 /\ amount <= vault
        /\ internal_modify_user_balance(caller, -amount) /\ vault' = vault - amount
        /\ UNCHANGED <<drop_by_id, asset_by_id, key_info_by_token_id, funder_metadata, receipts,
                       fees_collected>>
    BY DEF WithdrawFromBalance, registry, settings
  <1>2. DropGrows(0) /\ PromiseGrows(0) /\ KeyGrows(0)
    BY <1>1, DropsQuiet, PromisesQuiet, KeysQuiet
  <1>3. user_balance[caller] \in Nat /\ vault \in Nat /\ fees_collected \in Nat
    BY DEF Books, HoldingsTyped, FeeInv
  <1>4. amount \in Nat
    BY <1>3, ChosenOptions, OptionAmounts
  <1> HIDE DEF amount
  <1>5. -amount \in Int /\ user_balance[caller] + (-amount) >= 0
    BY <1>1, <1>3, <1>4
  <1>6. FunderGrows(-amount)
    BY <1>1, <1>5, BalanceGrows
  <1>7. /\ vault' \in Nat /\ fees_collected' \in Nat
        /\ 0 + 0 + 0 + (-amount) + fees_collected' + vault <= fees_collected + vault'
    BY <1>1, <1>3, <1>4
  <1> QED
    BY <1>2, <1>5, <1>6, <1>7, GrowthPaid

\* Nothing moves when none of the books changes but the settings or the
\* owners of keys.
LEMMA QuietNear ==
    ASSUME Books,
           UNCHANGED <<drop_by_id, asset_by_id, user_balance, funder_metadata, receipts,
                       fees_collected, vault>>,
           DOMAIN key_info_by_token_id' = DOMAIN key_info_by_token_id,
           \A u \in DOMAIN key_info_by_token_id :
               key_info_by_token_id'[u].remaining_uses = key_info_by_token_id[u].remaining_uses
    PROVE  NearMoves
  <1>1. DropGrows(0) /\ PromiseGrows(0) /\ KeyGrows(0) /\ FunderGrows(0)
    BY DropsQuiet, PromisesQuiet, KeysQuiet, FundersQuiet
  <1>2. vault \in Nat /\ fees_collected \in Nat
    BY DEF Books, HoldingsTyped, FeeInv
  <1>3. /\ vault' \in Nat /\ fees_collected' \in Nat
        /\ 0 + 0 + 0 + 0 + fees_collected' + vault <= fees_collected + vault'
    BY <1>2
  <1> QED
    BY <1>1, <1>3, GrowthPaid

-----------------------------------------------------------------------------
(* Tokens in and out of a drop.                                            *)

\* A vector without duplicates is as long as its set is large.
LEMMA DistinctLength ==
    ASSUME NEW S, NEW s \in Seq(S), IsInjective(s)
    PROVE  IsFiniteSet(ToSet(s)) /\ Cardinality(ToSet(s)) = Len(s) /\ Len(s) \in Nat
  <1>1. Len(s) \in Nat /\ DOMAIN s = 1 .. Len(s)
    BY LenProperties
  <1>2. IsFiniteSet(DOMAIN s) /\ Cardinality(DOMAIN s) = Len(s)
    <2>1. \A n \in Nat : IsFiniteSet(1 .. n) /\ Cardinality(1 .. n) = n
      BY FS_Interval
    <2> QED
      BY <1>1, <2>1
  <1>3. s \in [DOMAIN s -> ToSet(s)]
    BY <1>1 DEF ToSet
  <1>4. \A y \in ToSet(s) : \E i \in DOMAIN s : s[i] = y
    BY DEF ToSet
  <1>5. \A i, j \in DOMAIN s : s[i] = s[j] => i = j
    BY DEF IsInjective
  <1>6. s \in Bijection(DOMAIN s, ToSet(s))
    BY <1>3, <1>4, <1>5 DEF Bijection, Injection, Surjection
  <1> QED
    BY <1>1, <1>2, <1>6, FS_Bijection DEF ExistsBijection

\* The asset of a drop that is not removed.
LEMMA AssetGrows ==
    ASSUME Books, Priced, NEW d \in DOMAIN drop_by_id, UNCHANGED drop_by_id, NEW x, AssetSet(d, x),
           Len(x.token_ids) \in Nat, NEW n \in Int, ids_stake(x) <= ids_stake(asset_of(d)) + n
    PROVE  DropGrows(n)
  <1>1. /\ ids_stake(x) \in Nat /\ ids_stake(asset_of(d)) \in Nat /\ DropBytes \in Nat
        /\ drop_stake(d) = DropBytes + ids_stake(asset_of(d))
    BY DropKnown, Products, StorageAssumption DEF ids_stake
  <1>2. drop_left(d, x) = DropBytes + ids_stake(x)
    BY DEF drop_left
  <1>3. drop_left(d, x) \in Nat /\ drop_stake(d) \in Nat /\ drop_left(d, x) <= drop_stake(d) + n
    BY <1>1, <1>2
  <1> QED
    BY <1>3 DEF DropGrows

\* The promise of a claim or a refund, and the asset it found.
LEMMA ContractAssetKnown ==
    ASSUME Books, Priced, NEW d, NEW c, has_asset(d, contract_asset_id(c))
    PROVE  LET asset == asset_of(d)
           IN  /\ d \in DOMAIN drop_by_id /\ contract_asset_id(c) = asset_id_of(d)
               /\ asset_by_id[d][contract_asset_id(c)] = asset
               /\ AssetKept(asset, only_metadata(drop_by_id[d])) /\ Free(asset)
               /\ asset.token_ids \in Seq(NftTokens) /\ IsInjective(asset.token_ids)
               /\ Len(asset.token_ids) \in Nat /\ ids_stake(asset) \in Nat
  <1>1. /\ d \in DOMAIN drop_by_id /\ contract_asset_id(c) = asset_id_of(d)
        /\ asset_by_id[d][contract_asset_id(c)] = asset_of(d)
    BY OnlyContractAsset DEF Books
  <1> QED
    BY <1>1, DropKnown DEF AssetKept

\* FTs come ...
LEMMA FtArrivalNear ==
    ASSUME Books, Priced, NEW c, NEW amount, NEW d, FtOnTransfer(c, amount, d)
    PROVE  NearMoves
  <1> DEFINE asset == asset_of(d)
             id == contract_asset_id(c)
             x == IF asset.type = "ft" THEN add_to_balance_avail(asset, amount) ELSE asset
  <1>1. /\ has_asset(d, id)
        /\ asset_by_id' = [asset_by_id EXCEPT ![d][id] =
                              IF @.type = "ft" THEN add_to_balance_avail(@, amount) ELSE @]
        /\ UNCHANGED <<drop_by_id, key_info_by_token_id, user_balance, funder_metadata,
                       fees_collected, receipts, vault>>
    BY DEF FtOnTransfer, registry, settings
  <1>2. /\ d \in DOMAIN drop_by_id /\ id = asset_id_of(d) /\ asset_by_id[d][id] = asset
        /\ AssetKept(asset, only_metadata(drop_by_id[d]))
        /\ Len(asset.token_ids) \in Nat /\ ids_stake(asset) \in Nat
    BY <1>1, ContractAssetKnown
  <1> HIDE DEF id
  <1>3. asset_by_id' = [asset_by_id EXCEPT ![d][asset_id_of(d)] = x]
    BY <1>1, <1>2
  <1> HIDE DEF asset
  <1>4. x.token_ids = asset.token_ids
    BY <1>2 DEF add_to_balance_avail, AssetKept
  <1> HIDE DEF x
  <1>5. AssetSet(d, x)
    BY <1>1, <1>2, <1>3, RecordSet DEF Books
  <1>6. ids_stake(x) <= ids_stake(asset) + 0 /\ Len(x.token_ids) \in Nat
    BY <1>2, <1>4 DEF ids_stake
  <1>7. DropGrows(0) /\ KeyGrows(0) /\ PromiseGrows(0) /\ FunderGrows(0)
    BY <1>1, <1>2, <1>5, <1>6, AssetGrows, KeysQuiet, PromisesQuiet, FundersQuiet DEF asset
  <1>8. /\ vault' \in Nat /\ fees_collected' \in Nat
        /\ 0 + 0 + 0 + 0 + fees_collected' + vault <= fees_collected + vault'
    BY <1>1 DEF Books, HoldingsTyped, FeeInv
  <1> QED
    BY <1>7, <1>8, GrowthPaid

\* ... and go, with no NEAR attached, ...
LEMMA FtWithdrawalNear ==
    ASSUME Books, Priced, NEW caller, NEW d, NEW c, NEW amount,
           WithdrawFtBalance(caller, d, c, amount)
    PROVE  NearMoves
  <1> DEFINE asset == asset_of(d)
             id == contract_asset_id(c)
             x == ft_refund(asset, amount)
  <1>1. /\ has_asset(d, id) /\ asset_by_id[d][id].type = "ft"
        /\ asset_by_id' = [asset_by_id EXCEPT ![d][id] = ft_refund(@, amount)]
        /\ Fire([kind |-> "ft_refund", drop_id |-> d,
                 promise |-> Promise(asset_by_id[d][id], amount, NoToken, from_near(1))])
        /\ vault' = vault - from_near(1)
        /\ UNCHANGED <<drop_by_id, key_info_by_token_id, user_balance, funder_metadata,
                       fees_collected>>
    BY DEF WithdrawFtBalance, registry, settings
  <1>2. /\ d \in DOMAIN drop_by_id /\ id = asset_id_of(d) /\ asset_by_id[d][id] = asset
        /\ AssetKept(asset, only_metadata(drop_by_id[d])) /\ Free(asset)
        /\ Len(asset.token_ids) \in Nat /\ ids_stake(asset) \in Nat
    BY <1>1, ContractAssetKnown
  <1> HIDE DEF id
  <1>3. asset_by_id' = [asset_by_id EXCEPT ![d][asset_id_of(d)] = x]
    BY <1>1, <1>2
  <1>4. vault' = vault
    <2>1. YoctoPerNear = 0
      BY <1>1, <1>2 DEF Free
    <2> QED
      BY <1>1, <2>1 DEF from_near, Books, HoldingsTyped
  <1> HIDE DEF asset
  <1>5. x.token_ids = asset.token_ids
    BY <1>2 DEF ft_refund, AssetKept
  <1> HIDE DEF x
  <1>6. AssetSet(d, x)
    BY <1>1, <1>2, <1>3, RecordSet DEF Books
  <1>7. ids_stake(x) <= ids_stake(asset) + 0 /\ Len(x.token_ids) \in Nat
    BY <1>2, <1>5 DEF ids_stake
  <1>8. DropGrows(0) /\ KeyGrows(0) /\ FunderGrows(0)
    BY <1>1, <1>2, <1>6, <1>7, AssetGrows, KeysQuiet, FundersQuiet DEF asset
  <1>9. PromiseGrows(0)
    <2>1. PICK receipt : Fire(receipt) /\ receipt.kind = "ft_refund"
      BY <1>1
    <2>2. PricedPromise(receipt) /\ stake_of(receipt) = 0
      BY <2>1 DEF PricedPromise, stake_of
    <2> QED
      BY <2>1, <2>2, FiredGrows
  <1>10. /\ vault' \in Nat /\ fees_collected' \in Nat
         /\ 0 + 0 + 0 + 0 + fees_collected' + vault <= fees_collected + vault'
    BY <1>1, <1>4 DEF Books, HoldingsTyped, FeeInv
  <1> QED
    BY <1>8, <1>9, <1>10, GrowthPaid

\* ... or come back.
LEMMA FtRefundNear ==
    ASSUME Books, Priced, Staked, NEW r, NEW succeeded, FtResolveRefund(r, succeeded)
    PROVE  NearMoves
  <1> DEFINE p == receipts[r].promise
             d == receipts[r].drop_id
             id == contract_asset_id(p.contract)
             asset == asset_of(d)
             back == ~succeeded /\ has_asset(d, id) /\ asset_by_id[d][id].type = "ft"
             x == add_to_balance_avail(asset, p.amount)
  <1>1. /\ r \in DOMAIN receipts /\ receipts[r].kind = "ft_refund" /\ Resolve(r)
        /\ vault' = IF succeeded THEN vault ELSE vault + near_of(p)
        /\ IF back THEN asset_by_id' = [asset_by_id EXCEPT ![d][id] = add_to_balance_avail(@, p.amount)]
                   ELSE UNCHANGED asset_by_id
        /\ UNCHANGED <<drop_by_id, key_info_by_token_id, user_balance, funder_metadata,
                       fees_collected>>
    BY DEF FtResolveRefund, registry, settings
  <1>2. DropGrows(0)
    <2>1. CASE back
      <3>1. /\ d \in DOMAIN drop_by_id /\ id = asset_id_of(d) /\ asset_by_id[d][id] = asset
            /\ AssetKept(asset, only_metadata(drop_by_id[d]))
            /\ Len(asset.token_ids) \in Nat /\ ids_stake(asset) \in Nat
        BY <2>1, ContractAssetKnown
      <3>2. asset_by_id' = [asset_by_id EXCEPT ![d][asset_id_of(d)] = x]
        BY <1>1, <2>1, <3>1
      <3> HIDE DEF asset, d, p
      <3>3. x.token_ids = asset.token_ids
        BY <3>1 DEF add_to_balance_avail, AssetKept
      <3> HIDE DEF x
      <3>4. AssetSet(d, x)
        BY <1>1, <3>1, <3>2, RecordSet DEF Books
      <3>5. ids_stake(x) <= ids_stake(asset) + 0 /\ Len(x.token_ids) \in Nat
        BY <3>1, <3>3 DEF ids_stake
      <3> QED
        BY <1>1, <3>1, <3>4, <3>5, AssetGrows DEF asset
    <2>2. CASE ~back
      BY <1>1, <2>2, DropsQuiet
    <2> QED
      BY <2>1, <2>2
  <1>3. KeyGrows(0) /\ FunderGrows(0)
    BY <1>1, KeysQuiet, FundersQuiet
  <1>4. PromiseGrows(0)
    <2>1. promise_stake(r) = 0
      BY <1>1 DEF promise_stake, stake_of
    <2> QED
      BY <1>1, <2>1, ResolvedGrows
  <1>5. near_of(p) \in Nat
    <2>1. PromiseTyped(p)
      BY <1>1 DEF Books, Recorded, ReceiptTyped
    <2> QED
      BY <2>1, PromiseCarries
  <1> HIDE DEF p
  <1>6. /\ vault' \in Nat /\ fees_collected' \in Nat
        /\ 0 + 0 + 0 + 0 + fees_collected' + vault <= fees_collected + vault'
    BY <1>1, <1>5 DEF Books, HoldingsTyped, FeeInv
  <1> QED
    BY <1>2, <1>3, <1>4, <1>6, GrowthPaid

\* An NFT that comes is stored at its sender's cost, ...
LEMMA NftArrivalNear ==
    ASSUME Books, Priced, NEW c, NEW token \in NftTokens, NEW sender \in Accounts, NEW d,
           NftOnTransfer(c, token, sender, d)
    PROVE  NearMoves
  <1> DEFINE asset == asset_of(d)
             id == contract_asset_id(c)
             x == add_to_token_ids(asset, <<token>>)
  <1>1. /\ has_asset(d, id)
        /\ IF asset_by_id[d][id].type = "nft"
           THEN /\ user_balance[sender] >= NftBytes
                /\ asset_by_id' = [asset_by_id EXCEPT ![d][id] = add_to_token_ids(@, <<token>>)]
                /\ internal_modify_user_balance(sender, -NftBytes)
           ELSE UNCHANGED <<asset_by_id, user_balance>>
        /\ UNCHANGED <<drop_by_id, key_info_by_token_id, funder_metadata, fees_collected, receipts,
                       vault>>
    BY DEF NftOnTransfer, registry, settings
  <1>2. /\ d \in DOMAIN drop_by_id /\ id = asset_id_of(d) /\ asset_by_id[d][id] = asset
        /\ AssetKept(asset, only_metadata(drop_by_id[d]))
        /\ asset.token_ids \in Seq(NftTokens)
        /\ Len(asset.token_ids) \in Nat /\ ids_stake(asset) \in Nat
    BY <1>1, ContractAssetKnown
  <1> HIDE DEF id
  <1>3. KeyGrows(0) /\ PromiseGrows(0)
    BY <1>1, KeysQuiet, PromisesQuiet
  <1>4. vault' = vault /\ fees_collected' = fees_collected /\ vault \in Nat /\ fees_collected \in Nat
    BY <1>1 DEF Books, HoldingsTyped, FeeInv
  <1>5. CASE asset.type = "nft"
    <2>1. asset_by_id' = [asset_by_id EXCEPT ![d][asset_id_of(d)] = x]
      BY <1>1, <1>2, <1>5
    <2> HIDE DEF asset
    <2>2. x.token_ids = asset.token_ids \o <<token>>
      BY <1>2 DEF add_to_token_ids, AssetKept
    <2> HIDE DEF x
    <2>3. AssetSet(d, x)
      BY <1>1, <1>2, <2>1, RecordSet DEF Books
    <2>4. Len(x.token_ids) = Len(asset.token_ids) + 1
      <3>1. <<token>> \in Seq(NftTokens) /\ Len(<<token>>) = 1
        OBVIOUS
      <3> QED
        BY <1>2, <2>2, <3>1, ConcatProperties
    <2>5. NftBytes \in Nat
      BY StorageAssumption
    <2>6. ids_stake(x) = ids_stake(asset) + NftBytes
      <3>1. \A n \in Nat : NftBytes * (n + 1) = NftBytes * n + NftBytes
        BY <2>5
      <3> QED
        BY <1>2, <2>4, <3>1 DEF ids_stake
    <2>7. ids_stake(x) <= ids_stake(asset) + NftBytes /\ Len(x.token_ids) \in Nat /\ NftBytes \in Int
      BY <1>2, <2>4, <2>5, <2>6
    <2>8. DropGrows(NftBytes)
      BY <1>1, <1>2, <2>3, <2>7, AssetGrows DEF asset
    <2>9. /\ user_balance[sender] >= NftBytes /\ internal_modify_user_balance(sender, -NftBytes)
          /\ user_balance[sender] \in Nat
      BY <1>1, <1>2, <1>5 DEF Books, HoldingsTyped
    <2>10. -NftBytes \in Int /\ user_balance[sender] + (-NftBytes) >= 0
      BY <2>5, <2>9
    <2>11. FunderGrows(-NftBytes)
      BY <1>1, <2>9, <2>10, BalanceGrows
    <2>12. /\ vault' \in Nat /\ fees_collected' \in Nat
           /\ NftBytes + 0 + 0 + (-NftBytes) + fees_collected' + vault <= fees_collected + vault'
      BY <1>4, <2>5
    <2> QED
      BY <1>3, <2>7, <2>8, <2>10, <2>11, <2>12, GrowthPaid
  <1>6. CASE asset.type # "nft"
    <2>1. UNCHANGED <<asset_by_id, user_balance>>
      BY <1>1, <1>2, <1>6
    <2> QED
      BY <1>1, <2>1, QuietNear
  <1> QED
    BY <1>5, <1>6

\* ... those that are withdrawn take their storage along, ...
LEMMA NftWithdrawalNear ==
    ASSUME Books, Priced, NEW caller, NEW d, NEW c, NEW tokens,
           WithdrawNftTokens(caller, d, c, tokens)
    PROVE  NearMoves
  <1> DEFINE asset == asset_of(d)
             id == contract_asset_id(c)
             ids == asset.token_ids
             left == only(ToSet(ids) \ tokens, ids)
             gone == only(tokens, ids)
             x == nft_refund(asset, tokens)
             released == NftBytes * Cardinality(tokens)
             receipt == [kind |-> "nft_refund", drop_id |-> d, contract |-> c, token_ids |-> gone,
                         storage_released |-> released]
  <1>1. /\ has_asset(d, id) /\ asset_by_id[d][id].type = "nft"
        /\ tokens \subseteq ToSet(asset_by_id[d][id].token_ids)
        /\ asset_by_id' = [asset_by_id EXCEPT ![d][id] = nft_refund(@, tokens)]
        /\ Fire([kind |-> "nft_refund", drop_id |-> d, contract |-> c,
                 token_ids |-> only(tokens, asset_by_id[d][id].token_ids),
                 storage_released |-> NftBytes * Cardinality(tokens)])
        /\ vault' = vault - Cardinality(tokens) * OneYocto
        /\ UNCHANGED <<drop_by_id, key_info_by_token_id, user_balance, funder_metadata,
                       fees_collected>>
    BY DEF WithdrawNftTokens, registry, settings
  <1>2. /\ d \in DOMAIN drop_by_id /\ id = asset_id_of(d) /\ asset_by_id[d][id] = asset
        /\ AssetKept(asset, only_metadata(drop_by_id[d])) /\ Free(asset)
        /\ ids \in Seq(NftTokens) /\ IsInjective(ids)
        /\ Len(ids) \in Nat /\ ids_stake(asset) \in Nat
    BY <1>1, ContractAssetKnown
  <1>3. tokens \subseteq ToSet(ids) /\ OneYocto = 0 /\ Fire(receipt)
    BY <1>1, <1>2 DEF Free
  <1> HIDE DEF id
  <1>4. asset_by_id' = [asset_by_id EXCEPT ![d][asset_id_of(d)] = x]
    BY <1>1, <1>2
  <1>5. receipt.kind = "nft_refund" /\ receipt.token_ids = gone /\ receipt.storage_released = released
    OBVIOUS
  <1>6. x.token_ids = left
    BY <1>2 DEF nft_refund, AssetKept
  <1> HIDE DEF asset, ids, left, gone, x, receipt
  <1>7. AssetSet(d, x)
    BY <1>1, <1>2, <1>4, RecordSet DEF Books
  <1>8. /\ IsFiniteSet(ToSet(ids)) /\ Cardinality(ToSet(ids)) = Len(ids)
        /\ Len(left) = Len(ids) - Cardinality(tokens) /\ Len(left) \in Nat
        /\ Len(gone) = Cardinality(tokens) /\ Cardinality(tokens) \in Nat
    <2>1. IsFiniteSet(ToSet(ids)) /\ Cardinality(ToSet(ids)) = Len(ids)
      BY <1>2, DistinctLength
    <2>2. /\ left \in Seq(NftTokens) /\ IsInjective(left)
          /\ ToSet(left) = ToSet(ids) \cap (ToSet(ids) \ tokens)
      BY <1>2, OnlyThese DEF left
    <2>3. /\ gone \in Seq(NftTokens) /\ IsInjective(gone) /\ ToSet(gone) = ToSet(ids) \cap tokens
      BY <1>2, OnlyThese DEF gone
    <2>4. ToSet(left) = ToSet(ids) \ tokens /\ ToSet(gone) = tokens /\ ToSet(ids) \cap tokens = tokens
      BY <1>3, <2>2, <2>3
    <2>5. /\ Len(left) = Cardinality(ToSet(ids) \ tokens) /\ Len(left) \in Nat
          /\ Len(gone) = Cardinality(tokens) /\ Len(gone) \in Nat
      BY <2>2, <2>3, <2>4, DistinctLength
    <2>6. Cardinality(ToSet(ids) \ tokens) = Cardinality(ToSet(ids)) - Cardinality(tokens)
      <3>1. Cardinality(ToSet(ids) \ tokens) = Cardinality(ToSet(ids)) - Cardinality(ToSet(ids) \cap tokens)
        BY <2>1, FS_Difference, Zenon
      <3> QED
        BY <2>4, <3>1
    <2> QED
      BY <2>1, <2>5, <2>6
  <1>9. released \in Nat /\ ids_stake(x) = ids_stake(asset) - released
    <2>1. NftBytes \in Nat
      BY StorageAssumption
    <2>2. \A n, k \in Nat : NftBytes * k \in Nat /\ NftBytes * (n - k) = NftBytes * n - NftBytes * k
      BY <2>1
    <2>3. /\ ids_stake(x) = NftBytes * (Len(ids) - Cardinality(tokens))
          /\ ids_stake(asset) = NftBytes * Len(ids)
      BY <1>6, <1>8 DEF ids_stake, ids
    <2> QED
      BY <1>2, <1>8, <2>2, <2>3
  <1>10. vault' = vault
    <2>1. \A n \in Nat : n * 0 = 0
      OBVIOUS
    <2> QED
      BY <1>1, <1>3, <1>8, <2>1 DEF Books, HoldingsTyped
  <1>11. PricedPromise(receipt) /\ stake_of(receipt) = released
    BY <1>5, <1>8 DEF PricedPromise, stake_of
  <1>12. PromiseGrows(released)
    BY <1>3, <1>9, <1>11, FiredGrows
  <1> HIDE DEF released
  <1>13. ids_stake(x) <= ids_stake(asset) + (-released) /\ Len(x.token_ids) \in Nat /\ -released \in Int
    BY <1>2, <1>6, <1>8, <1>9
  <1>14. DropGrows(-released)
    BY <1>1, <1>2, <1>7, <1>13, AssetGrows DEF asset
  <1>15. KeyGrows(0) /\ FunderGrows(0)
    BY <1>1, KeysQuiet, FundersQuiet
  <1>16. /\ vault' \in Nat /\ fees_collected' \in Nat
         /\ (-released) + 0 + released + 0 + fees_collected' + vault <= fees_collected + vault'
    BY <1>1, <1>9, <1>10 DEF Books, HoldingsTyped, FeeInv
  <1> QED
    BY <1>9, <1>12, <1>13, <1>14, <1>15, <1>16, GrowthPaid

\* ... which goes to the funder, or back to the drop with them.
LEMMA NftRefundNear ==
    ASSUME Books, Priced, Staked, NEW r, NEW succeeded, ResolveNftRefund(r, succeeded)
    PROVE  NearMoves
  <1> DEFINE receipt == receipts[r]
             d == receipt.drop_id
             id == contract_asset_id(receipt.contract)
             asset == asset_of(d)
             back == ~succeeded /\ asset_by_id[d][id].type = "nft"
             released == receipt.storage_released
             x == IF back THEN add_to_token_ids(asset, receipt.token_ids) ELSE asset
  <1>1. /\ r \in DOMAIN receipts /\ receipt.kind = "nft_refund" /\ Resolve(r)
        /\ vault' = IF succeeded THEN vault ELSE vault + Len(receipt.token_ids) * OneYocto
        /\ IF has_asset(d, id)
           THEN /\ asset_by_id' = [asset_by_id EXCEPT ![d][id] =
                       IF back THEN add_to_token_ids(@, receipt.token_ids) ELSE @]
                /\ internal_modify_user_balance(drop_by_id[d].funder_id,
                       IF back THEN 0 ELSE released)
           ELSE UNCHANGED <<asset_by_id, user_balance>>
        /\ UNCHANGED <<drop_by_id, key_info_by_token_id, funder_metadata, fees_collected>>
    BY DEF ResolveNftRefund, storage_to_refund, registry, settings
  <1>2. /\ receipt.token_ids \in Seq(NftTokens) /\ released \in Nat
        /\ released = NftBytes * Len(receipt.token_ids) /\ Len(receipt.token_ids) \in Nat
    BY <1>1, LenProperties DEF Books, Recorded, ReceiptTyped, Priced, PricedPromise
  <1>3. vault \in Nat /\ vault' \in Nat /\ vault <= vault'
        /\ fees_collected \in Nat /\ fees_collected' = fees_collected
    <2>1. Len(receipt.token_ids) * OneYocto \in Nat
      BY <1>2, Products, AmountsAssumption
    <2> HIDE DEF receipt
    <2> QED
      BY <1>1, <2>1 DEF Books, HoldingsTyped, FeeInv
  <1>4. promise_stake(r) = released
    BY <1>1 DEF promise_stake, stake_of
  <1>5. PromiseGrows(-released) /\ KeyGrows(0)
    BY <1>1, <1>4, ResolvedGrows, KeysQuiet
  <1> HIDE DEF receipt, released
  <1>6. CASE ~has_asset(d, id)
    <2>1. DropGrows(0) /\ FunderGrows(0)
      BY <1>1, <1>6, DropsQuiet, FundersQuiet
    <2>2. PICK v \in Nat : v = vault' /\ vault <= v
      BY <1>3
    <2>3. fees_collected' \in Nat /\ -released \in Int
          /\ 0 + 0 + (-released) + 0 + fees_collected' + vault <= fees_collected + v
      BY <1>2, <1>3, <2>2
    <2>4. 0 + 0 + (-released) + 0 + fees_collected' + vault <= fees_collected + vault'
      BY <2>2, <2>3
    <2>5. vault' \in Nat /\ fees_collected' \in Nat /\ -released \in Int
      BY <1>3, <2>3
    <2> QED
      BY <1>5, <2>1, <2>4, <2>5, GrowthPaid
  <1>7. CASE has_asset(d, id)
    <2>1. /\ d \in DOMAIN drop_by_id /\ id = asset_id_of(d) /\ asset_by_id[d][id] = asset
          /\ AssetKept(asset, only_metadata(drop_by_id[d])) /\ asset.token_ids \in Seq(NftTokens)
          /\ Len(asset.token_ids) \in Nat /\ ids_stake(asset) \in Nat
      BY <1>7, ContractAssetKnown
    <2>2. asset_by_id' = [asset_by_id EXCEPT ![d][asset_id_of(d)] = x]
      BY <1>1, <1>7, <2>1
    <2> DEFINE came == Len(receipt.token_ids)
               grown == IF back THEN released ELSE 0
               paid == IF back THEN 0 ELSE released
    <2>17. /\ grown \in Nat /\ paid \in Nat /\ grown + paid = released
           /\ \/ back /\ grown = NftBytes * came
              \/ ~back /\ grown = 0
      BY <1>2
    <2>8. internal_modify_user_balance(drop_by_id[d].funder_id, paid)
      BY <1>1, <1>7
    <2> HIDE DEF asset, back, id, grown, paid
    <2>3. x.token_ids = IF back THEN asset.token_ids \o receipt.token_ids ELSE asset.token_ids
      BY <2>1 DEF add_to_token_ids, AssetKept
    <2> HIDE DEF x
    <2>4. AssetSet(d, x)
      BY <1>1, <2>1, <2>2, RecordSet DEF Books
    <2>6. ids_stake(x) = ids_stake(asset) + grown /\ Len(x.token_ids) \in Nat
      <3>1. CASE back
        <4>1. Len(x.token_ids) = Len(asset.token_ids) + came
          BY <1>2, <2>1, <2>3, <3>1, ConcatProperties
        <4>2. NftBytes \in Nat
          BY StorageAssumption
        <4>3. \A n, k \in Nat : NftBytes * (n + k) = NftBytes * n + NftBytes * k
          BY <4>2
        <4>4. ids_stake(x) = NftBytes * (Len(asset.token_ids) + came)
          BY <4>1 DEF ids_stake
        <4>5. ids_stake(asset) = NftBytes * Len(asset.token_ids) /\ grown = NftBytes * came
          BY <2>17, <3>1 DEF ids_stake
        <4>6. Len(asset.token_ids) \in Nat /\ came \in Nat
          BY <1>2, <2>1
        <4> HIDE DEF came
        <4> QED
          <5>1. NftBytes * (Len(asset.token_ids) + came)
                   = NftBytes * Len(asset.token_ids) + NftBytes * came
            BY <4>3, <4>6
          <5>2. ids_stake(x) = ids_stake(asset) + grown
            BY <4>4, <4>5, <5>1, Zenon
          <5> QED
            BY <4>1, <4>6, <5>2
      <3>2. CASE ~back
        BY <2>1, <2>3, <2>17, <3>2 DEF ids_stake
      <3> QED
        BY <3>1, <3>2
    <2>7. /\ grown \in Nat /\ paid \in Nat /\ grown + paid = released
          /\ Len(x.token_ids) \in Nat
      BY <2>6, <2>17
    <2>9. ids_stake(x) <= ids_stake(asset) + grown /\ grown \in Int
      BY <2>1, <2>6, <2>7
    <2>10. DropGrows(grown)
      BY <1>1, <2>1, <2>4, <2>7, <2>9, AssetGrows DEF asset
    <2>11. drop_by_id[d].funder_id \in Accounts /\ user_balance[drop_by_id[d].funder_id] \in Nat
      BY <2>1, FunderOfDrop
    <2>12. user_balance[drop_by_id[d].funder_id] + paid >= 0 /\ paid \in Int
      BY <2>7, <2>11
    <2>13. FunderGrows(paid)
      BY <1>1, <2>8, <2>11, <2>12, BalanceGrows
    <2>14. PICK v \in Nat : v = vault' /\ vault <= v
      BY <1>3
    <2>15. fees_collected' \in Nat /\ -released \in Int
           /\ grown + 0 + (-released) + paid + fees_collected' + vault <= fees_collected + v
      BY <1>2, <1>3, <2>7, <2>14
    <2>16. grown + 0 + (-released) + paid + fees_collected' + vault <= fees_collected + vault'
      BY <2>14, <2>15
    <2>18. vault' \in Nat /\ fees_collected' \in Nat /\ -released \in Int
      BY <1>3, <2>15
    <2> QED
      BY <1>5, <2>9, <2>10, <2>12, <2>13, <2>16, <2>18, GrowthPaid
  <1> QED
    BY <1>6, <1>7

-----------------------------------------------------------------------------
(* What funders pay.                                                       *)

\* What there is in a purse falls by what is charged.
worth(purse) == purse.deposit + purse.balance

\* It does, from the deposit or from the balance.
LEMMA ChargedWorth ==
    ASSUME NEW deposit \in Nat, NEW purse, IsPurse(purse, deposit), NEW required \in Nat
    PROVE  worth(charge_with_deposit_or_balance(purse, required)) = worth(purse) - required
  <1>1. purse = [deposit |-> purse.deposit, balance |-> purse.balance]
        /\ purse.deposit \in 0 .. deposit /\ purse.balance \in Int
    BY DEF IsPurse
  <1>2. CASE purse.deposit >= required
    <2>1. charge_with_deposit_or_balance(purse, required) =
              [deposit |-> purse.deposit - required, balance |-> purse.balance]
      BY <1>1, <1>2 DEF charge_with_deposit_or_balance
    <2> QED
      BY <1>1, <2>1 DEF worth
  <1>3. CASE ~(purse.deposit >= required)
    <2>1. charge_with_deposit_or_balance(purse, required) =
              [deposit |-> 0, balance |-> purse.balance - (required - purse.deposit)]
      BY <1>3 DEF charge_with_deposit_or_balance
    <2> QED
      BY <1>1, <2>1 DEF worth
  <1> QED
    BY <1>2, <1>3

\* ... by the costs, the storage and the fees of keys and drops.
LEMMA CostsWorth ==
    ASSUME FeeInv, NEW caller, NEW deposit \in Nat, NEW purse, IsPurse(purse, deposit),
           NEW num_keys \in Nat, NEW num_drops \in Nat, NEW cost \in Nat, NEW storage \in Nat
    PROVE  /\ num_keys * cost \in Nat /\ total_fees(caller, num_keys, num_drops) \in Nat
           /\ worth(determine_costs(caller, purse, num_keys, num_drops, cost, storage)) =
                 worth(purse) - (num_keys * cost + storage + total_fees(caller, num_keys, num_drops))
  <1> DEFINE fees == total_fees(caller, num_keys, num_drops)
             costs == num_keys * cost
  <1>1. fees \in Nat
    BY FeesAreAmounts
  <1>2. costs \in Nat
    BY Products
  <1> HIDE DEF fees, costs
  <1>3. costs + storage + fees \in Nat
    BY <1>1, <1>2
  <1>4. worth(charge_with_deposit_or_balance(purse, costs + storage + fees)) =
            worth(purse) - (costs + storage + fees)
    BY <1>3, ChargedWorth
  <1> QED
    BY <1>1, <1>2, <1>4 DEF determine_costs, fees, costs

\* What was charged stays with the contract.
LEMMA FunderPays ==
    ASSUME Books, NEW caller \in Accounts, NEW deposit \in Nat, NEW purse,
           IsPurse(purse, deposit), NEW keep, refund_excess(caller, purse, deposit, keep),
           \A b \in Accounts : b # caller => funder_metadata'[b] = funder_metadata[b],
           NEW old \in Nat, old = MetadataBytes * unwrap_or(funder_metadata[caller], 0),
           NEW new \in Nat, new = MetadataBytes * unwrap_or(funder_metadata'[caller], 0),
           NEW required \in Int,
           worth(purse) + required + new <= deposit + user_balance[caller] + old
    PROVE  /\ OnlyFunder(caller) /\ vault' \in Nat
           /\ funder_stake(caller)' \in Nat /\ funder_stake(caller) \in Nat
           /\ funder_stake(caller)' + required + vault <= funder_stake(caller) + vault'
  <1>1. purse.deposit \in 0 .. deposit /\ purse.balance \in Int /\ purse.balance >= 0
    BY DEF IsPurse, refund_excess, is_covered
  <1> DEFINE kept == IF keep THEN purse.deposit ELSE 0
             returned == IF keep THEN 0 ELSE purse.deposit
  <1>2. kept \in 0 .. deposit /\ returned \in 0 .. deposit /\ kept + returned = purse.deposit
    BY <1>1
  <1>3. user_balance' = [user_balance EXCEPT ![caller] = purse.balance + kept]
        /\ vault' = vault + deposit - returned
    BY DEF refund_excess
  <1> HIDE DEF kept, returned
  <1>4. /\ user_balance \in [Accounts -> Nat] /\ user_balance[caller] \in Nat /\ vault \in Nat
    BY DEF Books, HoldingsTyped
  <1>5. user_balance'[caller] = purse.balance + kept /\ OnlyFunder(caller)
    BY <1>3, <1>4 DEF OnlyFunder
  <1>6. /\ funder_stake(caller) = user_balance[caller] + old
        /\ funder_stake(caller)' = purse.balance + kept + new
    BY <1>5 DEF funder_stake
  <1>7. worth(purse) = purse.balance + kept + returned
    BY <1>1, <1>2 DEF worth
  <1> DEFINE ub == user_balance[caller]
  <1> HIDE DEF ub
  <1>8. purse.balance + kept + returned + required + new <= deposit + ub + old
    BY <1>7 DEF ub
  <1>9. /\ vault + deposit - returned \in Nat
        /\ purse.balance + kept + new \in Nat /\ ub + old \in Nat
        /\ purse.balance + kept + new + required + vault <= ub + old + (vault + deposit - returned)
    BY <1>1, <1>2, <1>4, <1>8 DEF ub
  <1> QED
    BY <1>3, <1>5, <1>6, <1>9 DEF ub

\* Metadata is paid for by the byte.
LEMMA MetadataCharged ==
    ASSUME SettingsTyped, NEW caller \in Accounts, NEW metadata \in MetadataChoices,
           internal_modify_user_metadata(caller, metadata)
    PROVE  LET old == MetadataBytes * unwrap_or(funder_metadata[caller], 0)
               added == MetadataBytes * unwrap_or(metadata, 0)
           IN  /\ old \in Nat /\ added \in Nat
               /\ MetadataBytes * unwrap_or(funder_metadata'[caller], 0) = old + added
               /\ \A b \in Accounts : b # caller => funder_metadata'[b] = funder_metadata[b]
  <1> DEFINE had == funder_metadata[caller]
             has == metadata_appended(had, metadata)
  <1>1. /\ funder_metadata' = [funder_metadata EXCEPT ![caller] = metadata_appended(@, metadata)]
        /\ can_append_metadata(had, metadata)
    BY DEF internal_modify_user_metadata
  <1>2. /\ funder_metadata \in [Accounts -> AmountOptions] /\ had \in AmountOptions
        /\ metadata \in AmountOptions
    BY ChosenOptions DEF SettingsTyped
  <1>3. /\ funder_metadata'[caller] = has
        /\ \A b \in Accounts : b # caller => funder_metadata'[b] = funder_metadata[b]
    BY <1>1, <1>2
  <1>4. unwrap_or(had, 0) \in Nat /\ unwrap_or(metadata, 0) \in Nat
    BY <1>2, OptionAmounts
  <1>5. unwrap_or(has, 0) = unwrap_or(had, 0) + unwrap_or(metadata, 0)
    <2>1. CASE had = None
      BY <1>4, <2>1 DEF metadata_appended, unwrap_or
    <2>2. CASE had # None
      <3>1. metadata # None /\ has = Some(unwrap(had) + unwrap(metadata))
        BY <1>1, <2>2 DEF can_append_metadata, metadata_appended
      <3>2. unwrap(had) \in Nat /\ unwrap(metadata) \in Nat
        BY <1>2, <2>2, <3>1, OptionAmounts
      <3>3. \A n : Some(n) # None /\ unwrap(Some(n)) = n
        BY DEF Some, None, unwrap
      <3> QED
        BY <2>2, <3>1, <3>3 DEF unwrap_or
    <2> QED
      BY <2>1, <2>2
  <1> HIDE DEF had, has
  <1>6. \A a, b, c \in Nat : a * b \in Nat /\ a * c \in Nat /\ a * (b + c) = a * b + a * c
    OBVIOUS
  <1>7. MetadataBytes \in Nat
    BY StorageAssumption
  <1>8. /\ MetadataBytes * unwrap_or(had, 0) \in Nat /\ MetadataBytes * unwrap_or(metadata, 0) \in Nat
        /\ MetadataBytes * (unwrap_or(had, 0) + unwrap_or(metadata, 0)) =
              MetadataBytes * unwrap_or(had, 0) + MetadataBytes * unwrap_or(metadata, 0)
    BY <1>4, <1>6, <1>7
  <1> QED
    BY <1>3, <1>5, <1>8 DEF had

\* set_funder_metadata is such a call.
LEMMA SetMetadataNear ==
    ASSUME Books, NEW caller \in Accounts, NEW metadata \in MetadataChoices, NEW deposit \in Nat,
           SetFunderMetadata(caller, metadata, deposit)
    PROVE  NearMoves
  <1> DEFINE before == purse_of(caller, deposit)
             purse == charge_for_metadata(before, metadata)
             old == MetadataBytes * unwrap_or(funder_metadata[caller], 0)
             added == MetadataBytes * unwrap_or(metadata, 0)
  <1>1. /\ internal_modify_user_metadata(caller, metadata)
        /\ refund_excess(caller, purse, deposit, FALSE)
        /\ UNCHANGED <<drop_by_id, asset_by_id, key_info_by_token_id, receipts, fees_collected>>
    BY DEF SetFunderMetadata, registry
  <1>2. /\ old \in Nat /\ added \in Nat
        /\ MetadataBytes * unwrap_or(funder_metadata'[caller], 0) = old + added
        /\ \A b \in Accounts : b # caller => funder_metadata'[b] = funder_metadata[b]
    BY <1>1, MetadataCharged DEF Books
  <1>3. IsPurse(before, deposit) /\ worth(before) = deposit + user_balance[caller]
    BY FunderPurse DEF Books, purse_of, worth
  <1> HIDE DEF added, before
  <1>4. IsPurse(purse, deposit) /\ worth(purse) = worth(before) - added
    BY <1>2, <1>3, Charged, ChargedWorth DEF charge_for_metadata, added
  <1> HIDE DEF purse
  <1>5. user_balance[caller] \in Nat /\ vault \in Nat /\ fees_collected \in Nat
    BY DEF Books, HoldingsTyped, FeeInv
  <1>6. PICK new \in Nat : new = old + added
    BY <1>2
  <1> HIDE DEF old
  <1>7. /\ new = MetadataBytes * unwrap_or(funder_metadata'[caller], 0)
        /\ 0 \in Int /\ worth(purse) + 0 + new <= deposit + user_balance[caller] + old
    BY <1>2, <1>3, <1>4, <1>5, <1>6
  <1>8. /\ OnlyFunder(caller) /\ vault' \in Nat
        /\ funder_stake(caller)' \in Nat /\ funder_stake(caller) \in Nat
        /\ funder_stake(caller)' + 0 + vault <= funder_stake(caller) + vault'
    BY <1>1, <1>2, <1>3, <1>4, <1>7, FunderPays DEF old
  <1>9. PICK v \in Nat, s \in Nat : v = vault' /\ s = funder_stake(caller)'
    BY <1>8
  <1>10. /\ v - vault \in Int /\ s <= funder_stake(caller) + (v - vault)
         /\ 0 + 0 + 0 + (v - vault) + fees_collected + vault <= fees_collected + v
    <2>1. s + 0 + vault <= funder_stake(caller) + v /\ funder_stake(caller) \in Nat
      BY <1>8, <1>9
    <2> QED
      BY <1>5, <2>1
  <1>11. FunderGrows(v - vault)
    BY <1>8, <1>9, <1>10 DEF FunderGrows
  <1>12. DropGrows(0) /\ PromiseGrows(0) /\ KeyGrows(0)
    BY <1>1, DropsQuiet, PromisesQuiet, KeysQuiet
  <1>13. /\ vault' \in Nat /\ fees_collected' \in Nat
         /\ 0 + 0 + 0 + (v - vault) + fees_collected' + vault <= fees_collected + vault'
    BY <1>1, <1>5, <1>9, <1>10
  <1> QED
    BY <1>10, <1>11, <1>12, <1>13, GrowthPaid

-----------------------------------------------------------------------------
(* Calls that bring several keys or drops, or remove several keys.         *)

\* The drops' stakes grow by i, the keys' by k, and their caller pays.
LEMMA TotalPaid ==
    ASSUME Books, Books', Staked, Staked', KindsStay, UNCHANGED receipts,
           NEW a, OnlyFunder(a),
           NEW i \in Int, SumFunction(DropStakes') <= SumFunction(DropStakes) + i,
           NEW k \in Int, SumFunction(KeyStakes') <= SumFunction(KeyStakes) + k,
           funder_stake(a)' + fees_collected' + i + k + vault
              <= funder_stake(a) + fees_collected + vault'
    PROVE  Paid
  <1>1. Inv /\ Inv' /\ Held /\ Held'
    BY DEF Books, Kept
  <1>2. PICK r : r \notin DOMAIN receipts
    BY NoSetContainsEverything
  <1>3. OnlyAt(PromiseStakes, PromiseStakes', r)
    <2>1. OnlyPromise(r)
      BY DEF OnlyPromise
    <2> QED
      BY <1>1, <2>1, StakesOfPromises
  <1>4. OnlyAt(FunderStakes, FunderStakes', a)
    BY StakesOfFunders
  <1> DEFINE fs == SumFunction(FunderStakes)  fs2 == SumFunction(FunderStakes)'
             ds == SumFunction(DropStakes)    ds2 == SumFunction(DropStakes)'
             ks == SumFunction(KeyStakes)     ks2 == SumFunction(KeyStakes)'
             ps == SumFunction(PromiseStakes) ps2 == SumFunction(PromiseStakes)'
  <1>5. /\ fs \in Nat /\ ds \in Nat /\ ks \in Nat /\ ps \in Nat
        /\ amount_at(FunderStakes, a) = funder_stake(a) /\ amount_at(PromiseStakes, r) = 0
    BY <1>2, StakesAreSums DEF StakesSummed, promise_stake
  <1>6. /\ fs2 \in Nat /\ ds2 \in Nat /\ ks2 \in Nat /\ ps2 \in Nat
        /\ amount_at(FunderStakes', a) = funder_stake(a)' /\ amount_at(PromiseStakes', r) = 0
    <2>1. StakesSummed'
      BY StakesAreSums, PTL
    <2> QED
      BY <1>2, <2>1 DEF StakesSummed, amount_at, promise_stake
  <1>7. Amounts(FunderStakes) /\ Amounts(PromiseStakes)
    BY DEF Staked
  <1>8. Amounts(FunderStakes') /\ Amounts(PromiseStakes')
    BY DEF Staked, Amounts
  <1>9. fs2 + funder_stake(a) = fs + funder_stake(a)' /\ ps2 + 0 = ps + 0
    BY <1>3, <1>4, <1>5, <1>6, <1>7, <1>8, SumOnlyAt
  <1>10. /\ funder_stake(a) \in Nat /\ vault \in Nat /\ fees_collected \in Nat
         /\ funder_stake(a)' \in Nat /\ vault' \in Nat /\ fees_collected' \in Nat
    BY DEF Staked, Books, HoldingsTyped, FeeInv
  <1>11. /\ Stakes = fs + fees_collected + ds + ks + ps
         /\ Stakes' = fs2 + fees_collected' + ds2 + ks2 + ps2
    BY DEF Stakes
  <1>12. ds2 <= ds + i /\ ks2 <= ks + k
    OBVIOUS
  <1>13. PICK f \in Nat, f2 \in Nat, e2 \in Nat, v2 \in Nat :
            f = funder_stake(a) /\ f2 = funder_stake(a)' /\ e2 = fees_collected' /\ v2 = vault'
    BY <1>10
  <1> HIDE DEF fs, fs2, ds, ds2, ks, ks2, ps, ps2
  <1>14. PICK fs3 \in Nat, ds3 \in Nat, ks3 \in Nat, ps3 \in Nat :
            fs3 = fs2 /\ ds3 = ds2 /\ ks3 = ks2 /\ ps3 = ps2
    BY <1>6
  <1>15. /\ fs3 + f = fs + f2 /\ ps3 = ps /\ ds3 <= ds + i /\ ks3 <= ks + k
         /\ f2 + e2 + i + k + vault <= f + fees_collected + v2
    BY <1>5, <1>9, <1>12, <1>13, <1>14
  <1>16. fs3 + e2 + ds3 + ks3 + ps3 + vault <= fs + fees_collected + ds + ks + ps + v2
    BY <1>5, <1>10, <1>15
  <1> QED
    BY <1>11, <1>13, <1>14, <1>16 DEF Paid

\* New drops have no tokens yet.
LEMMA DropStakesAdded ==
    ASSUME Inv, Inv', Staked, Staked', DropsCome
    PROVE  SumFunction(DropStakes') =
              SumFunction(DropStakes) + Cardinality(DOMAIN drop_by_id' \ DOMAIN drop_by_id) * DropBytes
  <1>1. DOMAIN asset_by_id = DOMAIN drop_by_id /\ DOMAIN asset_by_id' = DOMAIN drop_by_id'
    BY DEF Inv
  <1>2. Amounts(DropStakes) /\ Amounts(DropStakes')
    BY DEF Staked, Amounts
  <1>3. DOMAIN DropStakes = DOMAIN drop_by_id /\ DOMAIN DropStakes' = DOMAIN drop_by_id'
        /\ DOMAIN drop_by_id \subseteq DOMAIN drop_by_id'
    BY <1>1 DEF DropStakes, DropsCome
  <1>4. ASSUME NEW d \in DOMAIN drop_by_id
        PROVE  DropStakes[d] = DropStakes'[d]
    <2>1. d \in DOMAIN drop_by_id' /\ asset_of(d)' = asset_of(d)
      BY <1>3 DEF DropsCome, asset_of, asset_id_of, only_metadata, only_use
    <2>2. drop_stake(d)' = drop_stake(d)
      BY <1>1, <2>1 DEF drop_stake, ids_stake
    <2> QED
      BY <1>1, <2>1, <2>2 DEF DropStakes
  <1>5. ASSUME NEW d \in DOMAIN drop_by_id' \ DOMAIN drop_by_id
        PROVE  DropStakes'[d] = DropBytes
    <2>1. StockedWith(drop_by_id'[d], asset_by_id'[d]) /\ Unstocked(asset_by_id'[d])
      BY DEF DropsCome
    <2>2. asset_of(d)'.token_ids = << >>
      BY <2>1 DEF StockedWith, Unstocked, asset_of, asset_id_of
    <2>3. ids_stake(asset_of(d))' = 0
      BY <2>2, StorageAssumption DEF ids_stake
    <2> QED
      BY <1>1, <2>3, StorageAssumption DEF DropStakes, drop_stake
  <1> QED
    BY <1>2, <1>3, <1>4, <1>5, StorageAssumption, SumGrown

\* New keys owe a use each.
LEMMA KeyStakesAdded ==
    ASSUME Inv, Inv', Staked, Staked', KindsStay,
           DOMAIN key_info_by_token_id \subseteq DOMAIN key_info_by_token_id',
           \A t \in DOMAIN key_info_by_token_id : key_info_by_token_id'[t] = key_info_by_token_id[t],
           NEW c \in Nat,
           \A t \in DOMAIN key_info_by_token_id' \ DOMAIN key_info_by_token_id : key_stake(t)' = c
    PROVE  SumFunction(KeyStakes') = SumFunction(KeyStakes)
              + Cardinality(DOMAIN key_info_by_token_id' \ DOMAIN key_info_by_token_id) * c
  <1>1. Amounts(KeyStakes) /\ Amounts(KeyStakes')
    <2>1. Amounts(KeyStakes) /\ Amounts(KeyStakes)'
      BY DEF Staked
    <2> QED
      BY <2>1 DEF Amounts
  <1>2. /\ DOMAIN KeyStakes = DOMAIN key_info_by_token_id
        /\ DOMAIN KeyStakes' = DOMAIN key_info_by_token_id'
    BY DEF KeyStakes
  <1>3. ASSUME NEW t \in DOMAIN key_info_by_token_id
        PROVE  KeyStakes[t] = KeyStakes'[t]
    <2>1. t \in DOMAIN key_info_by_token_id' /\ key_info_by_token_id'[t] = key_info_by_token_id[t]
      OBVIOUS
    <2>2. parse_token_id(t) \in DOMAIN drop_by_id /\ parse_token_id(t) \in DOMAIN drop_by_id'
      BY <2>1 DEF Inv, Current, Registry, Housed
    <2>3. use_cost(parse_token_id(t))' = use_cost(parse_token_id(t))
      BY <2>2, CostStays
    <2>4. key_stake(t)' = key_stake(t)
      BY <2>1, <2>3 DEF key_stake, stake_of_key, parse_token_id
    <2> QED
      BY <2>1, <2>4 DEF KeyStakes
  <1>4. ASSUME NEW t \in DOMAIN key_info_by_token_id' \ DOMAIN key_info_by_token_id
        PROVE  KeyStakes'[t] = c
    BY DEF KeyStakes
  <1> QED
    BY <1>1, <1>2, <1>3, <1>4, SumGrown

\* What the only use of a drop's keys costs.
CostsKnown ==
    \A d \in DOMAIN drop_by_id :
        LET drop == drop_by_id[d]
            cost(left) == get_total_costs_for_key(left, asset_by_id[d], drop.asset_data_for_uses)
        IN  /\ drop.max_key_uses = 1 /\ use_cost(d) \in Nat
            /\ cost(1) = use_cost(d) /\ cost(0) = 0
            /\ nft_bytes(asset_by_id[d]) = ids_stake(asset_of(d))

\* These are the costs of every drop, as it has one asset.
LEMMA BooksKnowCosts == Books => CostsKnown
  <1> SUFFICES ASSUME Books, NEW d \in DOMAIN drop_by_id
               PROVE  LET drop == drop_by_id[d]
                          cost(left) == get_total_costs_for_key(left, asset_by_id[d],
                                                                drop.asset_data_for_uses)
                      IN  /\ drop.max_key_uses = 1 /\ use_cost(d) \in Nat
                          /\ cost(1) = use_cost(d) /\ cost(0) = 0
                          /\ nft_bytes(asset_by_id[d]) = ids_stake(asset_of(d))
    BY DEF CostsKnown
  <1>1. StockedWith(drop_by_id[d], asset_by_id[d])
    BY DEF Books, Kept, Stocked
  <1>2. asset_of(d) = asset_by_id[d][only_metadata(drop_by_id[d]).asset_id]
    BY DEF asset_of, asset_id_of
  <1>3. AssetTyped(asset_by_id[d][only_metadata(drop_by_id[d]).asset_id])
    BY <1>1, DropRecords DEF Books, RecordsTyped, StockedWith
  <1> QED
    BY <1>1, <1>2, <1>3, CostOfStocked DEF use_cost, StockedWith

\* The keys that a call adds, with one use each.
LEMMA NewKeysStaked ==
    ASSUME Books, Books', Staked, Staked', KindsStay, NEW d, NEW first \in Nat,
           \A t \in DOMAIN key_info_by_token_id : parse_token_id(t) = d => t[2] < first,
           NEW key_data \in KeyData, internal_add_keys_to_account(d, first, 1, key_data),
           NEW cost \in Nat, d \in DOMAIN drop_by_id' => cost = use_cost(d)'
    PROVE  SumFunction(KeyStakes')
              <= SumFunction(KeyStakes) + (Len(key_data) * (KeyBytes + PkBytes) + Len(key_data) * cost)
  <1> DEFINE n == Len(key_data)
             ids == first .. first + n - 1
             new == {<<d, k>> : k \in ids}
             data == [t \in new |-> key_data[t[2] - first + 1]]
             added == DOMAIN key_info_by_token_id' \ DOMAIN key_info_by_token_id
             stake == KeyBytes + (PkBytes + cost)
  <1>1. key_info_by_token_id' =
            [t \in DOMAIN key_info_by_token_id \cup new |->
                IF t \in new THEN NewKeyInfo(data[t], 1) ELSE key_info_by_token_id[t]]
    BY DEF internal_add_keys_to_account
  <1>2. n \in Nat
    BY LengthOfKeyData
  <1>3. new \cap DOMAIN key_info_by_token_id = {}
    <2> SUFFICES ASSUME NEW k \in ids, <<d, k>> \in DOMAIN key_info_by_token_id PROVE FALSE
      OBVIOUS
    <2>1. k < first
      BY DEF parse_token_id
    <2> QED
      BY <1>2, <2>1
  <1> HIDE DEF data
  <1>4. /\ DOMAIN key_info_by_token_id' = DOMAIN key_info_by_token_id \cup new
        /\ \A t \in DOMAIN key_info_by_token_id : key_info_by_token_id'[t] = key_info_by_token_id[t]
        /\ \A t \in new : key_info_by_token_id'[t].remaining_uses = 1
        /\ added = new
    BY <1>1, <1>3 DEF NewKeyInfo
  <1>5. \A t \in new : parse_token_id(t) = d
    BY DEF parse_token_id
  <1>6. IsFiniteSet(new) /\ Cardinality(new) <= n /\ Cardinality(new) \in Nat
    <2>1. IsFiniteSet(ids) /\ Cardinality(ids) <= n /\ Cardinality(ids) \in Nat
      <3> DEFINE last == first + n - 1
      <3>1. first \in Int /\ last \in Int /\ ids = first .. last
        BY <1>2
      <3> HIDE DEF last, ids
      <3>2. IsFiniteSet(ids) /\ Cardinality(ids) = IF first > last THEN 0 ELSE last - first + 1
        BY <3>1, FS_Interval
      <3>3. (IF first > last THEN 0 ELSE last - first + 1) = n
        BY <1>2 DEF last
      <3> QED
        BY <1>2, <3>2, <3>3
    <2> HIDE DEF ids
    <2>2. [k \in ids |-> <<d, k>>] \in Surjection(ids, new)
      BY DEF Surjection
    <2>3. IsFiniteSet(new) /\ Cardinality(new) <= Cardinality(ids)
      BY <2>1, <2>2, FS_Surjection
    <2>4. Cardinality(new) \in Nat
      BY <2>3, FS_CardinalityType
    <2> QED
      BY <1>2, <2>1, <2>3, <2>4
  <1> HIDE DEF new, ids
  <1>7. ASSUME NEW t \in new
        PROVE  key_stake(t)' = stake
    <2>1. t \in DOMAIN key_info_by_token_id' /\ key_info_by_token_id'[t].remaining_uses = 1
      BY <1>4
    <2>2. parse_token_id(t) = d /\ d \in DOMAIN drop_by_id'
      BY <1>5, <2>1 DEF Books, Kept, Inv, Current, Registry, Housed
    <2>3. key_stake(t)' = KeyBytes + (PkBytes + use_cost(d)')
      BY <2>1, <2>2 DEF key_stake, stake_of_key, parse_token_id
    <2> QED
      BY <2>2, <2>3
  <1>8. /\ KeyBytes \in Nat /\ PkBytes \in Nat /\ stake \in Nat
    BY StorageAssumption
  <1>9. SumFunction(KeyStakes') = SumFunction(KeyStakes) + Cardinality(new) * stake
    <2>1. Inv /\ Inv'
      BY DEF Books, Kept
    <2> HIDE DEF stake
    <2>2. \A t \in DOMAIN key_info_by_token_id' \ DOMAIN key_info_by_token_id : key_stake(t)' = stake
      BY <1>4, <1>7
    <2> QED
      BY <1>4, <1>8, <2>1, <2>2, KeyStakesAdded
  <1>10. SumFunction(KeyStakes) \in Nat
    BY StakesAreSums DEF StakesSummed
  <1>11. /\ Cardinality(new) * stake <= n * (KeyBytes + PkBytes) + n * cost
         /\ Cardinality(new) * stake \in Nat /\ n * (KeyBytes + PkBytes) + n * cost \in Nat
    <2>1. \A a, b, c, e \in Nat : a <= b => a * (c + e) <= b * c + b * e
      <3>1. \A a, b, c \in Nat : a <= b => a * c <= b * c
        <4> SUFFICES ASSUME NEW a \in Nat, NEW b \in Nat, NEW c \in Nat, a <= b
                     PROVE  a * c <= b * c
          OBVIOUS
        <4>1. PICK m \in Nat : b = a + m
          <5>1. b - a \in Nat /\ b = a + (b - a)
            OBVIOUS
          <5> QED
            BY <5>1
        <4>2. b * c = a * c + m * c /\ m * c \in Nat /\ a * c \in Nat
          BY <4>1
        <4> QED
          BY <4>2
      <3>2. \A b, c, e \in Nat : c + e \in Nat /\ b * (c + e) = b * c + b * e
        OBVIOUS
      <3> QED
        BY <3>1, <3>2
    <2>2. KeyBytes + PkBytes \in Nat /\ stake = KeyBytes + PkBytes + cost
      BY <1>8
    <2> HIDE DEF stake, n
    <2>3. Cardinality(new) * (KeyBytes + PkBytes + cost) <= n * (KeyBytes + PkBytes) + n * cost
      BY <1>2, <1>6, <2>1, <2>2
    <2>4. /\ Cardinality(new) * stake \in Nat
          /\ n * (KeyBytes + PkBytes) \in Nat /\ n * cost \in Nat
      BY <1>2, <1>6, <1>8, <2>2, Products
    <2> QED
      BY <2>2, <2>3, <2>4
  <1> DEFINE paid == n * (KeyBytes + PkBytes) + n * cost
             grown == Cardinality(new) * stake
  <1>12. /\ grown <= paid /\ grown \in Nat /\ paid \in Nat
         /\ SumFunction(KeyStakes') = SumFunction(KeyStakes) + grown
    BY <1>9, <1>11
  <1> HIDE DEF paid, grown
  <1>13. SumFunction(KeyStakes') <= SumFunction(KeyStakes) + paid
    BY <1>10, <1>12
  <1> QED
    BY <1>13 DEF paid

\* Costs, storage and fees are paid for by the caller.
LEMMA CostsPaid ==
    ASSUME Books, NEW caller \in Accounts, NEW deposit \in Nat, NEW num_keys \in Nat,
           NEW num_drops \in Nat, NEW cost \in Nat, NEW storage \in Nat, NEW keep,
           refund_excess(caller, determine_costs(caller, purse_of(caller, deposit), num_keys,
                                                 num_drops, cost, storage), deposit, keep),
           fees_collected' = fees_collected + total_fees(caller, num_keys, num_drops),
           UNCHANGED funder_metadata
    PROVE  /\ OnlyFunder(caller) /\ num_keys * cost \in Nat
           /\ funder_stake(caller)' + fees_collected' + (num_keys * cost + storage) + vault
                 <= funder_stake(caller) + fees_collected + vault'
  <1> DEFINE before == purse_of(caller, deposit)
             purse == determine_costs(caller, before, num_keys, num_drops, cost, storage)
             fees == total_fees(caller, num_keys, num_drops)
             costs == num_keys * cost
             old == MetadataBytes * unwrap_or(funder_metadata[caller], 0)
  <1>1. /\ IsPurse(before, deposit) /\ worth(before) = deposit + user_balance[caller]
        /\ HoldingsTyped /\ FeeInv
    BY FunderPurse DEF Books, purse_of, worth
  <1> HIDE DEF before
  <1>2. /\ IsPurse(purse, deposit) /\ costs \in Nat /\ fees \in Nat
        /\ worth(purse) = worth(before) - (costs + storage + fees)
    BY <1>1, CostsCharged, CostsWorth
  <1>3. refund_excess(caller, purse, deposit, keep)
    BY DEF before
  <1>4. fees_collected' = fees_collected + fees
    OBVIOUS
  <1>5. old \in Nat /\ old = MetadataBytes * unwrap_or(funder_metadata'[caller], 0)
    <2>1. unwrap_or(funder_metadata[caller], 0) \in Nat
      BY OptionAmounts DEF Books, SettingsTyped
    <2> QED
      BY <2>1, Products, StorageAssumption
  <1> HIDE DEF purse, fees, costs
  <1>6. user_balance[caller] \in Nat /\ vault \in Nat /\ fees_collected \in Nat
    BY DEF Books, HoldingsTyped, FeeInv
  <1>7. \A b \in Accounts : b # caller => funder_metadata'[b] = funder_metadata[b]
    OBVIOUS
  <1> DEFINE required == costs + storage + fees
  <1>8. required \in Int /\ worth(purse) + required + old <= deposit + user_balance[caller] + old
    <2> HIDE DEF old
    <2> QED
      BY <1>1, <1>2, <1>5, <1>6
  <1> HIDE DEF required
  <1>9. old = MetadataBytes * unwrap_or(funder_metadata[caller], 0)
    OBVIOUS
  <1> HIDE DEF old
  <1>10. /\ OnlyFunder(caller) /\ vault' \in Nat
         /\ funder_stake(caller)' \in Nat /\ funder_stake(caller) \in Nat
         /\ funder_stake(caller)' + required + vault <= funder_stake(caller) + vault'
    BY <1>2, <1>3, <1>5, <1>7, <1>8, <1>9, FunderPays
  <1>11. PICK s \in Nat, v \in Nat : s = funder_stake(caller)' /\ v = vault'
    BY <1>10
  <1>12. s + required + vault <= funder_stake(caller) + v /\ funder_stake(caller) \in Nat
    BY <1>10, <1>11
  <1>13. s + (fees_collected + fees) + (costs + storage) + vault
            <= funder_stake(caller) + fees_collected + v
    BY <1>2, <1>6, <1>12 DEF required
  <1>14. funder_stake(caller)' + fees_collected' + (costs + storage) + vault
            <= funder_stake(caller) + fees_collected + vault'
    BY <1>4, <1>11, <1>13
  <1> QED
    BY <1>2, <1>10, <1>14 DEF costs

\* create_drop charges for a drop and its keys.
LEMMA CreateDropPaid ==
    ASSUME OneAsset, Books, Books', Staked, Staked', KindsStay,
           NEW caller \in Accounts, NEW d \in DropIds, NEW shape \in Shapes,
           NEW key_data \in KeyData, NEW deposit \in Nat, NEW keep,
           CreateDrop(caller, d, shape, key_data, deposit, keep)
    PROVE  Paid
  <1> DEFINE n == Len(key_data)
             uses == max_key_uses(shape.asset_data)
             assets == store_assets_by_id(shape.asset_data)
             data == asset_data_for_uses(shape)
             cost == get_total_costs_for_key(uses, assets, data)
             storage == DropBytes + n * (KeyBytes + PkBytes)
             drop == NewDropOf(caller, shape, n)
  <1>1. /\ d \notin DOMAIN drop_by_id
        /\ internal_add_keys_to_account(d, 0, uses, key_data)
        /\ drop_by_id' = With(drop_by_id, d, drop)
        /\ asset_by_id' = With(asset_by_id, d, assets)
        /\ fees_collected' = fees_collected + total_fees(caller, n, 1)
        /\ refund_excess(caller, determine_costs(caller, purse_of(caller, deposit), n, 1, cost, storage),
                         deposit, keep)
        /\ UNCHANGED <<funder_metadata, receipts>>
    BY DEF CreateDrop, settings
  <1>2. Inv /\ Inv'
    BY DEF Books, Kept
  <1>3. DropsCome
    BY <1>2, CreationAddsDrops DEF Creates, SomeDropCreated
  <1>4. /\ drop.max_key_uses = uses /\ drop.asset_data_for_uses = data
    BY DEF NewDropOf
  <1> HIDE DEF drop, assets
  <1>5. /\ DOMAIN drop_by_id' \ DOMAIN drop_by_id = {d}
        /\ drop_by_id'[d] = drop /\ asset_by_id'[d] = assets
    BY <1>1 DEF With
  <1>6. /\ uses = 1 /\ cost = use_cost(d)' /\ cost \in Nat
    <2>1. CostsKnown'
      BY BooksKnowCosts, PTL
    <2>2. d \in DOMAIN drop_by_id'
      BY <1>5
    <2>3. uses = 1 /\ use_cost(d)' \in Nat /\ get_total_costs_for_key(1, assets, data) = use_cost(d)'
      BY <1>4, <1>5, <2>1, <2>2 DEF CostsKnown
    <2> QED
      BY <2>3
  <1>7. n \in Nat /\ storage \in Nat /\ n * (KeyBytes + PkBytes) \in Nat /\ DropBytes \in Nat
    BY LengthOfKeyData, KeysStored
  <1>8. SumFunction(DropStakes') <= SumFunction(DropStakes) + DropBytes
    <2>1. Cardinality({d}) = 1
      BY FS_Singleton
    <2>2. SumFunction(DropStakes') = SumFunction(DropStakes) + 1 * DropBytes
      BY <1>2, <1>3, <1>5, <2>1, DropStakesAdded
    <2>3. SumFunction(DropStakes) \in Nat
      BY StakesAreSums DEF StakesSummed
    <2> QED
      BY <1>7, <2>2, <2>3
  <1> HIDE DEF n, uses, cost, storage
  <1>9. SumFunction(KeyStakes') <= SumFunction(KeyStakes) + (n * (KeyBytes + PkBytes) + n * cost)
    <2>1. \A t \in DOMAIN key_info_by_token_id : parse_token_id(t) = d => t[2] < 0
      BY <1>1, <1>2 DEF Inv, Current, Registry, Housed
    <2>2. internal_add_keys_to_account(d, 0, 1, key_data)
      BY <1>1, <1>6
    <2> QED
      BY <1>6, <2>1, <2>2, NewKeysStaked DEF n
  <1>10. /\ OnlyFunder(caller) /\ n * cost \in Nat
         /\ funder_stake(caller)' + fees_collected' + (n * cost + storage) + vault
               <= funder_stake(caller) + fees_collected + vault'
    BY <1>1, <1>6, <1>7, CostsPaid
  <1> DEFINE costs == n * cost
             stored == n * (KeyBytes + PkBytes)
  <1> HIDE DEF costs, stored
  <1>11. storage = DropBytes + stored /\ stored \in Nat /\ costs \in Nat
    BY <1>7, <1>10 DEF storage, costs, stored
  <1>12. /\ SumFunction(KeyStakes') <= SumFunction(KeyStakes) + (stored + costs)
         /\ funder_stake(caller)' + fees_collected' + (costs + storage) + vault
               <= funder_stake(caller) + fees_collected + vault'
    BY <1>9, <1>10 DEF costs, stored
  <1>13. funder_stake(caller)' + fees_collected' + DropBytes + (stored + costs) + vault
            <= funder_stake(caller) + fees_collected + vault'
    <2>1. /\ funder_stake(caller)' \in Nat /\ fees_collected' \in Nat /\ vault \in Nat
          /\ funder_stake(caller) \in Nat /\ fees_collected \in Nat /\ vault' \in Nat
      BY DEF Staked, Books, HoldingsTyped, FeeInv
    <2>2. PICK s \in Nat, f \in Nat, v \in Nat :
             s = funder_stake(caller)' /\ f = fees_collected' /\ v = vault'
      BY <2>1
    <2>3. s + f + (costs + storage) + vault <= funder_stake(caller) + fees_collected + v
      BY <1>12, <2>2
    <2>4. s + f + DropBytes + (stored + costs) + vault <= funder_stake(caller) + fees_collected + v
      BY <1>7, <1>11, <2>1, <2>3
    <2> QED
      BY <2>2, <2>4
  <1>14. DropBytes \in Int /\ stored + costs \in Int
    BY <1>7, <1>11
  <1> QED
    BY <1>1, <1>8, <1>10, <1>12, <1>13, <1>14, TotalPaid

\* add_keys charges for its keys.
LEMMA AddKeysPaid ==
    ASSUME Books, Books', Staked, Staked', KindsStay,
           NEW caller \in Accounts, NEW d, NEW key_data \in KeyData, NEW deposit \in Nat, NEW keep,
           AddKeys(caller, d, key_data, deposit, keep)
    PROVE  Paid
  <1> DEFINE n == Len(key_data)
             drop == drop_by_id[d]
             first == drop.next_key_id
             uses == drop.max_key_uses
             cost == get_total_costs_for_key(uses, asset_by_id[d], drop.asset_data_for_uses)
             storage == n * (KeyBytes + PkBytes)
  <1>1. /\ d \in DOMAIN drop_by_id
        /\ internal_add_keys_to_account(d, first, uses, key_data)
        /\ drop_by_id' = [drop_by_id EXCEPT ![d].next_key_id = @ + n]
        /\ fees_collected' = fees_collected + total_fees(caller, n, 0)
        /\ refund_excess(caller, determine_costs(caller, purse_of(caller, deposit), n, 0, cost, storage),
                         deposit, keep)
        /\ UNCHANGED <<asset_by_id, funder_metadata, receipts>>
    BY DEF AddKeys, settings
  <1>2. Inv /\ Inv'
    BY DEF Books, Kept
  <1>3. \A e \in DOMAIN drop_by_id : drop_by_id[e] \in Drop
    BY <1>2 DEF Inv, Current, Registry, Typed, IsMap
  <1>4. /\ DOMAIN drop_by_id' = DOMAIN drop_by_id
        /\ \A e \in DOMAIN drop_by_id :
              drop_by_id'[e].asset_data_for_uses = drop_by_id[e].asset_data_for_uses
    BY <1>1, <1>3 DEF Drop
  <1>5. first \in Nat
    BY <1>1, <1>3, StorageAssumption DEF Drop
  <1>6. uses = 1 /\ cost \in Nat /\ cost = use_cost(d)'
    <2>1. CostsKnown
      BY BooksKnowCosts
    <2>2. uses = 1 /\ use_cost(d) \in Nat /\ cost = use_cost(d)
      BY <1>1, <2>1 DEF CostsKnown
    <2>3. use_cost(d)' = use_cost(d)
      BY <1>1, <1>4, CostStays
    <2> QED
      BY <2>2, <2>3
  <1>7. n \in Nat /\ storage \in Nat
    BY LengthOfKeyData, KeysStored
  <1> HIDE DEF n, first, uses, cost, storage
  <1>8. SumFunction(DropStakes') <= SumFunction(DropStakes) + 0
    <2>1. ASSUME NEW e \in DOMAIN drop_by_id PROVE drop_stake(e)' = drop_stake(e)
      <3>1. asset_of(e)' = asset_of(e)
        BY <1>1, <1>4 DEF asset_of, asset_id_of, only_metadata, only_use
      <3> QED
        BY <1>1, <3>1 DEF drop_stake, ids_stake
    <2>2. DOMAIN asset_by_id = DOMAIN drop_by_id
      BY <1>2 DEF Inv
    <2>3. DropStakes' = DropStakes
      BY <1>1, <2>1, <2>2 DEF DropStakes
    <2>4. SumFunction(DropStakes) \in Nat
      BY StakesAreSums DEF StakesSummed
    <2> QED
      BY <2>3, <2>4
  <1>9. SumFunction(KeyStakes') <= SumFunction(KeyStakes) + (storage + n * cost)
    <2>1. \A t \in DOMAIN key_info_by_token_id : parse_token_id(t) = d => t[2] < first
      BY <1>2 DEF Inv, Current, Registry, Housed, first
    <2>2. internal_add_keys_to_account(d, first, 1, key_data)
      BY <1>1, <1>6
    <2> QED
      BY <1>5, <1>6, <2>1, <2>2, NewKeysStaked DEF n, storage
  <1>10. /\ OnlyFunder(caller) /\ n * cost \in Nat
         /\ funder_stake(caller)' + fees_collected' + (n * cost + storage) + vault
               <= funder_stake(caller) + fees_collected + vault'
    BY <1>1, <1>6, <1>7, CostsPaid
  <1> DEFINE costs == n * cost
  <1> HIDE DEF costs
  <1>11. /\ costs \in Nat /\ SumFunction(KeyStakes') <= SumFunction(KeyStakes) + (storage + costs)
         /\ funder_stake(caller)' + fees_collected' + (costs + storage) + vault
               <= funder_stake(caller) + fees_collected + vault'
    BY <1>9, <1>10 DEF costs
  <1>12. funder_stake(caller)' + fees_collected' + 0 + (storage + costs) + vault
            <= funder_stake(caller) + fees_collected + vault'
    <2>1. /\ funder_stake(caller)' \in Nat /\ fees_collected' \in Nat /\ vault \in Nat
          /\ funder_stake(caller) \in Nat /\ fees_collected \in Nat /\ vault' \in Nat
      BY DEF Staked, Books, HoldingsTyped, FeeInv
    <2>2. PICK s \in Nat, f \in Nat, v \in Nat :
             s = funder_stake(caller)' /\ f = fees_collected' /\ v = vault'
      BY <2>1
    <2>3. s + f + (costs + storage) + vault <= funder_stake(caller) + fees_collected + v
      BY <1>11, <2>2
    <2>4. s + f + 0 + (storage + costs) + vault <= funder_stake(caller) + fees_collected + v
      BY <1>7, <1>11, <2>1, <2>3
    <2> QED
      BY <2>2, <2>4
  <1>13. 0 \in Int /\ storage + costs \in Int
    BY <1>7, <1>11
  <1> QED
    BY <1>1, <1>8, <1>10, <1>11, <1>12, <1>13, TotalPaid

\* What a batch charges for its drops.
LEMMA BatchWorth ==
    ASSUME Books, NEW caller \in Accounts, NEW deposit \in Nat, NEW batch \in Batches,
           NEW charge \in Nat, charge = DropBytes + total_fees(caller, 0, 1)
    PROVE  /\ Len(batch) \in Nat
           /\ worth(charge_drops(caller, deposit, batch)) =
                 (deposit + user_balance[caller]) - Len(batch) * charge
  <1> DEFINE n == Len(batch)
             base == deposit + user_balance[caller]
  <1>1. n \in Nat
    BY BatchesAssumption, LenProperties
  <1>2. /\ IsPurse(purse_of(caller, deposit), deposit) /\ FeeInv
        /\ worth(purse_of(caller, deposit)) = base /\ base \in Nat
    BY FunderPurse DEF Books, purse_of, worth, HoldingsTyped
  <1>3. PICK left :
           /\ left[0] = purse_of(caller, deposit)
           /\ \A k \in 0 .. n : IsPurse(left[k], deposit)
           /\ \A k \in 1 .. n : left[k] = determine_costs(caller, left[k - 1], 0, 1, 0, DropBytes)
           /\ charge_drops(caller, deposit, batch) = left[n]
    BY <1>2, DropAfterDrop
  <1> HIDE DEF n, base
  <1>4. ASSUME NEW k \in 1 .. n
        PROVE  worth(left[k]) = worth(left[k - 1]) - charge
    <2>1. IsPurse(left[k - 1], deposit)
      <3>1. k - 1 \in 0 .. n
        BY <1>1
      <3> QED
        BY <1>3, <3>1
    <2>2. worth(left[k]) = worth(left[k - 1]) - (0 * 0 + DropBytes + total_fees(caller, 0, 1))
      <3>1. 0 \in Nat /\ 1 \in Nat /\ DropBytes \in Nat
        BY StorageAssumption
      <3> QED
        BY <1>2, <1>3, <2>1, <3>1, CostsWorth
    <2>3. 0 * 0 + DropBytes + total_fees(caller, 0, 1) = charge
      <3>1. total_fees(caller, 0, 1) \in Nat /\ DropBytes \in Nat
        BY <1>2, FeesAreAmounts, StorageAssumption
      <3> QED
        BY <3>1
    <2> QED
      BY <2>2, <2>3
  <1> DEFINE W == {k \in 0 .. n : worth(left[k]) # base - k * charge}
  <1>5. W = {}
    <2> SUFFICES ASSUME W # {} PROVE FALSE
      OBVIOUS
    <2>1. W \in SUBSET Nat
      OBVIOUS
    <2> HIDE DEF W
    <2>2. PICK k \in W : \A j \in 0 .. k - 1 : j \notin W
      BY <2>1, LeastNumber
    <2>3. k \in 0 .. n /\ worth(left[k]) # base - k * charge
      BY <2>2 DEF W
    <2>4. CASE k = 0
      <3>1. base - 0 * charge = base
        BY <1>2
      <3> QED
        BY <1>2, <1>3, <2>3, <2>4, <3>1
    <2>5. CASE k # 0
      <3>1. k \in 1 .. n /\ k - 1 \in 0 .. k - 1 /\ k - 1 \in 0 .. n
        BY <1>1, <2>3, <2>5
      <3>2. k - 1 \notin W
        BY <2>2, <3>1
      <3>3. worth(left[k - 1]) = base - (k - 1) * charge
        BY <3>1, <3>2 DEF W
      <3>4. worth(left[k]) = base - (k - 1) * charge - charge
        BY <1>4, <3>1, <3>3
      <3>5. base - (k - 1) * charge - charge = base - k * charge
        <4>1. \A a, b, c \in Int : a - (b - 1) * c - c = a - b * c
          OBVIOUS
        <4> QED
          BY <1>1, <1>2, <3>1, <4>1
      <3> QED
        BY <2>3, <3>4, <3>5
    <2> QED
      BY <2>4, <2>5
  <1>6. n \in 0 .. n
    BY <1>1
  <1>7. worth(left[n]) = base - n * charge
    BY <1>5, <1>6
  <1>8. worth(charge_drops(caller, deposit, batch)) = base - n * charge
    BY <1>3, <1>7
  <1> QED
    BY <1>1, <1>8, Zenon DEF n, base

\* Metadata that comes with a batch, or none.
LEMMA BatchMetadata ==
    ASSUME SettingsTyped, NEW caller \in Accounts, NEW metadata \in {None} \cup MetadataChoices,
           IF metadata # None THEN internal_modify_user_metadata(caller, metadata)
                              ELSE UNCHANGED funder_metadata
    PROVE  LET old == MetadataBytes * unwrap_or(funder_metadata[caller], 0)
               added == MetadataBytes * unwrap_or(metadata, 0)
           IN  /\ old \in Nat /\ added \in Nat
               /\ MetadataBytes * unwrap_or(funder_metadata'[caller], 0) = old + added
               /\ \A b \in Accounts : b # caller => funder_metadata'[b] = funder_metadata[b]
  <1>1. CASE metadata # None
    BY <1>1, MetadataCharged
  <1>2. CASE metadata = None
    <2>1. unwrap_or(funder_metadata[caller], 0) \in Nat
      BY OptionAmounts DEF SettingsTyped
    <2>2. MetadataBytes * unwrap_or(funder_metadata[caller], 0) \in Nat
      BY <2>1, Products, StorageAssumption
    <2>3. unwrap_or(metadata, 0) = 0 /\ funder_metadata' = funder_metadata
      BY <1>2 DEF unwrap_or
    <2>4. MetadataBytes * unwrap_or(metadata, 0) = 0
      BY <2>3, StorageAssumption
    <2> QED
      BY <2>2, <2>3, <2>4
  <1> QED
    BY <1>1, <1>2

\* create_drop_batch charges for its drops and its metadata.
LEMMA BatchPaid ==
    ASSUME Books, NEW caller \in Accounts, NEW batch \in Batches, NEW deposit \in Nat, NEW keep,
           NEW metadata \in {None} \cup MetadataChoices, NEW on_success \in OnSuccessChoices,
           NEW call_fails \in BOOLEAN,
           CreateDropBatch(caller, batch, deposit, keep, metadata, on_success, call_fails)
    PROVE  /\ OnlyFunder(caller) /\ Len(batch) \in Nat
           /\ funder_stake(caller)' + fees_collected' + Len(batch) * DropBytes + 0 + vault
                 <= funder_stake(caller) + fees_collected + vault'
  <1> DEFINE fees == total_fees(caller, 0, 1)
             charge == DropBytes + fees
             n == Len(batch)
             after_drops == charge_drops(caller, deposit, batch)
             purse == charge_for_metadata(after_drops, metadata)
             called == calls_on_success(purse, on_success)
             call_deposit == IF called THEN unwrap(on_success) ELSE 0
             paid == IF call_fails THEN 0 ELSE call_deposit
             left == [purse EXCEPT !.deposit = @ - call_deposit]
             old == MetadataBytes * unwrap_or(funder_metadata[caller], 0)
             added == MetadataBytes * unwrap_or(metadata, 0)
             ub == user_balance[caller]
  <1>1. /\ refund_excess(caller, left, deposit - paid, keep)
        /\ fees_collected' = fees_collected + n * fees
        /\ IF metadata # None THEN internal_modify_user_metadata(caller, metadata)
                              ELSE UNCHANGED funder_metadata
    BY DEF CreateDropBatch
  <1>2. /\ old \in Nat /\ added \in Nat
        /\ MetadataBytes * unwrap_or(funder_metadata'[caller], 0) = old + added
        /\ \A b \in Accounts : b # caller => funder_metadata'[b] = funder_metadata[b]
    BY <1>1, BatchMetadata DEF Books
  <1>3. ub \in Nat /\ vault \in Nat /\ fees_collected \in Nat
    BY DEF Books, HoldingsTyped, FeeInv
  <1>4. fees \in Nat /\ DropBytes \in Nat /\ charge \in Nat
    <2>1. fees \in Nat
      BY FeesAreAmounts DEF Books
    <2> QED
      BY <2>1, StorageAssumption
  <1>5. n \in Nat /\ worth(after_drops) = (deposit + ub) - n * charge
    BY <1>4, BatchWorth
  <1>6. IsPurse(after_drops, deposit)
    BY FunderPurse, DropsCharged DEF Books
  <1> HIDE DEF after_drops, added
  <1>7. IsPurse(purse, deposit) /\ worth(purse) = worth(after_drops) - added
    BY <1>2, <1>6, Charged, ChargedWorth DEF charge_for_metadata, added
  <1>8. call_deposit \in Nat /\ call_deposit <= purse.deposit
    <2>1. CASE called
      <3>1. on_success # None /\ purse.deposit >= unwrap(on_success) /\ on_success \in AmountOptions
        BY <2>1, ChosenOptions DEF calls_on_success
      <3>2. unwrap(on_success) \in Nat /\ purse.deposit \in Nat
        BY <1>7, <3>1, OptionAmounts DEF IsPurse
      <3> QED
        BY <2>1, <3>1, <3>2
    <2>2. CASE ~called
      BY <1>7, <2>2 DEF IsPurse
    <2> QED
      BY <2>1, <2>2
  <1> HIDE DEF purse, call_deposit, fees, charge, n, ub, old
  <1>9. /\ purse.deposit \in 0 .. deposit /\ purse.balance \in Int
        /\ purse = [deposit |-> purse.deposit, balance |-> purse.balance]
    BY <1>7 DEF IsPurse
  <1>10. /\ left = [deposit |-> purse.deposit - call_deposit, balance |-> purse.balance]
         /\ paid \in Nat /\ paid <= call_deposit
    BY <1>8, <1>9
  <1> HIDE DEF left, paid
  <1>11. deposit - paid \in Nat /\ purse.deposit - call_deposit \in 0 .. deposit - paid
    BY <1>8, <1>9, <1>10
  <1>12. /\ IsPurse(left, deposit - paid)
         /\ worth(left) = worth(purse) - call_deposit /\ worth(purse) \in Int
    BY <1>8, <1>9, <1>10, <1>11 DEF IsPurse, worth
  <1>13. n * charge \in Nat /\ n * charge = n * DropBytes + n * fees
         /\ n * DropBytes \in Nat /\ n * fees \in Nat
    <2>1. \A a, b, c \in Nat : a * (b + c) = a * b + a * c
      OBVIOUS
    <2>2. n * charge = n * DropBytes + n * fees
      BY <1>4, <1>5, <2>1 DEF charge
    <2> QED
      BY <1>4, <1>5, <2>2, Products
  <1> DEFINE required == n * charge
             storage == n * DropBytes
             all_fees == n * fees
  <1>14. /\ required \in Nat /\ required = storage + all_fees /\ storage \in Nat /\ all_fees \in Nat
         /\ worth(after_drops) = (deposit + ub) - required
         /\ fees_collected' = fees_collected + all_fees
    BY <1>1, <1>5, <1>13
  <1> HIDE DEF required, storage, all_fees
  <1>15. PICK new \in Nat : new = old + added
    BY <1>2
  <1>16. worth(left) + required + new <= deposit - paid + ub + old
    <2>1. worth(left) = (deposit + ub) - required - added - call_deposit
      BY <1>7, <1>12, <1>14
    <2> QED
      BY <1>2, <1>3, <1>8, <1>10, <1>14, <1>15, <2>1
  <1>17. /\ required \in Int /\ worth(left) + required + new <= (deposit - paid) + user_balance[caller] + old
         /\ old = MetadataBytes * unwrap_or(funder_metadata[caller], 0)
         /\ new = MetadataBytes * unwrap_or(funder_metadata'[caller], 0)
    BY <1>2, <1>14, <1>15, <1>16 DEF ub, old
  <1>18. /\ OnlyFunder(caller) /\ vault' \in Nat
         /\ funder_stake(caller)' \in Nat /\ funder_stake(caller) \in Nat
         /\ funder_stake(caller)' + required + vault <= funder_stake(caller) + vault'
    BY <1>1, <1>2, <1>11, <1>12, <1>15, <1>17, FunderPays
  <1>19. PICK s \in Nat, v \in Nat : s = funder_stake(caller)' /\ v = vault'
    BY <1>18
  <1>20. s + required + vault <= funder_stake(caller) + v /\ funder_stake(caller) \in Nat
    BY <1>18, <1>19
  <1>21. s + (fees_collected + all_fees) + storage + 0 + vault <= funder_stake(caller) + fees_collected + v
    BY <1>3, <1>14, <1>20
  <1>22. funder_stake(caller)' + fees_collected' + storage + 0 + vault
            <= funder_stake(caller) + fees_collected + vault'
    BY <1>14, <1>19, <1>21
  <1> QED
    BY <1>5, <1>18, <1>22 DEF n, storage

\* create_drop_batch pays for its drops and its metadata.
LEMMA CreateDropBatchPaid ==
    ASSUME OneAsset, Books, Books', Staked, Staked', KindsStay,
           NEW caller \in Accounts, NEW batch \in Batches, NEW deposit \in Nat, NEW keep,
           NEW metadata \in {None} \cup MetadataChoices, NEW on_success \in OnSuccessChoices,
           NEW call_fails \in BOOLEAN,
           CreateDropBatch(caller, batch, deposit, keep, metadata, on_success, call_fails)
    PROVE  Paid
  <1> DEFINE ids == {batch[i].drop_id : i \in DOMAIN batch}
             n == Len(batch)
  <1>1. /\ ids \cap DOMAIN drop_by_id = {} /\ Cardinality(ids) = n
        /\ DOMAIN drop_by_id' = DOMAIN drop_by_id \cup ids
        /\ UNCHANGED <<key_info_by_token_id, receipts>>
    BY DEF CreateDropBatch
  <1>2. Inv /\ Inv'
    BY DEF Books, Kept
  <1>3. DropsCome
    BY <1>2, CreationAddsDrops DEF Creates, SomeBatchCreated
  <1>4. /\ OnlyFunder(caller) /\ n \in Nat
        /\ funder_stake(caller)' + fees_collected' + n * DropBytes + 0 + vault
              <= funder_stake(caller) + fees_collected + vault'
    BY BatchPaid
  <1> HIDE DEF ids, n
  <1>5. DOMAIN drop_by_id' \ DOMAIN drop_by_id = ids
    BY <1>1
  <1>6. SumFunction(DropStakes) \in Nat /\ SumFunction(KeyStakes) \in Nat
    BY StakesAreSums DEF StakesSummed
  <1>7. n * DropBytes \in Nat
    BY <1>4, Products, StorageAssumption
  <1>8. SumFunction(DropStakes') = SumFunction(DropStakes) + n * DropBytes
    <2>1. SumFunction(DropStakes') = SumFunction(DropStakes)
             + Cardinality(DOMAIN drop_by_id' \ DOMAIN drop_by_id) * DropBytes
      BY <1>2, <1>3, DropStakesAdded
    <2> QED
      BY <1>1, <1>5, <2>1
  <1>9. SumFunction(KeyStakes') = SumFunction(KeyStakes) + 0
    <2>1. SumFunction(KeyStakes') = SumFunction(KeyStakes)
             + Cardinality(DOMAIN key_info_by_token_id' \ DOMAIN key_info_by_token_id) * 0
      BY <1>1, <1>2, KeyStakesAdded
    <2>2. Cardinality(DOMAIN key_info_by_token_id' \ DOMAIN key_info_by_token_id) = 0
      BY <1>1, FS_EmptySet
    <2> QED
      BY <2>1, <2>2
  <1> DEFINE storage == n * DropBytes
  <1> HIDE DEF storage
  <1>10. /\ storage \in Int /\ 0 \in Int
         /\ SumFunction(DropStakes') <= SumFunction(DropStakes) + storage
         /\ SumFunction(KeyStakes') <= SumFunction(KeyStakes) + 0
         /\ funder_stake(caller)' + fees_collected' + storage + 0 + vault
               <= funder_stake(caller) + fees_collected + vault'
    BY <1>4, <1>6, <1>7, <1>8, <1>9 DEF storage
  <1> QED
    BY <1>1, <1>4, <1>10, TotalPaid

\* Keys that are deleted had their use left.
LEMMA DeletedKeysStaked ==
    ASSUME Books, Books', Staked, Staked', KindsStay, NEW d \in DOMAIN drop_by_id,
           NEW tokens, IsFiniteSet(tokens), tokens \subseteq DOMAIN key_info_by_token_id,
           \A t \in tokens : parse_token_id(t) = d /\ key_info_by_token_id[t].remaining_uses > 0,
           key_info_by_token_id' = Without(key_info_by_token_id, tokens)
    PROVE  /\ cost_of_keys(d, tokens) = Cardinality(tokens) * use_cost(d)
           /\ SumFunction(KeyStakes) = SumFunction(KeyStakes')
                 + Cardinality(tokens) * (KeyBytes + PkBytes + use_cost(d))
  <1>1. Inv /\ Inv'
    BY DEF Books, Kept
  <1>2. /\ use_cost(d) \in Nat /\ drop_by_id[d].max_key_uses = 1
        /\ get_total_costs_for_key(1, asset_by_id[d], drop_by_id[d].asset_data_for_uses) = use_cost(d)
    BY BooksKnowCosts DEF CostsKnown
  <1>3. \A t \in tokens : key_info_by_token_id[t].remaining_uses = 1
    <2> SUFFICES ASSUME NEW t \in tokens PROVE key_info_by_token_id[t].remaining_uses = 1
      OBVIOUS
    <2>1. /\ key_info_by_token_id[t].remaining_uses \in Nat
          /\ key_info_by_token_id[t].remaining_uses > 0
          /\ key_info_by_token_id[t].remaining_uses <= 1
      BY <1>1, <1>2 DEF Inv, Current, Registry, Housed, Typed, IsMap, KeyInfo
    <2> QED
      BY <2>1
  <1>4. cost_of_keys(d, tokens) = Cardinality(tokens) * use_cost(d)
    <2> DEFINE costs == [t \in tokens |-> get_total_costs_for_key(
                            key_info_by_token_id[t].remaining_uses, asset_by_id[d],
                            drop_by_id[d].asset_data_for_uses)]
    <2>1. DOMAIN costs = tokens /\ \A t \in tokens : costs[t] = use_cost(d)
      BY <1>2, <1>3
    <2> HIDE DEF costs
    <2>2. SumFunctionOnSet(costs, tokens) = Cardinality(tokens) * use_cost(d)
      BY <1>2, <2>1, SumConstant
    <2> QED
      BY <2>1, <2>2 DEF cost_of_keys, costs, SumFunction
  <1>5. /\ DOMAIN key_info_by_token_id' = DOMAIN key_info_by_token_id \ tokens
        /\ \A t \in DOMAIN key_info_by_token_id' : key_info_by_token_id'[t] = key_info_by_token_id[t]
    BY DEF Without, Restrict
  <1> DEFINE stake == KeyBytes + PkBytes + use_cost(d)
  <1>6. stake \in Nat /\ KeyBytes \in Nat /\ PkBytes \in Nat
    BY <1>2, StorageAssumption
  <1>7. SumFunction(KeyStakes) = SumFunction(KeyStakes') + Cardinality(tokens) * stake
    <2>1. Amounts(KeyStakes) /\ Amounts(KeyStakes)'
      BY DEF Staked
    <2>2. Amounts(KeyStakes')
      BY <2>1 DEF Amounts
    <2>3. /\ DOMAIN KeyStakes = DOMAIN key_info_by_token_id
          /\ DOMAIN KeyStakes' = DOMAIN key_info_by_token_id'
      BY DEF KeyStakes
    <2>4. ASSUME NEW t \in DOMAIN KeyStakes'
          PROVE  KeyStakes'[t] = KeyStakes[t]
      <3>1. t \in DOMAIN key_info_by_token_id /\ t \in DOMAIN key_info_by_token_id'
        BY <1>5, <2>3
      <3>2. parse_token_id(t) \in DOMAIN drop_by_id /\ parse_token_id(t) \in DOMAIN drop_by_id'
        BY <1>1, <3>1 DEF Inv, Current, Registry, Housed
      <3>3. use_cost(parse_token_id(t))' = use_cost(parse_token_id(t))
        BY <3>2, CostStays
      <3>4. key_stake(t)' = key_stake(t)
        BY <1>5, <3>1, <3>3 DEF key_stake, stake_of_key, parse_token_id
      <3> QED
        BY <3>1, <3>4 DEF KeyStakes
    <2>5. ASSUME NEW t \in DOMAIN KeyStakes \ DOMAIN KeyStakes'
          PROVE  KeyStakes[t] = stake
      <3>1. t \in tokens /\ t \in DOMAIN key_info_by_token_id
        BY <1>5, <2>3, <2>5
      <3>2. key_stake(t) = KeyBytes + (PkBytes + use_cost(d))
        BY <1>3, <3>1 DEF key_stake, stake_of_key
      <3>3. key_stake(t) = stake
        BY <1>2, <1>6, <3>2
      <3> QED
        BY <3>1, <3>3 DEF KeyStakes
    <2>6. DOMAIN KeyStakes' \subseteq DOMAIN KeyStakes /\ DOMAIN KeyStakes \ DOMAIN KeyStakes' = tokens
      BY <1>5, <2>3
    <2> HIDE DEF stake
    <2> QED
      BY <1>6, <2>1, <2>2, <2>4, <2>5, <2>6, SumGrown
  <1> QED
    BY <1>4, <1>7

\* delete_keys gives back what its keys were charged, and their storage.
LEMMA DeleteKeysPaid ==
    ASSUME Books, Books', Staked, Staked', KindsStay,
           NEW caller \in Accounts, NEW pks \in SUBSET DOMAIN token_id_by_pk, NEW d,
           NEW keep_empty_drop, DeleteKeys(caller, d, pks, keep_empty_drop)
    PROVE  Paid
  <1> DEFINE tokens == deleted_tokens(d, pks)
             n == Cardinality(tokens)
             remove_drop == KeysOf(key_info_by_token_id, d) \subseteq tokens /\ ~keep_empty_drop
             removed == IF remove_drop THEN DropBytes ELSE 0
             stored == n * (KeyBytes + PkBytes)
             cost == use_cost(d)
  <1>1. /\ d \in DOMAIN drop_by_id
        /\ \A pk \in pks : parse_token_id(token_id_by_pk[pk]) = d
        /\ key_info_by_token_id' = Without(key_info_by_token_id, tokens)
        /\ IF remove_drop
           THEN drop_by_id' = Without(drop_by_id, {d}) /\ asset_by_id' = Without(asset_by_id, {d})
           ELSE UNCHANGED <<drop_by_id, asset_by_id>>
        /\ internal_modify_user_balance(caller, cost_of_keys(d, tokens) + (stored + removed))
        /\ UNCHANGED <<fees_collected, funder_metadata, receipts, vault>>
    BY DEF DeleteKeys, delete_keys_defined, settings, holdings
  <1>2. Inv /\ Inv' /\ FinitelyMany
    BY DEF Books, Kept
  <1>3. /\ tokens \subseteq DOMAIN key_info_by_token_id
        /\ \A t \in tokens : parse_token_id(t) = d /\ key_info_by_token_id[t].remaining_uses > 0
    BY <1>1, <1>2 DEF deleted_tokens, Inv, Current, Registry, Linked
  <1> HIDE DEF tokens, remove_drop
  <1>4. IsFiniteSet(tokens) /\ n \in Nat
    BY <1>2, <1>3, KeysAreFinite, FS_Subset, FS_CardinalityType
  <1>5. /\ cost_of_keys(d, tokens) = n * cost
        /\ SumFunction(KeyStakes) = SumFunction(KeyStakes') + n * (KeyBytes + PkBytes + cost)
    BY <1>1, <1>3, <1>4, DeletedKeysStaked
  <1>6. cost \in Nat /\ KeyBytes \in Nat /\ PkBytes \in Nat /\ DropBytes \in Nat /\ removed \in Nat
    BY <1>1, StorageAssumption DEF Staked
  <1> HIDE DEF cost
  <1>7. n * (KeyBytes + PkBytes + cost) = stored + n * cost /\ stored \in Nat /\ n * cost \in Nat
    <2>1. \A a, b, c \in Nat : a * (b + c) = a * b + a * c
      OBVIOUS
    <2>2. KeyBytes + PkBytes \in Nat
      BY <1>6
    <2>3. n * (KeyBytes + PkBytes + cost) = stored + n * cost
      BY <1>4, <1>6, <2>1, <2>2
    <2> QED
      BY <1>4, <1>6, <2>2, <2>3, Products
  <1> DEFINE costs == n * cost
  <1> HIDE DEF n, stored, costs, removed
  <1>8. /\ SumFunction(KeyStakes) = SumFunction(KeyStakes') + (stored + costs)
        /\ internal_modify_user_balance(caller, costs + (stored + removed))
        /\ stored \in Nat /\ costs \in Nat
    BY <1>1, <1>5, <1>7 DEF costs
  <1>9. SumFunction(DropStakes') <= SumFunction(DropStakes) + (-removed)
    <2>1. SumFunction(DropStakes) \in Nat
      BY StakesAreSums DEF StakesSummed
    <2>2. SumFunction(DropStakes') \in Nat
      <3>1. StakesSummed'
        BY StakesAreSums, PTL
      <3> QED
        BY <3>1 DEF StakesSummed
    <2>3. CASE ~remove_drop
      <3>1. UNCHANGED <<drop_by_id, asset_by_id>>
        BY <1>1, <2>3
      <3>2. \A e : drop_stake(e)' = drop_stake(e)
        BY <3>1 DEF drop_stake, ids_stake, asset_of, asset_id_of
      <3>3. DropStakes' = DropStakes
        BY <3>1, <3>2 DEF DropStakes
      <3>4. removed = 0
        BY <2>3 DEF removed
      <3> QED
        BY <2>1, <3>3, <3>4
    <2>4. CASE remove_drop
      <3>1. drop_by_id' = Without(drop_by_id, {d}) /\ asset_by_id' = Without(asset_by_id, {d})
        BY <1>1, <2>4
      <3>2. DOMAIN asset_by_id = DOMAIN drop_by_id
        BY <1>2 DEF Inv
      <3>3. DOMAIN asset_by_id' = DOMAIN asset_by_id \ {d}
        BY <3>1 DEF Without, Restrict
      <3>4. ASSUME NEW e \in DOMAIN asset_by_id \ {d} PROVE drop_stake(e)' = drop_stake(e)
        <4>1. asset_of(e)' = asset_of(e)
          BY <3>1, <3>2 DEF asset_of, asset_id_of, Without, Restrict
        <4> QED
          BY <3>3, <4>1 DEF drop_stake, ids_stake
      <3>5. OnlyAt(DropStakes, DropStakes', d)
        BY <3>3, <3>4 DEF OnlyAt, DropStakes
      <3>6. Amounts(DropStakes) /\ Amounts(DropStakes')
        BY DEF Staked, Amounts
      <3>7. SumFunction(DropStakes') + amount_at(DropStakes, d)
               = SumFunction(DropStakes) + amount_at(DropStakes', d)
        BY <3>5, <3>6, SumOnlyAt
      <3>8. amount_at(DropStakes', d) = 0
        BY <3>3 DEF amount_at, DropStakes
      <3>9. amount_at(DropStakes, d) = DropBytes + ids_stake(asset_of(d))
            /\ ids_stake(asset_of(d)) \in Nat
        BY <1>1, <3>2 DEF amount_at, DropStakes, drop_stake, Staked
      <3>10. removed = DropBytes
        BY <2>4 DEF removed
      <3> QED
        BY <1>6, <2>1, <2>2, <3>7, <3>8, <3>9, <3>10
    <2> QED
      BY <2>3, <2>4
  <1>10. SumFunction(KeyStakes') <= SumFunction(KeyStakes) + (-(stored + costs))
    <2>1. StakesSummed /\ StakesSummed'
      BY StakesAreSums, PTL
    <2>2. SumFunction(KeyStakes) \in Nat /\ SumFunction(KeyStakes') \in Nat
      BY <2>1 DEF StakesSummed
    <2> QED
      BY <1>8, <2>2
  <1> DEFINE back == costs + (stored + removed)
  <1>11. back \in Int /\ back \in Nat
    BY <1>6, <1>8
  <1> HIDE DEF back
  <1>12. OnlyFunder(caller) /\ funder_stake(caller)' = funder_stake(caller) + back
    BY <1>1, <1>8, <1>11, BalanceModified DEF back
  <1>13. /\ -removed \in Int /\ -(stored + costs) \in Int
         /\ funder_stake(caller)' + fees_collected' + (-removed) + (-(stored + costs)) + vault
               <= funder_stake(caller) + fees_collected + vault'
    <2>1. funder_stake(caller) \in Nat /\ fees_collected \in Nat /\ vault \in Nat
      BY DEF Staked, Books, HoldingsTyped, FeeInv
    <2>2. funder_stake(caller) + back + fees_collected + (-removed) + (-(stored + costs)) + vault
             <= funder_stake(caller) + fees_collected + vault
      BY <1>6, <1>8, <2>1 DEF back
    <2>3. -removed \in Int /\ -(stored + costs) \in Int
      BY <1>6, <1>8
    <2> QED
      BY <1>1, <1>12, <2>2, <2>3
  <1> QED
    BY <1>1, <1>9, <1>10, <1>12, <1>13, TotalPaid

-----------------------------------------------------------------------------
(* Every step pays.                                                        *)

\* Calls that touch several keys or drops.
LEMMA DropCallsPaid ==
    ASSUME OneAsset, Books, Books', Staked, Staked', KindsStay, NEW caller \in Accounts,
           DropCall(caller)
    PROVE  Paid
  <1>1. \A deposit \in Deposits : deposit \in Nat
    BY AccountsAssumption
  <1>2. ASSUME NEW d \in DropIds, NEW shape \in Shapes, NEW key_data \in KeyData,
               NEW deposit \in Deposits, NEW keep, CreateDrop(caller, d, shape, key_data, deposit, keep)
        PROVE  Paid
    BY <1>1, <1>2, CreateDropPaid
  <1>3. ASSUME NEW d, NEW key_data \in KeyData, NEW deposit \in Deposits, NEW keep,
               AddKeys(caller, d, key_data, deposit, keep)
        PROVE  Paid
    BY <1>1, <1>3, AddKeysPaid
  <1>4. ASSUME NEW d, NEW keep_empty_drop, NEW pks \in SUBSET DOMAIN token_id_by_pk,
               DeleteKeys(caller, d, pks, keep_empty_drop)
        PROVE  Paid
    BY <1>4, DeleteKeysPaid
  <1>5. ASSUME NEW batch \in Batches, NEW deposit \in Deposits, NEW keep,
               NEW metadata \in {None} \cup MetadataChoices, NEW on_success \in OnSuccessChoices,
               NEW call_fails \in BOOLEAN,
               CreateDropBatch(caller, batch, deposit, keep, metadata, on_success, call_fails)
        PROVE  Paid
    BY <1>1, <1>5, CreateDropBatchPaid
  <1> QED
    BY <1>2, <1>3, <1>4, <1>5 DEF DropCall

\* Funders' balances and metadata.
LEMMA BalanceCallNear ==
    ASSUME Books, NEW caller \in Accounts, BalanceCall(caller)
    PROVE  NearMoves
  <1>1. \A deposit \in Deposits : deposit \in Nat
    BY AccountsAssumption
  <1> QED
    BY <1>1, AddToBalanceNear, WithdrawBalanceNear, SetMetadataNear DEF BalanceCall

\* Claims.
LEMMA ClaimStepNear ==
    ASSUME Books, Priced, Staked, ClaimStep
    PROVE  NearMoves
  BY ClaimNear, CreateAccountNear DEF ClaimStep

\* Tokens.
LEMMA TokenStepNear ==
    ASSUME Books, Priced, TokenStep
    PROVE  NearMoves
  BY FtArrivalNear, FtWithdrawalNear, NftArrivalNear, NftWithdrawalNear DEF TokenStep

\* Callbacks.
LEMMA CallbackNear ==
    ASSUME Books, Priced, Staked, NEW r, Callback(r)
    PROVE  NearMoves
  BY CreationFailedNear, CreationPanicsNear, CreatedNear, AssetsClaimedNear, FtRefundNear,
     NftRefundNear, OnWithdrawFeesNear DEF Callback

\* Keys change their owners, the settings change, or time passes.
LEMMA OtherStepNear ==
    ASSUME Books, SomeTransfer \/ SomeApproval \/ SettingsStep \/ Tick \/ WithdrawFees \/ UNCHANGED vars
    PROVE  NearMoves
  <1>1. CASE SomeTransfer \/ SomeApproval
    <2>1. /\ UNCHANGED <<drop_by_id, asset_by_id, user_balance, funder_metadata, receipts,
                         fees_collected, vault>>
          /\ DOMAIN key_info_by_token_id' = DOMAIN key_info_by_token_id
          /\ \A u \in DOMAIN key_info_by_token_id :
                key_info_by_token_id'[u].remaining_uses = key_info_by_token_id[u].remaining_uses
      <3>1. CASE SomeTransfer
        <4>1. PICK pk \in DOMAIN token_id_by_pk, receiver \in Receivers, new_pk \in PublicKeys :
                 \E sender, approval_id : internal_transfer(sender, pk, receiver, approval_id, new_pk)
          BY <3>1 DEF SomeTransfer
        <4> DEFINE t == token_id_by_pk[pk]
                   key == transferred(key_info_by_token_id[t], receiver, new_pk)
        <4>2. t \in DOMAIN key_info_by_token_id /\ key_info_by_token_id[t] \in KeyInfo
          BY <4>1 DEF Books, Kept, Inv, Current, Registry, Linked, Typed, IsMap
        <4>3. key.remaining_uses = key_info_by_token_id[t].remaining_uses
          BY <4>2 DEF transferred, KeyInfo
        <4>4. key_info_by_token_id' = [key_info_by_token_id EXCEPT ![t] = key]
          BY <4>1, <4>2 DEF internal_transfer
        <4> HIDE DEF t, key
        <4>5. UNCHANGED <<drop_by_id, asset_by_id, user_balance, funder_metadata, receipts,
                          fees_collected, vault>>
          BY <4>1 DEF internal_transfer, holdings, settings
        <4> QED
          BY <4>2, <4>3, <4>4, <4>5
      <3>2. CASE SomeApproval
        <4>1. PICK sender \in Senders, pk \in DOMAIN token_id_by_pk, account \in Approvers :
                    NftApprove(sender, pk, account)
          BY <3>2 DEF SomeApproval
        <4> DEFINE t == token_id_by_pk[pk]
                   key == approved(verify_signature(key_info_by_token_id[t]), account)
        <4>2. t \in DOMAIN key_info_by_token_id /\ key_info_by_token_id[t] \in KeyInfo
          BY <4>1 DEF Books, Kept, Inv, Current, Registry, Linked, Typed, IsMap
        <4>3. key.remaining_uses = key_info_by_token_id[t].remaining_uses
          BY <4>2 DEF approved, verify_signature, KeyInfo
        <4>4. key_info_by_token_id' = [key_info_by_token_id EXCEPT ![t] = key]
          BY <4>1, <4>2 DEF NftApprove
        <4> HIDE DEF t, key
        <4>5. UNCHANGED <<drop_by_id, asset_by_id, user_balance, funder_metadata, receipts,
                          fees_collected, vault>>
          BY <4>1 DEF NftApprove, holdings, settings
        <4> QED
          BY <4>2, <4>3, <4>4, <4>5
      <3> QED
        BY <1>1, <3>1, <3>2
    <2> QED
      BY <2>1, QuietNear
  <1>2. CASE SettingsStep \/ Tick
    <2>1. UNCHANGED <<drop_by_id, asset_by_id, key_info_by_token_id, user_balance, funder_metadata,
                      receipts, fees_collected, vault>>
      BY <1>2 DEF SettingsStep, Tick, FreezeContract, UnfreezeContract, SetRootAccount, SetFees,
                  SetFeesPerUser, AddSigningAdmin, AddSigningPks, RemoveSigningPks,
                  besides_signing, besides_settings, registry, holdings, settings
    <2> QED
      BY <2>1, QuietNear
  <1>3. CASE UNCHANGED vars
    <2>1. UNCHANGED <<drop_by_id, asset_by_id, key_info_by_token_id, user_balance, funder_metadata,
                      receipts, fees_collected, vault>>
      BY <1>3 DEF vars, registry, holdings, settings
    <2> QED
      BY <2>1, QuietNear
  <1> QED
    BY <1>1, <1>2, <1>3, WithdrawFeesNear

-----------------------------------------------------------------------------
(* The promises stay priced.                                               *)

\* A promise stays priced as long as its drop is of the same kind.
LEMMA PricedStays ==
    ASSUME Inv', Held', KindsStay, Priced,
           \A r \in DOMAIN receipts' : PricedPromise(receipts'[r]),
           \A d \in DOMAIN drop_by_id' \ DOMAIN drop_by_id : Free(asset_of(d)')
    PROVE  Priced'
  <1>1. ASSUME NEW d \in DOMAIN drop_by_id' PROVE Free(asset_of(d))'
    <2>1. CASE d \in DOMAIN drop_by_id
      <3>1. Free(asset_of(d)) /\ SameKind(asset_of(d)', asset_of(d))
        BY <1>1, <2>1 DEF Priced, KindsStay
      <3> QED
        BY <3>1 DEF Free, SameKind
    <2> QED
      BY <1>1, <2>1 DEF Free
  <1>2. ASSUME NEW r \in DOMAIN receipts' PROVE PricedPromise(receipts[r])'
    <2>1. PICK receipt, d : receipt = receipts'[r] /\ d = parse_token_id(receipt.token_id)
      OBVIOUS
    <2>2. PricedPromise(receipt)
      BY <1>2, <2>1
    <2>3. ASSUME receipt.kind = "claim"
          PROVE  /\ d \in DOMAIN drop_by_id'
                 /\ receipt.promise.type = "near" =>
                       receipt.promise.deposits = <<only_metadata(drop_by_id'[d]).tokens_per_use>>
      <3>1. r \in claims'
        BY <1>2, <2>1, <2>3 DEF claims, is_claim
      <3>2. receipts'[r].token_id \in DOMAIN key_info_by_token_id'
        BY <3>1 DEF Held
      <3>3. d \in DOMAIN drop_by_id'
        BY <2>1, <3>2 DEF Inv, Current, Registry, Housed
      <3>4. /\ d \in DOMAIN drop_by_id
            /\ receipt.promise.type = "near" =>
                  receipt.promise.deposits = <<only_metadata(drop_by_id[d]).tokens_per_use>>
        BY <2>1, <2>2, <2>3 DEF PricedPromise
      <3>5. only_metadata(drop_by_id'[d]) = only_metadata(drop_by_id[d])
        BY <3>3, <3>4 DEF KindsStay
      <3> QED
        BY <3>3, <3>4, <3>5
    <2>4. receipt.kind = "nft_refund" => receipt.storage_released = NftBytes * Len(receipt.token_ids)
      BY <2>2 DEF PricedPromise
    <2>5. PricedPromise(receipt)'
      BY <2>1, <2>3, <2>4 DEF PricedPromise
    <2>6. PricedPromise(receipt)' => PricedPromise(receipts[r])'
      BY <2>1
    <2> QED
      BY <2>5, <2>6
  <1> QED
    BY <1>1, <1>2 DEF Priced

\* Steps that touch one drop and one promise, ...
LEMMA MovesPriced ==
    ASSUME Inv', Held', KindsStay, Priced, NearMoves
    PROVE  Priced'
  <1>1. PICK d, x, r : /\ AssetSet(d, x) /\ OnlyPromise(r)
                       /\ r \in DOMAIN receipts' => PricedPromise(receipts'[r])
    BY DEF NearMoves
  <1>2. \A s \in DOMAIN receipts' : PricedPromise(receipts'[s])
    BY <1>1 DEF OnlyPromise, Priced
  <1>3. DOMAIN drop_by_id' \ DOMAIN drop_by_id = {}
    BY <1>1 DEF AssetSet, SameDrops
  <1> QED
    BY <1>2, <1>3, PricedStays

\* ... and those that create drops, whose assets are chosen by their funders.
LEMMA CreationPriced ==
    ASSUME OneAsset, FreeTransfers, Inv, Inv', Held', KindsStay, Priced, Creates
    PROVE  Priced'
  <1>1. DropsCome
    BY CreationAddsDrops
  <1>2. \A r \in DOMAIN receipts' : PricedPromise(receipts'[r])
    BY <1>1 DEF DropsCome, Priced
  <1>3. ASSUME NEW d \in DOMAIN drop_by_id' \ DOMAIN drop_by_id
        PROVE  Free(asset_of(d)')
    <2>1. PICK shape \in Shapes :
             HandsOut(drop_by_id'[d], asset_by_id'[d], shape.asset_data[1].assets[1])
      BY <1>1, <1>3 DEF DropsCome
    <2>2. asset_of(d)' = to_internal_asset(shape.asset_data[1].assets[1])
      BY <2>1 DEF HandsOut, asset_of, asset_id_of
    <2>3. to_internal_asset(shape.asset_data[1].assets[1]).type = shape.asset_data[1].assets[1].type
      BY DEF to_internal_asset
    <2>4. Free(shape.asset_data[1].assets[1])
      BY DEF FreeTransfers
    <2> QED
      BY <2>2, <2>3, <2>4 DEF Free
  <1> QED
    BY <1>2, <1>3, PricedStays

\* Keys come and go without drops or promises.
LEMMA KeysPriced ==
    ASSUME Inv', Held', KindsStay, Priced, SomeKeysAdded \/ SomeKeysDeleted
    PROVE  Priced'
  <1>1. UNCHANGED receipts /\ DOMAIN drop_by_id' \ DOMAIN drop_by_id = {}
    <2>1. CASE SomeKeysAdded
      BY <2>1 DEF SomeKeysAdded, AddKeys
    <2>2. CASE SomeKeysDeleted
      <3>1. PICK caller \in Accounts, pks \in SUBSET DOMAIN token_id_by_pk :
               \E d, keep_empty_drop : DeleteKeys(caller, d, pks, keep_empty_drop)
        BY <2>2 DEF SomeKeysDeleted
      <3>2. UNCHANGED receipts /\ \E d : UNCHANGED drop_by_id \/ drop_by_id' = Without(drop_by_id, {d})
        BY <3>1 DEF DeleteKeys
      <3> QED
        BY <3>2 DEF Without, Restrict
    <2> QED
      BY <2>1, <2>2
  <1>2. \A r \in DOMAIN receipts' : PricedPromise(receipts'[r])
    BY <1>1 DEF Priced
  <1> QED
    BY <1>1, <1>2, PricedStays

\* So the calls on drops leave promises priced.
LEMMA DropCallPriced ==
    ASSUME OneAsset, FreeTransfers, Inv, Inv', Held', KindsStay, Priced,
           NEW caller \in Accounts, DropCall(caller)
    PROVE  Priced'
  <1>1. Creates \/ SomeKeysAdded \/ SomeKeysDeleted
    BY DEF DropCall, Creates, SomeDropCreated, SomeBatchCreated, SomeKeysAdded, SomeKeysDeleted
  <1> QED
    BY <1>1, CreationPriced, KeysPriced

\* Every step pays for the stakes it adds, and leaves promises priced.
LEMMA StepPays ==
    ASSUME OneAsset, FreeTransfers, Books, Books', Staked, Staked', KindsStay, Priced, [Next]_vars
    PROVE  Paid /\ Priced'
  <1>1. Inv /\ Inv' /\ Held'
    BY DEF Books, Kept
  <1>2. ASSUME NearMoves PROVE Paid /\ Priced'
    BY <1>1, <1>2, NearMoved, MovesPriced
  <1>3. CASE FunderStep
    <2>1. ASSUME NEW caller \in Accounts, DropCall(caller) PROVE Paid /\ Priced'
      BY <1>1, <2>1, DropCallsPaid, DropCallPriced
    <2>2. ASSUME NEW caller \in Accounts, BalanceCall(caller) PROVE Paid /\ Priced'
      BY <1>2, <2>2, BalanceCallNear
    <2> QED
      BY <1>3, <2>1, <2>2 DEF FunderStep
  <1>4. CASE ClaimStep
    BY <1>2, <1>4, ClaimStepNear
  <1>5. CASE TokenStep
    BY <1>2, <1>5, TokenStepNear
  <1>6. CASE KeyStep
    <2>1. SomeTransfer \/ SomeApproval
      BY <1>6 DEF KeyStep, SomeTransfer, SomeApproval, NftTransfer, NftTransferPayout
    <2> QED
      BY <1>2, <2>1, OtherStepNear
  <1>7. CASE \E r \in DOMAIN receipts : Callback(r)
    BY <1>2, <1>7, CallbackNear
  <1>8. CASE OwnerStep
    <2>1. SettingsStep \/ WithdrawFees
      BY <1>8 DEF OwnerStep, SettingsStep
    <2> QED
      BY <1>2, <2>1, OtherStepNear
  <1>9. CASE AdminStep
    <2>1. SettingsStep
      BY <1>9 DEF AdminStep, SettingsStep
    <2> QED
      BY <1>2, <2>1, OtherStepNear
  <1>10. CASE Tick \/ UNCHANGED vars
    BY <1>2, <1>10, OtherStepNear
  <1> QED
    BY <1>3, <1>4, <1>5, <1>6, <1>7, <1>8, <1>9, <1>10 DEF Next

-----------------------------------------------------------------------------
(* The stakes are covered in every reachable state.                        *)

\* The invariants of the other modules, together.
LEMMA NextBooks == OneAsset => (Books /\ [Next]_vars => Books')
  <1> SUFFICES ASSUME OneAsset, Books, [Next]_vars PROVE Books'
    OBVIOUS
  <1>1. Inv /\ FinitelyMany
    BY DEF Books, Kept
  <1>2. Kept'
    BY NextKept DEF Books
  <1>3. FeeInv'
    BY FeesStep DEF Books
  <1>4. Recorded'
    BY <1>1, StepBooks, RecordedStep DEF Books
  <1>5. HoldingsTyped' /\ SettingsTyped'
    BY <1>1, HoldingsStayTyped, SettingsStayTyped DEF Books
  <1> QED
    BY <1>2, <1>3, <1>4, <1>5 DEF Books

\* They hold at first.
LEMMA InitBooks == Init => Books
  BY InitKept, InitFees, InitRecorded, InitTyped DEF Books

\* At first nobody has a stake.
LEMMA InitNear ==
    ASSUME IsFiniteSet(Accounts)
    PROVE  Init => NearCovered /\ Priced
  <1> SUFFICES ASSUME Init PROVE NearCovered /\ Priced
    OBVIOUS
  <1>1. DropStakes = [d \in {} |-> drop_stake(d)] /\ KeyStakes = [t \in {} |-> key_stake(t)]
        /\ PromiseStakes = [r \in {} |-> promise_stake(r)]
    BY DEF Init, EmptyMap, DropStakes, KeyStakes, PromiseStakes
  <1>2. SumFunction(DropStakes) = 0 /\ SumFunction(KeyStakes) = 0 /\ SumFunction(PromiseStakes) = 0
    BY <1>1, SumZero, FS_EmptySet DEF SumFunction
  <1>3. unwrap_or(None, 0) = 0 /\ MetadataBytes * 0 = 0
    <2>1. MetadataBytes \in Nat
      BY StorageAssumption
    <2> QED
      BY <2>1 DEF unwrap_or
  <1>4. \A a \in Accounts : funder_stake(a) = 0
    BY <1>3 DEF Init, funder_stake
  <1>5. SumFunction(FunderStakes) = 0
    BY <1>4, SumZero DEF FunderStakes, SumFunction
  <1>6. fees_collected = 0 /\ vault = 0
    BY DEF Init
  <1>7. NearCovered
    BY <1>2, <1>5, <1>6 DEF NearCovered, Stakes
  <1>8. Priced
    BY DEF Init, EmptyMap, Priced
  <1> QED
    BY <1>7, <1>8

\* A step that pays keeps the stakes covered.
LEMMA PaidCovers ==
    Staked /\ Staked' /\ Books /\ Books' /\ Paid /\ NearCovered => NearCovered'
  <1> SUFFICES ASSUME Staked, Staked', Books, Books', Paid, NearCovered PROVE NearCovered'
    OBVIOUS
  <1>1. StakesSummed /\ StakesSummed'
    BY StakesAreSums, PTL
  <1>2. fees_collected \in Nat /\ fees_collected' \in Nat /\ vault \in Nat /\ vault' \in Nat
    BY DEF Books, HoldingsTyped, FeeInv
  <1>3. Stakes \in Nat /\ Stakes' \in Nat
    BY <1>1, <1>2 DEF Stakes, StakesSummed
  <1>4. Stakes' <= vault'
    <2>1. PICK s \in Nat, v \in Nat : s = Stakes' /\ v = vault'
      BY <1>2, <1>3
    <2>2. s + vault <= Stakes + v /\ Stakes <= vault
      BY <2>1 DEF Paid, NearCovered
    <2>3. vault \in Nat /\ Stakes \in Nat
      BY <1>2, <1>3
    <2>4. s <= v
      BY <2>2, <2>3
    <2> QED
      BY <2>1, <2>4
  <1> QED
    BY <1>4 DEF NearCovered

\* In every reachable state the stakes are covered, ...
LEMMA NearCoveredAlways ==
    ASSUME OneAsset, FreeTransfers, IsFiniteSet(Accounts)
    PROVE  Spec => [](Books /\ NearCovered /\ Priced)
  <1> DEFINE I == Books /\ NearCovered /\ Priced
  <1>1. Init => I
    BY InitBooks, InitNear
  <1>2. Books => Staked
    BY BooksAreStaked
  <1>3. Books /\ [Next]_vars => Books'
    BY NextBooks
  <1>4. Books' => Staked'
    BY <1>2, PTL
  <1>5. I /\ [Next]_vars => I'
    <2> SUFFICES ASSUME I, [Next]_vars PROVE I'
      OBVIOUS
    <2>1. Books' /\ Staked /\ Staked'
      BY <1>2, <1>3, <1>4
    <2>2. KindsStay
      BY <2>1, NextKindsStay DEF Books, Kept
    <2>3. Paid /\ Priced'
      BY <2>1, <2>2, StepPays
    <2> QED
      BY <2>1, <2>3, PaidCovers
  <1> QED
    BY <1>1, <1>5, PTL DEF Spec

-----------------------------------------------------------------------------
(* What is owed is part of the stakes.                                     *)

\* The accounts' balances and the storage of their metadata.
LEMMA FundersOwed ==
    ASSUME Books, Staked
    PROVE  LET metadata == MetadataBytes * SumFunction([a \in Accounts |-> unwrap_or(funder_metadata[a], 0)])
           IN  /\ SumFunction(FunderStakes) = SumFunction(user_balance) + metadata
               /\ SumFunction(user_balance) \in Nat /\ metadata \in Nat
  <1> DEFINE sizes == [a \in Accounts |-> unwrap_or(funder_metadata[a], 0)]
             bytes == [a \in Accounts |-> MetadataBytes * unwrap_or(funder_metadata[a], 0)]
  <1>1. /\ DOMAIN user_balance = Accounts /\ IsFiniteSet(Accounts)
        /\ \A a \in Accounts : user_balance[a] \in Nat /\ unwrap_or(funder_metadata[a], 0) \in Nat
    BY OptionAmounts DEF Books, HoldingsTyped, SettingsTyped, Staked, Amounts, FunderStakes
  <1>2. \A a \in Accounts : MetadataBytes * unwrap_or(funder_metadata[a], 0) \in Nat
    BY <1>1, Products, StorageAssumption
  <1>3. /\ SumFunction(FunderStakes) = SumFunction(user_balance) + SumFunction(bytes)
        /\ SumFunction(user_balance) \in Nat /\ SumFunction(bytes) \in Nat
    <2>1. Amounts(user_balance) /\ Amounts(bytes)
      BY <1>1, <1>2 DEF Amounts
    <2>2. \A a \in Accounts : FunderStakes[a] = user_balance[a] + bytes[a]
      BY DEF FunderStakes, funder_stake
    <2>3. DOMAIN bytes = Accounts /\ DOMAIN FunderStakes = Accounts
      BY DEF FunderStakes
    <2> HIDE DEF bytes
    <2> QED
      BY <1>1, <2>1, <2>2, <2>3, SumAdded, SumOfAmounts
  <1>4. SumFunction(bytes) = MetadataBytes * SumFunction(sizes)
    <2>1. MetadataBytes \in Nat
      BY StorageAssumption
    <2>2. \A a \in Accounts : sizes[a] \in Nat /\ bytes[a] = MetadataBytes * sizes[a]
      BY <1>1
    <2>3. DOMAIN bytes = Accounts /\ DOMAIN sizes = Accounts
      OBVIOUS
    <2> HIDE DEF bytes, sizes
    <2>4. SumFunctionOnSet(bytes, Accounts) = MetadataBytes * SumFunctionOnSet(sizes, Accounts)
      BY <1>1, <2>1, <2>2, SumScaled
    <2> QED
      BY <2>3, <2>4 DEF SumFunction
  <1> QED
    BY <1>3, <1>4

\* The storage of the drops and of the NFTs they have.
LEMMA DropsOwed ==
    ASSUME Books, Staked
    PROVE  LET drops == Cardinality(DOMAIN drop_by_id) * DropBytes
               nfts_held == SumFunction([d \in DOMAIN asset_by_id |-> nft_bytes(asset_by_id[d])])
           IN  SumFunction(DropStakes) = drops + nfts_held /\ drops \in Nat /\ nfts_held \in Nat
  <1> DEFINE each == [d \in DOMAIN asset_by_id |-> DropBytes]
             bytes == [d \in DOMAIN asset_by_id |-> nft_bytes(asset_by_id[d])]
  <1>1. DOMAIN asset_by_id = DOMAIN drop_by_id /\ IsFiniteSet(DOMAIN drop_by_id)
    BY DEF Books, Kept, Inv, FinitelyMany
  <1>2. \A d \in DOMAIN asset_by_id : /\ nft_bytes(asset_by_id[d]) = ids_stake(asset_of(d))
                                      /\ nft_bytes(asset_by_id[d]) \in Nat
    BY <1>1, BooksKnowCosts DEF CostsKnown, Staked
  <1>3. DropBytes \in Nat
    BY StorageAssumption
  <1>4. Amounts(each) /\ Amounts(bytes)
    BY <1>1, <1>2, <1>3 DEF Amounts
  <1>5. \A d \in DOMAIN asset_by_id : DropStakes[d] = each[d] + bytes[d]
    BY <1>2 DEF DropStakes, drop_stake
  <1>6. /\ DOMAIN DropStakes = DOMAIN asset_by_id /\ DOMAIN each = DOMAIN asset_by_id
        /\ DOMAIN bytes = DOMAIN asset_by_id
    BY DEF DropStakes
  <1>7. \A d \in DOMAIN asset_by_id : each[d] = DropBytes
    OBVIOUS
  <1> HIDE DEF each, bytes
  <1>8. /\ SumFunction(DropStakes) = SumFunction(each) + SumFunction(bytes)
        /\ SumFunction(each) \in Nat /\ SumFunction(bytes) \in Nat
    BY <1>4, <1>5, <1>6, SumAdded, SumOfAmounts
  <1>9. SumFunction(each) = Cardinality(DOMAIN drop_by_id) * DropBytes
    BY <1>1, <1>3, <1>6, <1>7, SumConstant DEF SumFunction
  <1> QED
    BY <1>8, <1>9 DEF bytes

\* As many keys have a use left as have a public key.
LEMMA UsableKeysCounted ==
    ASSUME Inv, FinitelyMany
    PROVE  Cardinality({t \in DOMAIN key_info_by_token_id : usable(t)}) = Cardinality(DOMAIN token_id_by_pk)
  <1> DEFINE listed == {t \in DOMAIN key_info_by_token_id : usable(t)}
  <1>1. IsFiniteSet(DOMAIN token_id_by_pk)
    BY KeysAreFinite
  <1>2. token_id_by_pk \in Bijection(DOMAIN token_id_by_pk, listed)
    BY DEF Inv, Current, Registry, Typed, IsMap, Linked, usable, Bijection, Injection, Surjection,
           IsInjective
  <1>3. ExistsBijection(DOMAIN token_id_by_pk, listed)
    BY <1>2 DEF ExistsBijection
  <1> QED
    BY <1>1, <1>3, FS_Bijection

\* The storage of the keys and of their public keys, and the uses they have left.
LEMMA KeysOwed ==
    ASSUME Books, Staked
    PROVE  LET infos == Cardinality(DOMAIN key_info_by_token_id) * KeyBytes
               pks == Cardinality(DOMAIN token_id_by_pk) * PkBytes
           IN  /\ SumFunction(KeyStakes) = infos + pks + KeyEscrow
               /\ infos \in Nat /\ pks \in Nat /\ KeyEscrow \in Nat
  <1> DEFINE keys == DOMAIN key_info_by_token_id
             escrow(t) == get_total_costs_for_key(key_info_by_token_id[t].remaining_uses,
                              asset_by_id[parse_token_id(t)],
                              drop_by_id[parse_token_id(t)].asset_data_for_uses)
             spent == [t \in {u \in keys : ~usable(u)} |-> 0]
             infos == [t \in keys |-> KeyBytes]
             pks == [t \in keys |-> IF usable(t) THEN PkBytes ELSE 0]
             storage == [t \in keys |-> IF usable(t) THEN KeyBytes + PkBytes ELSE KeyBytes]
             uses == [t \in keys |-> escrow(t)]
  <1>1. IsFiniteSet(keys) /\ Inv /\ FinitelyMany
    BY KeysAreFinite DEF Books, Kept
  <1>2. KeyBytes \in Nat /\ PkBytes \in Nat
    BY StorageAssumption
  <1>3. ASSUME NEW t \in keys
        PROVE  /\ escrow(t) = IF usable(t) THEN use_cost(parse_token_id(t)) ELSE 0
               /\ escrow(t) \in Nat
               /\ KeyStakes[t] = storage[t] + escrow(t)
    <2>1. /\ parse_token_id(t) \in DOMAIN drop_by_id
          /\ key_info_by_token_id[t].remaining_uses <= drop_by_id[parse_token_id(t)].max_key_uses
          /\ key_info_by_token_id[t].remaining_uses \in Nat
      BY <1>1, <1>3 DEF Inv, Current, Registry, Housed, Typed, IsMap, KeyInfo
    <2>2. /\ drop_by_id[parse_token_id(t)].max_key_uses = 1 /\ use_cost(parse_token_id(t)) \in Nat
          /\ get_total_costs_for_key(1, asset_by_id[parse_token_id(t)],
                 drop_by_id[parse_token_id(t)].asset_data_for_uses) = use_cost(parse_token_id(t))
          /\ get_total_costs_for_key(0, asset_by_id[parse_token_id(t)],
                 drop_by_id[parse_token_id(t)].asset_data_for_uses) = 0
      BY <2>1, BooksKnowCosts DEF CostsKnown
    <2>3. key_info_by_token_id[t].remaining_uses = IF usable(t) THEN 1 ELSE 0
      BY <2>1, <2>2 DEF usable
    <2>4. escrow(t) = IF usable(t) THEN use_cost(parse_token_id(t)) ELSE 0
      BY <2>2, <2>3
    <2>5. KeyStakes[t] = KeyBytes + IF usable(t) THEN PkBytes + use_cost(parse_token_id(t)) ELSE 0
      BY <1>3, <2>3 DEF KeyStakes, key_stake, stake_of_key
    <2> QED
      BY <1>2, <1>3, <2>2, <2>4, <2>5
  <1>4. Amounts(spent) /\ Amounts(infos) /\ Amounts(pks) /\ Amounts(storage) /\ Amounts(uses)
    BY <1>1, <1>2, <1>3, FS_Subset DEF Amounts
  <1>5. SumFunction(KeyStakes) = SumFunction(storage) + SumFunction(uses)
    <2>1. DOMAIN uses = keys /\ DOMAIN storage = keys /\ DOMAIN KeyStakes = keys
      BY DEF KeyStakes
    <2>2. \A t \in keys : KeyStakes[t] = storage[t] + uses[t]
      BY <1>3
    <2> HIDE DEF storage, uses, keys
    <2> QED
      BY <1>4, <2>1, <2>2, SumAdded
  <1>6. SumFunction(storage) = SumFunction(infos) + SumFunction(pks)
    <2>1. DOMAIN infos = keys /\ DOMAIN pks = keys /\ DOMAIN storage = keys
      OBVIOUS
    <2>2. \A t \in keys : storage[t] = infos[t] + pks[t]
      BY <1>2
    <2> HIDE DEF infos, pks, storage, keys
    <2> QED
      BY <1>4, <2>1, <2>2, SumAdded
  <1>7. SumFunction(infos) = Cardinality(keys) * KeyBytes
    <2>1. DOMAIN infos = keys /\ \A t \in keys : infos[t] = KeyBytes
      OBVIOUS
    <2> HIDE DEF infos, keys
    <2> QED
      BY <1>1, <1>2, <2>1, SumConstant DEF SumFunction
  <1>8. SumFunction(pks) = Cardinality(DOMAIN token_id_by_pk) * PkBytes
    <2>1. DOMAIN pks \ DOMAIN spent = {t \in keys : usable(t)} /\ DOMAIN spent \subseteq DOMAIN pks
      OBVIOUS
    <2>2. /\ \A t \in DOMAIN spent : spent[t] = pks[t]
          /\ \A t \in DOMAIN pks \ DOMAIN spent : pks[t] = PkBytes
      OBVIOUS
    <2>3. SumFunction(spent) = 0
      <3>1. \A t \in DOMAIN spent : spent[t] = 0
        OBVIOUS
      <3> HIDE DEF spent
      <3> QED
        BY <1>4, <3>1, SumZero DEF SumFunction, Amounts
    <2>4. Cardinality(DOMAIN pks \ DOMAIN spent) = Cardinality(DOMAIN token_id_by_pk)
      BY <1>1, <2>1, UsableKeysCounted
    <2> HIDE DEF spent, pks
    <2>5. SumFunction(pks) = SumFunction(spent) + Cardinality(DOMAIN pks \ DOMAIN spent) * PkBytes
      BY <1>2, <1>4, <2>1, <2>2, SumGrown
    <2>6. Cardinality(DOMAIN token_id_by_pk) * PkBytes \in Nat
      <3>1. Cardinality(DOMAIN token_id_by_pk) \in Nat
        BY <1>1, KeysAreFinite, FS_CardinalityType
      <3> QED
        BY <1>2, <3>1, Products
    <2> QED
      BY <2>3, <2>4, <2>5, <2>6
  <1>9. SumFunction(infos) \in Nat /\ SumFunction(pks) \in Nat /\ SumFunction(uses) \in Nat
    <2> HIDE DEF infos, pks, uses
    <2> QED
      BY <1>4, SumOfAmounts
  <1> QED
    BY <1>5, <1>6, <1>7, <1>8, <1>9 DEF KeyEscrow

\* What a use hands out that waits for its account was charged for it.
LEMMA EscrowCharged ==
    ASSUME Books, NEW receipt, parse_token_id(receipt.token_id) \in DOMAIN drop_by_id
    PROVE  EscrowOf(receipt) \in Nat /\ EscrowOf(receipt) <= use_cost(parse_token_id(receipt.token_id))
  <1> DEFINE d == parse_token_id(receipt.token_id)
             data == drop_by_id[d].asset_data_for_uses
             use == get_asset_data_for_specific_use(data, receipt.use)
  <1>1. StockedWith(drop_by_id[d], asset_by_id[d])
    BY DEF Books, Kept, Stocked
  <1>2. data = <<only_use(drop_by_id[d])>>
    BY <1>1 DEF StockedWith
  <1>3. use = EmptyAssetData \/ use = only_use(drop_by_id[d])
    <2>1. ToSet(data) = {only_use(drop_by_id[d])} /\ data \in Seq(ToSet(data))
      BY <1>2 DEF ToSet
    <2> HIDE DEF data
    <2> QED
      BY <2>1, GroupOfUse
  <1>4. AssetTyped(asset_by_id[d][only_metadata(drop_by_id[d]).asset_id])
    BY <1>1, DropRecords DEF Books, RecordsTyped, StockedWith
  <1>5. /\ use_cost(d) \in Nat
        /\ cost_of_use(asset_by_id[d], only_use(drop_by_id[d]).assets_metadata) = use_cost(d)
    BY <1>1, <1>4, CostOfStocked DEF use_cost, asset_of, asset_id_of
  <1>6. cost_of_use(asset_by_id[d], EmptyAssetData.assets_metadata) = 0
    <2> DEFINE metadata == << >>
               f == [i \in DOMAIN metadata |->
                        get_yocto_refund_amount(asset_by_id[d][metadata[i].asset_id],
                                                metadata[i].tokens_per_use)]
    <2>1. DOMAIN f = {}
      OBVIOUS
    <2>2. SumFunction(f) = 0
      <3> HIDE DEF f
      <3> QED
        BY <2>1, SumEmpty DEF SumFunction
    <2> QED
      BY <2>2 DEF cost_of_use, EmptyAssetData
  <1>7. EscrowOf(receipt) = cost_of_use(asset_by_id[d], use.assets_metadata)
    BY DEF EscrowOf
  <1> HIDE DEF use, d
  <1>8. EscrowOf(receipt) \in Nat /\ EscrowOf(receipt) <= use_cost(d)
    BY <1>3, <1>5, <1>6, <1>7
  <1> QED
    BY <1>8 DEF d

\* The storage of the NFTs that are withdrawn, and the uses that wait for an account.
LEMMA PromisesOwed ==
    ASSUME Books, Staked
    PROVE  /\ SumFunction([r \in {s \in DOMAIN receipts : receipts[s].kind = "nft_refund"} |->
                              receipts[r].storage_released])
              + AccountEscrow <= SumFunction(PromiseStakes)
           /\ AccountEscrow \in Nat
           /\ SumFunction([r \in {s \in DOMAIN receipts : receipts[s].kind = "nft_refund"} |->
                              receipts[r].storage_released]) \in Nat
  <1> DEFINE all == DOMAIN receipts
             refunds == {s \in all : receipts[s].kind = "nft_refund"}
             accounts == {s \in all : receipts[s].kind = "create_account" /\ callback_finds_key(s)}
             released == [r \in refunds |-> receipts[r].storage_released]
             escrow == [r \in accounts |-> EscrowOf(receipts[r])]
             released_of == [r \in all |-> IF r \in refunds THEN receipts[r].storage_released ELSE 0]
             escrow_of == [r \in all |-> IF r \in accounts THEN EscrowOf(receipts[r]) ELSE 0]
             both == [r \in all |-> released_of[r] + escrow_of[r]]
  <1>1. IsFiniteSet(all) /\ IsFiniteSet(refunds) /\ IsFiniteSet(accounts)
    BY FS_Subset DEF Books, Kept, FinitelyMany
  <1>2. \A r \in refunds : receipts[r].storage_released \in Nat
    BY DEF Books, Recorded, ReceiptTyped
  <1>3. \A r \in accounts : /\ EscrowOf(receipts[r]) \in Nat
                            /\ EscrowOf(receipts[r]) <= use_cost(parse_token_id(receipts[r].token_id))
    BY EscrowCharged DEF callback_finds_key
  <1>4. /\ Amounts(released) /\ Amounts(escrow)
        /\ Amounts(released_of) /\ Amounts(escrow_of) /\ Amounts(both)
    BY <1>1, <1>2, <1>3 DEF Amounts
  <1>5. \A r \in all : both[r] <= PromiseStakes[r]
    <2> SUFFICES ASSUME NEW r \in all PROVE both[r] <= PromiseStakes[r]
      OBVIOUS
    <2>1. PromiseStakes[r] = stake_of(receipts[r]) /\ PromiseStakes[r] \in Nat
      BY DEF PromiseStakes, promise_stake, Staked
    <2>2. CASE r \in refunds
      <3>1. both[r] = receipts[r].storage_released
        BY <1>2, <2>2
      <3> QED
        BY <1>2, <2>1, <2>2, <3>1 DEF stake_of
    <2>3. CASE r \in accounts
      <3>1. both[r] = EscrowOf(receipts[r])
        BY <1>3, <2>3
      <3> QED
        BY <1>3, <2>1, <2>3, <3>1 DEF stake_of
    <2>4. CASE r \notin refunds /\ r \notin accounts
      <3>1. both[r] = 0
        BY <2>4
      <3> QED
        BY <2>1, <3>1
    <2> QED
      BY <2>2, <2>3, <2>4
  <1>6. SumFunction(released_of) = SumFunction(released) /\ SumFunction(escrow_of) = SumFunction(escrow)
    <2>1. /\ DOMAIN released \subseteq DOMAIN released_of /\ DOMAIN escrow \subseteq DOMAIN escrow_of
          /\ \A r \in DOMAIN released : released[r] = released_of[r]
          /\ \A r \in DOMAIN escrow : escrow[r] = escrow_of[r]
          /\ \A r \in DOMAIN released_of \ DOMAIN released : released_of[r] = 0
          /\ \A r \in DOMAIN escrow_of \ DOMAIN escrow : escrow_of[r] = 0
      OBVIOUS
    <2> HIDE DEF released, released_of, escrow, escrow_of
    <2> QED
      BY <1>4, <2>1, SumExtended
  <1>7. SumFunction(both) = SumFunction(released_of) + SumFunction(escrow_of)
    <2>1. /\ DOMAIN released_of = all /\ DOMAIN escrow_of = all /\ DOMAIN both = all
          /\ \A r \in all : both[r] = released_of[r] + escrow_of[r]
      OBVIOUS
    <2> HIDE DEF all, released_of, escrow_of, both
    <2> QED
      BY <1>4, <2>1, SumAdded
  <1>8. SumFunction(both) <= SumFunction(PromiseStakes)
    <2>1. DOMAIN both = all /\ DOMAIN PromiseStakes = all
      BY DEF PromiseStakes
    <2>2. Amounts(PromiseStakes)
      BY DEF Staked
    <2> HIDE DEF both, all
    <2> QED
      BY <1>1, <1>4, <1>5, <2>1, <2>2, SumMonotone DEF SumFunction, Amounts
  <1>9. SumFunction(released) \in Nat /\ SumFunction(escrow) \in Nat
    <2> HIDE DEF released, escrow
    <2> QED
      BY <1>4, SumOfAmounts
  <1>10. AccountEscrow = SumFunction(escrow)
    BY DEF AccountEscrow
  <1> HIDE DEF released, escrow, both, released_of, escrow_of
  <1>11. SumFunction(released) + AccountEscrow <= SumFunction(PromiseStakes)
    BY <1>6, <1>7, <1>8, <1>9, <1>10
  <1> QED
    BY <1>9, <1>10, <1>11 DEF released

\* The stakes are what is owed, and more.
LEMMA StakesAreOwed ==
    ASSUME Books, Staked
    PROVE  /\ Credits + StorageStake + KeyEscrow + AccountEscrow <= Stakes
           /\ Credits + StorageStake + KeyEscrow + AccountEscrow \in Nat /\ Stakes \in Nat
  <1> DEFINE balances == SumFunction(user_balance)
             metadata == MetadataBytes * SumFunction([a \in Accounts |-> unwrap_or(funder_metadata[a], 0)])
             drops == Cardinality(DOMAIN drop_by_id) * DropBytes
             nfts_held == SumFunction([d \in DOMAIN asset_by_id |-> nft_bytes(asset_by_id[d])])
             infos == Cardinality(DOMAIN key_info_by_token_id) * KeyBytes
             pks == Cardinality(DOMAIN token_id_by_pk) * PkBytes
             released == SumFunction([r \in {s \in DOMAIN receipts : receipts[s].kind = "nft_refund"} |->
                                         receipts[r].storage_released])
  <1>1. SumFunction(FunderStakes) = balances + metadata
    BY FundersOwed
  <1>2. SumFunction(DropStakes) = drops + nfts_held
    BY DropsOwed
  <1>3. SumFunction(KeyStakes) = infos + pks + KeyEscrow
    BY KeysOwed
  <1>4. released + AccountEscrow <= SumFunction(PromiseStakes)
        /\ released \in Nat /\ AccountEscrow \in Nat
    BY PromisesOwed
  <1>5. Credits = balances + fees_collected
    BY DEF Credits
  <1>6. StorageStake = drops + infos + pks + nfts_held + released + metadata
    BY DEF StorageStake
  <1>7. /\ balances \in Nat /\ metadata \in Nat /\ drops \in Nat /\ nfts_held \in Nat
        /\ infos \in Nat /\ pks \in Nat /\ KeyEscrow \in Nat /\ fees_collected \in Nat
        /\ SumFunction(PromiseStakes) \in Nat
    BY FundersOwed, DropsOwed, KeysOwed, StakesAreSums DEF StakesSummed, Books, FeeInv
  <1> HIDE DEF balances, metadata, drops, nfts_held, infos, pks, released
  <1> QED
    BY <1>1, <1>2, <1>3, <1>4, <1>5, <1>6, <1>7 DEF Stakes

\* At all times the contract has the NEAR it owes: the funders' balances, the
\* fees, the storage it will refund, and what the uses that are left on the keys
\* or wait for their account will hand out.  Whatever is called in whatever
\* order, and whichever promises fail, no refund is paid twice and nothing is
\* handed out that was not paid for, where a use hands out one asset and the
\* transfers of tokens take no NEAR that nobody was charged for.
THEOREM NearBackedHolds ==
    ASSUME OneAsset, FreeTransfers, IsFiniteSet(Accounts)
    PROVE  Spec => []NearBacked
  <1>1. Books /\ NearCovered => NearBacked
    <2> SUFFICES ASSUME Books, NearCovered PROVE NearBacked
      OBVIOUS
    <2>1. Staked
      BY BooksAreStaked
    <2>2. /\ Credits + StorageStake + KeyEscrow + AccountEscrow <= Stakes
          /\ Credits + StorageStake + KeyEscrow + AccountEscrow \in Nat /\ Stakes \in Nat
      BY <2>1, StakesAreOwed
    <2>3. vault \in Nat
      BY DEF Books, HoldingsTyped
    <2> QED
      BY <2>2, <2>3 DEF NearCovered, NearBacked
  <1> QED
    BY <1>1, NearCoveredAlways, PTL

=============================================================================
