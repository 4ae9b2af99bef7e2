# Verification of the Keypom contract

TLA+ models of the smart contract under `contract/src` (Rust, NEAR), the TLC
instances that check them and the theorems TLAPS proves about them.

A **funder** creates a *drop*: a list of groups of uses, each with the assets
(FTs, NFTs, NEAR, function calls) that one use hands out. A drop has *keys*; a
key can be used a fixed number of times, by whoever can sign with it, to claim
the assets for an existing account (`claim`) or for one that is created on the
way (`create_account_and_claim`). Keys are NFTs: they have owners, can be
transferred and approved. The funder pays NEAR for storage, fees and assets in
advance, from the attached deposit or a balance kept in the contract, and gets
it back when keys or drops are deleted or claims fail.

NEAR runs one receipt at a time. A call that panics leaves the state as it was,
but promises it *fired in an earlier receipt* stay fired. So an entry point is
one atomic step, and all concurrency is between the receipts of one operation
(call, promise, callback) and everything else that runs in between. That is
where the interesting behaviour lies.

## Inventory

| component | source (under `contract/src`) | state | operations | modelled in |
|---|---|---|---|---|
| assets, uses, costs | `models/`, `helpers.rs`, `drop_creation/helpers.rs` | `InternalAsset`, `InternalAssetDataForUses` | which assets a use has, what it costs, claim and failed claim of one asset | `KeypomAssets` |
| function-call assets | `assets/function_call`, `helpers.rs` | stored methods | the claimer's arguments, markers, injected fields; the chain of calls of a claim | `FunctionCalls`, `KeypomAssets` (partly) |
| contract state, balances | `lib.rs`, `funder_info.rs` | five maps, `FunderInfo` | charge, credit, `add_to_balance`, `withdraw_from_balance` | `KeypomState`, `KeypomTreasury` (partly) |
| funder metadata | `funder_info.rs` | `FunderInfo.metadata` | `set_funder_metadata`, metadata of a batch | `KeypomState`, `KeypomTreasury` |
| drop creation and deletion | `drop_creation/`, `drop_deletion.rs` | drops, keys | `create_drop`, `create_drop_batch`, `add_keys`, `delete_keys` | `KeypomDrops` |
| claims | `drop_claiming/` | remaining uses, assets | `claim`, `create_account_and_claim`, `on_new_account_created`, `on_assets_claimed` | `KeypomClaims` |
| FT and NFT assets | `assets/ft_asset`, `assets/nft_asset` | `balance_avail`, `token_ids` | deposits, withdrawals, their callbacks | `KeypomTokens` |
| keys as NFTs | `nft_keys/internal.rs`, `nft_core.rs`, `approval.rs` | owner, public key, approvals | `nft_transfer`, `nft_transfer_payout`, `nft_approve` | `KeypomKeys` (partly) |
| royalties and payouts | `nft_keys/royalty.rs` | `royalties` of a drop | what a sale is split into, and when that panics | `KeypomKeys` |
| contract owner | `owner.rs` | freeze switch, fees, root account | `freeze_contract`, `unfreeze_contract`, `set_root_account`, `set_fees`, `set_fees_per_user`, `withdraw_fees`, `on_withdraw_fees` | `KeypomTreasury` |
| signing administrators | `lib.rs` | `signing_pks`, `signing_admin_ids` | `add_signing_admin`, `add_signing_pks`, `remove_signing_pks` | `KeypomTreasury` |
| signatures and nonces | `lib.rs` | `message_nonce` | `verify_signature` | `KeypomClaims`, `KeypomKeys` (the nonce) |
| views, enumeration | `views/`, `nft_keys/enumeration.rs`, `nft_core.rs` | none | lists and previews of keys, drops, funders | `KeypomViews` (partly) |
| events, gas, tests, scripts | `internals/`, `integration-tests`, `deploy` | none | | not modelled |

How they interact. Every operation goes through the maps of `lib.rs` and the
funder's balance. A claim reads the drop, spends a use, fires promises to token
contracts or to the root account, and its callback writes the drop, the key,
the assets and the balance again. Token contracts call `ft_on_transfer` and
`nft_on_transfer`. Withdrawals fire transfers with a callback of their own.
`delete_keys`, transfers, freezing and the passing of time come in between.

What is hard here:

- state read after a promise returns that something else changed: the key, the
  drop, the number of uses left;
- partial failure: several promises of one use, of which some fail;
- the five maps that have to name the same keys and drops, and do not while a
  claim of a last use is in flight;
- money: each NEAR and token is in exactly one of balance, escrow of keys,
  storage, promise in flight;
- boundaries of the time intervals, and amounts that overflow.

`PROJECT.json` lists these hazards line by line with the properties aimed at
them.

## The modules

    FunctionCalls     what a claim calls and with which arguments (pure)
      KeypomAssets      uses, costs, claiming one asset (pure)
        KeypomState       the variables, the freeze switch, balances, promises in flight
          KeypomDrops       create_drop, create_drop_batch, add_keys, delete_keys
            KeypomClaims      claim, create_account_and_claim, both callbacks
              KeypomTokens      FT and NFT deposits, withdrawals, their callbacks
                KeypomKeys        nft_transfer, nft_transfer_payout, nft_approve
                  KeypomTreasury    owner, balances, metadata, signing keys
                    Keypom            Next, Spec, FairSpec
                      KeypomViews       what the view methods return
                        KeypomProperties  what has to hold
                          KeypomLedger      the refinement of KeyLedger
                            MCKeypom          instances for TLC

    KeyLedger         an abstract ledger of keys
      KeyLedgerProofs   ... which is sound

    FoldProofs        sums and folds: what an operation leaves of a sum
    KeypomProofs      (extends KeypomProperties) the registry's invariant
      KeypomKeyProofs     (and FoldProofs) step rules of keys, lists, payouts, intervals, claims' keys
        KeypomLedgerProofs  the contract implements KeyLedger
        KeypomBooksProofs   fees, assets on record, calls in flight, no balance below zero
          KeypomTokenProofs   FTs, NFTs, removed drops, and what views show of a use
            KeypomNearProofs    the NEAR the contract owes

Each EXTENDS the one above it; `KeypomLedger` takes `KeyLedger` by `INSTANCE ...
WITH`. Operators and variables have the names of the functions and fields they
stand for; `map` in `PROJECT.json` gives the lines.

**State.** The maps nested in a stored `InternalDrop` are variables of their
own: `asset_by_id[d]` and `key_info_by_token_id[<<d, k>>]`. A token ID
`"drop:3"` is the pair `<<d, 3>>`. An `Option` is a set of at most one element.
`vault`, `ft_held` and `nft_held` are what the chain holds for the contract, as
opposed to what its books say; they are what the money properties compare with.
`receipts` holds every promise in flight together with its callback; `use` in it
is a history field: the properties read it, no step depends on it.

**Actions.** An action is a whole entry point or callback, its guard the
absence of a panic. Fired promises that have no callback run in the step
that fires them, since nothing of the contract depends on when they run; which of
them fail is a free choice (`lost`: any subset of the steps of those promises). A promise with a callback runs when the
callback does, with a free outcome (`succeeded`, or one of the two actions for
`create_account`). A callback that panics ends its receipt and changes
nothing (`OnNewAccountCreatedPanics`, and the ELSE branches of
`OnAssetsClaimed`, `FtResolveRefund`, `ResolveNftRefund`).

**Promise combination.** `internal_claim_assets` collects `Option<Promise>`s and
calls `reduce(|a, b| a.and(b))`. On options, `and` returns the second operand:
with every asset giving a promise only the last one is awaited; with any asset
giving none, nothing is awaited, the callback runs at once and reads the promise
results of the *current* receipt (none for `claim`, that of `create_account`
after `create_account_and_claim`). The model does exactly this.

**Function calls.** The calls of one use are a chain of promises: each runs
whatever became of the one before, only the last one's result is seen, and the
deposits of calls that fail come back to the contract. A JSON value is the map
from the path of each leaf to the leaf, one that is no object a leaf with the
empty path; so `merge_json` (which merges objects and lets anything else replace
the whole) and markers can be modelled as they work. A text is an `Option` of
JSON, none when it is no JSON. The claimer may pass a text of any kind. The
contract inserts its fields before the last character, so what comes out is JSON
only for an object that has a field by then (`takes_fields`); otherwise the call is
made with a text that is none. Arguments above 4096 bytes (`long`) skip the checks
and the rules, as in the code, but not the markers. That a leaf *contains* a
marker is taken to be that it *is* one, a text that is no JSON to contain no
field, and an empty object inside another is not represented. Assets of function
calls are numbered from one in each group of uses, as in the code.

**Balances.** `withdraw_from_balance` fires a transfer that has no
callback, so the balance falls in the step and nothing can put it back.
The `on_success` call of `create_drop_batch` is paid from what the drops left of
the deposit; if it fails, its deposit comes back to the contract.

**Signing keys.** Claims are the contract's own transactions: they need a key in
`signing_pks`. Approvals need such a key too, but not the contract's account: who
holds a signing key as an access key of their own is the predecessor, and may
approve for keys they own (`NftApprove` takes the sender). `add_signing_pks` adds to that set only; access keys
come from `new`. So a run that removes the only key and adds it again shows
callbacks going on while no claim can be made. `set_root_account` decides who is
asked to create accounts, unless the use names a root account itself.

## Runs

Every run is an instance of `MCKeypom`, i.e. of the whole specification; the
shapes of drops and the inputs decide which part of it is busy.

| run | what is in it | checks | distinct states |
|---|---|---|---|
| `near_drops` | two drop IDs, two keys, one use each; NEAR drops and drops of three function calls (one with long arguments) with arguments of the claimer that are objects, a number, no JSON or missing; storage, deposits above and below the cost; allowlist for `add_keys`; kept and returned excess | `TypeOK`, `IndexConsistency`, `ClaimCallbackFindsKey`, `NearBacked`, `CallsAsConfigured` | 21 600 |
| `token_drops` | one drop ID (deleted and re-created), an FT, two NFTs, claims, withdrawals, two promises in flight | `FtBacked`, `NftBacked`, `NearBacked`, `PreviewMatchesClaim`, `DropWithAssetsNotRemoved` | 26 844 |
| `key_transfers` | keys of two uses in two groups of which the second costs less, deleted when unused or partly used, interval and throttle over four points in time, transfers and sales to all and to an allowlist, royalties, approvals with and without IDs, a use with its own root account | `IndexConsistency`, `EnumerationsAgree`, `ClaimsWithinInterval`, `PayoutsAddUp`, `NearBacked`, `NonceCountsSignatures`, `ApprovalsAreTheOwners` | 37 140 |
| `treasury` | fees in general and for a funder, collected and withdrawn with transfers that fail, batches of up to two drops with metadata and an `on_success` call, another root account | `TypeOK`, `NearBacked`, `FeesKept` | 32 934 |
| `progress` | drops of NEAR, an FT and nothing, transfers, signing keys removed and added, the contract frozen and unfrozen, under fairness | `DepletedKeyRemoved`, `EmptyDropRemoved`, `ImplementsLedger` | 16 524 |

- `IndexConsistency`: the maps by public key, token, owner, drop and funder name
  the same keys and drops. Only a key whose last use is in flight is in the key
  map alone.
- `EnumerationsAgree`: no list of a view unwraps an entry that is gone; the list of
  an account or funder is its part of the list of all; the drops' supplies add up
  to the supply of NFTs plus the keys whose last claim is in flight.
- `ClaimCallbackFindsKey`: what a callback looks up is still there.
- `CallsAsConfigured`: the calls in flight are methods of the drop in their order,
  each at most once; where the claimer may not overwrite the funder's arguments
  (no rule, or `FunderPreferred`) these arrive, and as JSON, whatever the claimer
  passes; and what the contract injects arrives with its value, the names of its
  fields appearing nowhere else. Under `AllUser` and `UserPreferred` a claimer can
  make the text no JSON (below).
- `NearBacked`: balances + fees + refundable storage + what the remaining uses
  will hand out + what a failed account creation will refund is covered by the
  account. `FtBacked`, `NftBacked`: the same for tokens; an NFT is promised once.
- `FeesKept`: fees fall only to zero and into a withdrawal of all of them, and a
  withdrawal is paid or added to what has been collected since.
- `PayoutsAddUp`: what the parties of a sale get is the price up to rounding.
- `PreviewMatchesClaim`: what the view of a key shows is what a claim hands out.
  Uses with NFTs of several contracts are left out: the view counts these
  together, and shows the wrong one.
- `DropWithAssetsNotRemoved`: removing a drop forgets no asset.
- `NonceCountsSignatures`: a key's nonce is the number of its uses taken and
  approvals given, through transfers, sales and failed claims: no nonce served
  twice. It is about one key info. What is signed is the arguments and the nonce
  (`lib.rs:172`), not the token: a public key that is deleted and added again, or
  leaves one key in a transfer and is linked to another, starts at the nonce of
  its new key, and a signature it made before may be good once more. Nothing in
  the repository says that it should not be (`nft_keys/internal.rs:137` asks
  "Increment nonce?"), so no run calls it wrong.
- `ApprovalsAreTheOwners`: an approval in force is the present owner's.
- `ClaimsWithinInterval`: n uses take n whole intervals.
- `DepletedKeyRemoved`, `EmptyDropRemoved`: what must eventually happen, whichever
  of several callbacks comes last and whatever failed.
- `ImplementsLedger`: the refinement below.

**Bounds.** Two public keys and two key IDs are enough for two keys of one
drop, one key that comes back under an earlier public key, and a batch of
which one key exists already. Two receipts in flight are needed for every
interleaving found so far: each involves a callback and one other operation,
which is either complete in itself or has a second callback. Two uses give an
earlier and a later use; three times after the start give an interval missed
and caught up. Two fee withdrawals in flight, with fees collected between
them, are the least in which a callback could overwrite what came since.
`MaxVault` and `MaxFt` only bound what outsiders send in. Public keys are
symmetric in `near_drops` and `key_transfers`; no liveness property is checked
under symmetry. The chain never has to act, so the bounded instances may stop:
deadlock is not checked.

**Deposits of token transfers.** The runs set `OneYocto` and `YoctoPerNear`
to 0: one yoctoNEAR or one whole NEAR attached to token transfers is charged to
nobody, so no run with tokens could balance otherwise. `withdrawal_deposit` and
`registration_deposit` are the runs in which these deposits count.

**Fairness.** `FairSpec` adds weak fairness of the callback of each receipt: NEAR
executes every receipt it has accepted and delivers every callback. Nothing is
assumed about users, funders, token contracts or the outcome of promises.

## The ledger of keys

`KeyLedger` says what the contract promises of its keys, as if it kept them in
one map: the bearer of a public key has uses, each is taken once by a claim
that is done at once or stays open until it is closed, and what is on record
of a key lasts as long as a use or an open claim needs it. The contract
spreads this over the lookup by public key, the key infos, the owners' sets
and the promises in flight. `KeypomLedger` maps these to the ledger:

| ledger | contract |
|---|---|
| `keys[pk]` | the token `token_id_by_pk` leads to, its `remaining_uses`, and the accounts that have it in `tokens_per_owner` |
| `open` | the claims and account creations in `receipts` |
| `on_record` | the tokens of `key_info_by_token_id` |

`create_drop`, `create_drop_batch` and `add_keys` are `Issue`; a claim is
`UseAtOnce` or `OpenClaim`; callbacks are `CloseClaim` or stutter
(`on_new_account_created`, when it fires another promise); `nft_transfer` is
`Transfer`, `delete_keys` `Revoke`; all else stutters. This is true of keys
with one use. With several, a callback of one claim takes away the record
another open claim needs: that is `overlapping_claims`.

## What the contract does not keep

Seven runs show a disagreement between the code and what it says of itself;
`findings` quotes the lines.

| run | behaviour |
|---|---|
| `ft_and_near` | a use of an FT and NEAR: only the last promise is awaited, so a failed FT transfer is never put back |
| `partial_balance` | fewer FTs left than a use takes: the claim fires nothing, which looks like an empty drop, and the drop is removed with the FTs |
| `withdraw_and_delete` | a drop deleted while FTs are being withdrawn: a failing transfer has nothing to come back to |
| `overlapping_claims` | two uses of a key claimed before the first callback: it removes the key the second needs |
| `overlapping_uses` | as above with different uses: a callback hands out or refunds the other use's assets |
| `withdrawal_deposit` | one whole NEAR, not one yoctoNEAR, is attached to a withdrawal, at nobody's charge |
| `registration_deposit` | a registration cost in yoctoNEAR is multiplied by 10^24 when attached: a claim that finds the FTs it takes panics and the depleted key stays (one that does not skips the asset and cleans up) |

Also met while modelling, without a run of their own:

- `get_total_costs_for_key` asserts a valid time configuration *now*
  (`helpers.rs:90-93`), so once a drop's start has passed `delete_keys` of its
  keys and `add_keys` panic, although the repository's `README.md:1116` says
  "Creators have the ability to delete drops and keys at any time."
- Function-call assets are numbered from one within each group of uses
  (`drop_creation/helpers.rs:177`): two groups with different calls share an ID.
- The comment at `funder_info.rs:50` promises the minimum of the amount and the
  balance; an amount above the balance withdraws nothing.
- A text that is no JSON can be sent. The contract's fields go before the last
  character of whatever the text is (`helpers.rs:231`,
  `assets/function_call/helpers.rs:103`): an empty object with no field to inject,
  which `fc_claims.rs:43-45` makes of empty arguments, becomes
  `{,"keypom_args":...}`; a number, a string or an array that a claimer passes
  under `AllUser` or `UserPreferred` replaces the funder's arguments and becomes
  no JSON. The call is made, though arguments that are no JSON to begin with
  are skipped.
- The callback of a claim knows its key by token ID. A key that has uses left may
  be deleted while a claim of it is in flight, with its drop, and a drop created
  under the same ID: the callback then takes the new key's last use for its own
  and, when the claim failed, refunds what that one costs. `key_transfers`
  covers this for drops whose uses cost the same; with a dearer new drop the
  funder gets back more than was paid for.
- The index of a promise result is taken for that of an asset
  (`claim_callbacks.rs:105-107`), though only the last promise is awaited. So with
  two NFTs in a use of which the second is not delivered, the first, which the
  claimer has received, goes back on record. Runs of uses with several assets are
  `ft_and_near` only; the token properties do not hold of them.
- The view of a key counts the NFTs of all contracts of a use together
  (`views/keys.rs:86`).
- The storage of the public-key entry and of the owner's set, freed when a last
  use is claimed, is not refunded (`NearBacked` therefore is an inequality).
- A claim skipped for lack of FTs does not give back its registration cost.
- A group of uses without assets makes each claim panic
  (`drop_claiming/helpers.rs:214`).

## Proofs

TLC checks the instances above; TLAPS proves, for all values of the constants
that satisfy the named assumptions:

| theorem | module |
|---|---|
| `IndexConsistencyHolds`: `Spec => []IndexConsistency` | `KeypomProofs` |
| `RegistryTyped`: `Spec => []RegistryTypeOK` | `KeypomProofs` |
| `NonceCountsSignaturesHolds`: `Spec => []NonceCountsSignatures` | `KeypomKeyProofs` |
| `ApprovalsAreTheOwnersHolds`: `Spec => ApprovalsAreTheOwners` | `KeypomKeyProofs` |
| `ClaimsWithinIntervalHolds`: `Spec => []ClaimsWithinInterval` | `KeypomKeyProofs` |
| `EnumerationsAgreeHolds`: `KeypomAccount \notin Accounts => (Spec => []EnumerationsAgree)` | `KeypomKeyProofs` |
| `PayoutsAddUpHolds`: `Spec => []PayoutsAddUp` | `KeypomKeyProofs` |
| `ClaimCallbackFindsKeyHolds`: `SingleUse => (Spec => []ClaimCallbackFindsKey)` | `KeypomKeyProofs` |
| `ImplementsLedgerHolds`: `SingleUse => (Spec => ImplementsLedger)` | `KeypomLedgerProofs` |
| `FeesKeptHolds`: `Spec => FeesKept` | `KeypomBooksProofs` |
| `RecordedAlways`: the records of assets and promises are those of shapes | `KeypomBooksProofs` |
| `CallsAsConfiguredHolds`: `SingleUse => (Spec => []CallsAsConfigured)` | `KeypomBooksProofs` |
| `TypeOKHolds`: `Spec => []TypeOK` | `KeypomBooksProofs` |
| `FtBackedHolds`: `OneAsset => (Spec => []FtBacked)` | `KeypomTokenProofs` |
| `NftBackedHolds`: `OneAsset => (Spec => []NftBacked)` | `KeypomTokenProofs` |
| `PreviewMatchesClaimHolds`: `OneAsset => (Spec => []PreviewMatchesClaim)` | `KeypomTokenProofs` |
| `DropWithAssetsNotRemovedHolds`: `OneAsset`, `WholeUses` `=> (Spec => DropWithAssetsNotRemoved)` | `KeypomTokenProofs` |
| `NearBackedHolds`: `OneAsset`, `FreeTransfers`, `IsFiniteSet(Accounts)` `=> (Spec => []NearBacked)` | `KeypomNearProofs` |
| `LedgerSoundHolds`: the ledger's `Spec => []LedgerSound` | `KeyLedgerProofs` |

*Assumptions.* Drops have at least one use (`ShapesAssumption`); the asset data
of a shape and its groups, assets and methods are vectors, with unsigned
amounts (`AssetsAssumption`), and the arguments of a method a text
(`ArgsAssumption`); funders, owners, receivers and approvers are
accounts, deposits and batch sizes naturals (`AccountsAssumption`,
`TransfersAssumption`); batches are sequences of drops (`BatchesAssumption`);
storage costs, bounds, amounts, prices and fees are naturals
(`StorageAssumption`, `AmountsAssumption`, `FtAssumption`, `FeesAssumption`);
royalties are maps of finitely many accounts to naturals
(`RoyaltiesAssumption`); what is withdrawn, kept as metadata or paid on success
is nothing or an amount (`OptionsAssumption`); a use with an interval has a start
(`TimesAssumption`; `assert_valid_time_config` refuses other drops). TLC
evaluates them in every run. A drop whose groups give no use at all is outside
the model.

*Hypotheses.* Some theorems hold of some shapes of drops only, and a run shows
that the hypothesis is needed:

| hypothesis | says | satisfied by the shapes of | refuted without it by |
|---|---|---|---|
| `SingleUse` | keys have one use | `near_drops`, `token_drops`, `progress` | `overlapping_claims` |
| `OneAsset` | the one use hands out one asset | `near_drops`, `token_drops`, `progress`, `treasury` | `ft_and_near` |
| `WholeUses` | FTs come in multiples of what a use takes | `token_drops`, `progress` | `partial_balance` |
| `FreeTransfers` | shapes whose assets are FTs or NFTs are only used where the NEAR attached to their transfers (`from_near`, one yoctoNEAR), which nobody is charged for, counts as nothing; drops of NEAR and of calls need no such thing | `near_drops`, `token_drops`, `progress`, `treasury` | `withdrawal_deposit` |

*The registry.* `IndexConsistency` already speaks of a key's ID being below
its drop's `next_key_id` and of its uses not exceeding its drop's: without the
first the new token IDs of `add_keys` would not be fresh, without the second
`get_key_cur_use` would not be a number of the drop's. It becomes inductive
with the types of the maps (`RegistryTypeOK`), for which the time has to stay
a natural number. `Inv` is the conjunction. The operations write the registry
in stages (spend a use, unlink the key, remove the key, remove the drop, move
the key), which the claim's callbacks combine in several ways. So `Inv` is
stated as a predicate `Registry` of the five maps given as arguments, one
lemma proves that each *stage* keeps it, and the lemma of each action composes
the stages it runs. Actions that leave the registry alone are one lemma.

*Steps of keys.* With `Inv` for the types, each action either leaves a key
alone, removes it, adds it, or changes it in one of three ways (a use spent,
moved, approved); small lemmas say that each way obeys the rule of approvals and
keeps the count of the nonce (`NonceStep`). New keys start with all uses and no
approval, so the count starts at zero (`NewKeysUnused`).

*Sums.* A sum or a fold is defined by recursion, and the library's induction
theorems take an operator as a parameter. `FoldProofs` goes around them: a
statement about all finite sets or all sequences that fails has a least
counterexample (of the least cardinality or length), which the least-number
principle of the naturals yields without a parameter, and removing one element
from it contradicts its being least. So it is proved that a sum is a natural
number, that it does not depend on the order, and what it becomes when one
summand is changed, added or removed. The operations then only ever change the
summand of one drop or one promise, or add some. `FinitelyMany` says that there
are sums at all.

*Lists and payouts.* `EnumerationsAgree` needs the registry only: each list is
a set the maps agree on, and the supply is summed drop by drop. It fails if the
contract were its own user, as keys without an owner are listed under its
name. `PayoutsAddUp` is arithmetic: every share is a whole quotient, less than
one unit below the exact share, and the owner's is what the others leave.

*Callbacks.* `Held` says that the key of every claim in flight exists and has
no use left. With one use per key a claim in flight has taken the last one;
from then on the key has no public key, so no claim, deletion or transfer can
reach it, and only the claim's own callback removes it. That no other claim
waits for the same key is part of `Held`.

*The ledger.* With `Inv` the owner in a key's info is the only account that
has the key among its tokens, so the ledger's map is a function of two of the
five maps (`Bearers`). Each of the contract's operations is then one lemma
that names the ledger's action. `Held` is what `MayForget` and `Revoke` ask
for: a record that goes has no open claim.

*Intervals.* `ClaimsWithinInterval` speaks of the use a key gave last and
would not survive a step to another group of uses unless the check of the time
(`claim_timestamps_ok`) were made with the configuration of the use that is
taken then. So `IntervalInv` adds that each drop gives the uses of a shape. A
step either leaves a key's uses as they are or takes one in its time
(`UsedInTime`), and `WholeIntervals` is the arithmetic: when more whole
intervals than uses have passed, the next use fits. Time never goes back.

*Fees.* That fees never fall but into a withdrawal needs fees that are no
negative amounts: `FeeInv` types what is charged and what is being withdrawn,
and one lemma shows by cases that every operation that charges only adds to
the fees. Batches add a fee per drop.

*Records and calls.* `Recorded` says that every drop is of a shape its funder
could choose, that the assets its uses name are on record under their IDs and of
their type, and that each promise in flight carries what its callback reads.
It is inductive because of `BooksKept`: a step leaves the drops it does not
create *alike* (balances and IDs of tokens may differ, nothing else), new ones are
equipped by `store_assets_by_id`, and a new claim's promise is made of its
drop's records. `CallsAsConfigured` then reduces to one method: what `merge_json`,
the markers and `add_keypom_args` make of the funder's arguments, a text of the
claimer's that is nothing in particular - it need not be JSON, nor an object - and
what is injected (`FundersArgsStay`, `FundersObjectStays`, `InjectedArgs`). For that the drop of a claim in flight has to be the drop the claim
was made from, which is `Held`, hence `SingleUse`.

*Tokens.* `Kept` is the inductive invariant: the sum of the FTs on record and on
their way is covered, each NFT is in one place, and the types that the sums need.
With one asset a use every step that creates no drop changes what *one* drop has
on record and what *one* promise carries (`Moves`), and what leaves the one
enters the other (`FtEven`, `NftEven`), so `FtMoved` and its like for NFTs handle
the sums once for all actions. With two assets a use this is false: `ft_and_near`
loses what the promise that is not awaited had taken.

*Removed drops.* A claim that hands out nothing looks like an empty drop to
`handle_key_cleanup`. With one asset a use, a drop is removed only when its next
use would find too little (`Spent`); with `WholeUses` all balances are multiples
of what a use takes (`WholeBalances`, inductive with `Kept`), so too little is
nothing. What the removal by `delete_keys` refunds leaves the books in the same way.

*Types and balances.* That no balance falls below zero is most of `TypeOK`:
what is charged has been checked against balance and deposit (`IsPurse`), what
a promise takes is there, and what comes back is an amount because the promise
carried one (`Recorded`). `HoldingsTyped` is inductive with `Inv`,
`FinitelyMany`, `FeeInv` and `Recorded`; the settings change in their own actions
only.

*NEAR.* `NearBacked` adds up five kinds of things. Each funder, drop, key and
promise in flight is given a *stake*: a funder the balance and the storage of
the metadata, a drop its storage and that of its NFTs, a key its storage and, as
long as it has a use left, the entry of its public key and what the use was
charged, a promise what its callback may hand out or give back. `NearCovered`
says that the stakes and the fees are at most the account. It is stronger than
`NearBacked` in the promises: the refund of a claim that fails is part of the
stake. A step may only add to the stakes what it adds to the account (`Paid`).
Most steps change the stake of at most one drop, key, promise and funder, so
`NearMoved` handles the sums for all of them; creating and deleting several keys
or drops is summed separately (`CreateDropPaid`, `AddKeysPaid`,
`CreateDropBatchPaid`, `DeleteKeysPaid`), where what is charged and refunded is
counted per key. `Priced` is the rest of the invariant: the promise of a NEAR
claim carries what the use was charged, and the promise of an NFT withdrawal
knows the storage it released. For drops of NEAR and of calls the theorem holds
of any unit; for tokens it says that all NEAR is covered but what the transfers
attach, which `withdrawal_deposit` shows to come out of other funders' balances.
With one asset a use, what a key's use costs is the same before and after every
step (`KindsStay`). Finitely many accounts are assumed for their balances to be
summed.

*Views.* `PreviewMatchesClaim` follows from `Kept`: a key that can be looked up has
its one use left, so the view reads the metadata that the claim will read after
taking it (`CurrentUseIsOnly`, `LastUseIsOnly`), and what each of them makes of
the only asset is computed separately and compared (`ShownAsset`,
`DeliveredAsset`). The folds of `claim_all` and `fired_promises` are unfolded once,
which is why the theorem is about uses of one asset; nothing is claimed here of
uses of several assets.

*Model-checked only.* Liveness under fairness (`DepletedKeyRemoved`,
`EmptyDropRemoved`) and `ENABLED` are out of the prover's reach.

## Not modelled

- Gas, the limit of 100 keys per call, passwords, NFT metadata, events,
  pagination of views; the list of methods a function call may not name.
- The text of signatures: that an accepted signature raises the nonce is
  modelled, who can make one is not, nor whether one made for an earlier key of
  the same public key fits a later one. `nft_transfer` and `nft_transfer_payout` have a
  branch for a transaction signed by the linkdrop key itself, which would
  require that key to be one of the contract's own signing keys; it is left out,
  as is the `nft_on_approve` call, which nothing waits for.
- Of function calls: `receiver_to_claimer` and `account_creation_keypom_args`;
  markers inside longer strings; markers in the claimer's own arguments; empty
  objects inside objects; names of fields inside a text that is no JSON.
- Zero uses; withdrawals from an asset of another type (they do nothing); a
  withdrawal above the balance (it does nothing).
- The storage of `FunderInfo` records and owner sets, which the contract
  neither charges nor refunds exactly.
- A transfer of NEAR to a user that fails: it stays with the contract and on no
  record, which keeps `NearBacked`.
- Events, gas constants, the integration tests and deployment scripts: the
  first two are never read back, the others are clients of the contract.

## Plan

Done: all components above, the refinement, and the theorems of the table. What
could follow, in this order:

1. `receiver_to_claimer` and the arguments of account creation in `FunctionCalls`.
2. Withdrawals and claims of two drops of one FT contract in one run.
