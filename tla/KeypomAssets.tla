---------------------------- MODULE KeypomAssets ----------------------------
(***************************************************************************)
(* The data a drop is made of and the pure functions over it: what each    *)
(* use of a key hands out, what it costs, what claiming one asset does to  *)
(* the asset's record and what a failed claim gives back, and when a time  *)
(* configuration is valid.  Gas, passwords and metadata are abstracted     *)
(* away.                                                                   *)
(***************************************************************************)
EXTENDS FunctionCalls

CONSTANTS
    OneYocto,     \* the deposit of one yoctoNEAR, in the unit amounts are in
    YoctoPerNear, \* NearToken::from_near(1), in the same unit
    U128Max       \* largest amount: arithmetic above it panics

ASSUME AmountsAssumption == OneYocto \in Nat /\ YoctoPerNear \in Nat /\ U128Max \in Nat

-----------------------------------------------------------------------------
(* Assets as the funder describes them, and the records kept for them.     *)

AssetTypes == {"ft", "nft", "fc", "near", "none"}

\* An entry of ExtAssetDataForUses.assets.  amount: tokens handed out per
\* use; cost: registration cost of an FT; methods: those of an FC.
ExtAsset(type, contract, amount, cost, methods) ==
    [type |-> type, contract |-> contract, amount |-> amount, cost |-> cost, methods |-> methods]

\* Function-call assets are numbered within one group of uses.
fc_idx(assets, i) == Cardinality({j \in 1 .. i : assets[j].type = "fc"})

get_asset_id(assets, i) ==
    CASE assets[i].type = "fc"             -> <<"fc", fc_idx(assets, i)>>
      [] assets[i].type \in {"ft", "nft"}  -> <<"contract", assets[i].contract>>
      [] OTHER                             -> <<assets[i].type, 0>>

is_fc_asset_id(asset_id) == asset_id[1] = "fc"

to_internal_asset(ext) ==
    [type |-> ext.type, contract |-> ext.contract, cost |-> ext.cost, methods |-> ext.methods,
     balance_avail |-> 0, token_ids |-> << >>]

InternalAssetDataForUses(ext_asset_data) ==
    [uses |-> ext_asset_data.uses,
     config |-> ext_asset_data.config,
     assets_metadata |->
        [i \in DOMAIN ext_asset_data.assets |->
            [asset_id |-> get_asset_id(ext_asset_data.assets, i),
             tokens_per_use |-> ext_asset_data.assets[i].amount]]]

\* asset_by_id of a new drop: an ID keeps the first asset it is met with, in
\* the order of the groups and of the assets in a group.
store_assets_by_id(asset_data) ==
    LET occurrences == UNION {{g} \X DOMAIN asset_data[g].assets : g \in DOMAIN asset_data}
        id(o) == get_asset_id(asset_data[o[1]].assets, o[2])
        earlier(o, p) == o[1] < p[1] \/ (o[1] = p[1] /\ o[2] <= p[2])
        first(a) == CHOOSE o \in {p \in occurrences : id(p) = a} :
                        \A p \in occurrences : id(p) = a => earlier(o, p)
    IN  [a \in {id(o) : o \in occurrences} |->
            LET o == first(a) IN to_internal_asset(asset_data[o[1]].assets[o[2]])]

-----------------------------------------------------------------------------
(* Uses of a key.  asset_data is the sequence asset_data_for_uses.         *)

\* Uses covered by the first g groups.
uses_through(asset_data, g) == SumFunction([k \in 1 .. g |-> asset_data[k].uses])

max_key_uses(asset_data) == uses_through(asset_data, Len(asset_data))

cur_use(max_uses, remaining_uses) == max_uses - remaining_uses + 1

NoConfig == [time |-> None, permissions |-> None, root_account_id |-> None]
EmptyAssetData == [uses |-> 0, config |-> NoConfig, assets_metadata |-> << >>]

get_asset_data_for_specific_use(asset_data, use_number) ==
    LET reached == {g \in DOMAIN asset_data : uses_through(asset_data, g) >= use_number}
    IN  IF reached = {} THEN EmptyAssetData ELSE asset_data[Min(reached)]

\* Uses in the groups after g.
uses_after(asset_data, g) == max_key_uses(asset_data) - uses_through(asset_data, g)

\* The bug of counting the uses that are left from the first group on.
get_remaining_asset_data_from_first(asset_data, remaining_uses) ==
    [g \in {h \in DOMAIN asset_data : h = 1 \/ uses_through(asset_data, h - 1) < remaining_uses} |->
        LET left == remaining_uses - uses_through(asset_data, g - 1)
        IN  IF asset_data[g].uses >= left THEN left ELSE asset_data[g].uses]

\* The groups the last remaining_uses uses fall in (the last group is always
\* visited), each with how many of those uses are its own.
get_remaining_asset_data(asset_data, remaining_uses) ==
    [g \in {h \in DOMAIN asset_data :
                h = Len(asset_data) \/ uses_after(asset_data, h) < remaining_uses} |->
        LET left == remaining_uses - uses_after(asset_data, g)
        IN  IF asset_data[g].uses >= left THEN left ELSE asset_data[g].uses]

get_yocto_refund_amount(asset, tokens_per_use) ==
    CASE asset.type = "ft"   -> asset.cost
      [] asset.type = "fc"   -> deposits_of(asset.methods)
      [] asset.type = "near" -> tokens_per_use
      [] OTHER               -> 0

\* What the assets of one group cost for one use.
cost_of_use(assets, metadata) ==
    SumFunction([i \in DOMAIN metadata |->
        get_yocto_refund_amount(assets[metadata[i].asset_id], metadata[i].tokens_per_use)])

get_total_costs_for_key(remaining_uses, assets, asset_data) ==
    LET remaining == get_remaining_asset_data(asset_data, remaining_uses)
    IN  SumFunction([g \in DOMAIN remaining |->
            remaining[g] * cost_of_use(assets, asset_data[g].assets_metadata)])

-----------------------------------------------------------------------------
(* Time configurations.                                                    *)

valid_time_config(config, timestamp) ==
    /\ config.interval # None => config.start # None
    /\ unwrap_or(config.start, timestamp) >= timestamp
    /\ unwrap_or(config.end, timestamp) >= timestamp
    /\ (config.start # None /\ config.end # None) => unwrap(config.start) < unwrap(config.end)

\* get_total_costs_for_key panics unless the time configuration of every
\* group it visits is valid now.
total_costs_defined(remaining_uses, asset_data, timestamp) ==
    \A g \in DOMAIN get_remaining_asset_data(asset_data, remaining_uses) :
        \A time \in asset_data[g].config.time : valid_time_config(time, timestamp)

\* The bug of an interval that lets one claim too many through.
claim_timestamps_ok_one_more(config, last_claimed, claims_so_far, timestamp) ==
    \A time \in config.time :
        /\ timestamp >= unwrap_or(time.start, 0)
        /\ time.end # None => timestamp <= unwrap(time.end)
        /\ timestamp - last_claimed >= unwrap_or(time.throttle, 0)
        /\ \A interval \in time.interval :
              /\ interval # 0
              /\ (timestamp - unwrap(time.start)) \div interval >= claims_so_far

claim_timestamps_ok(config, last_claimed, claims_so_far, timestamp) ==
    \A time \in config.time :
        /\ timestamp >= unwrap_or(time.start, 0)
        /\ time.end # None => timestamp <= unwrap(time.end)
        /\ timestamp - last_claimed >= unwrap_or(time.throttle, 0)
        /\ \A interval \in time.interval :
              /\ interval # 0
              /\ (timestamp - unwrap(time.start)) \div interval > claims_so_far

-----------------------------------------------------------------------------
(* Claiming an asset.  A promise records what it carries: FTs, the NFT and *)
(* the NEAR attached to it; that of an FC is a chain of calls which run    *)
(* one after the other whatever becomes of them, each with a deposit.      *)

NoToken == "no token"
Promise(asset, amount, token, near) ==
    [type |-> asset.type, contract |-> asset.contract, amount |-> amount, token |-> token,
     deposits |-> <<near>>, calls |-> << >>]

\* No promise when there is nothing to call.
calls_promise(asset, calls) ==
    IF calls = << >> THEN None
    ELSE Some([Promise(asset, 0, NoToken, 0) EXCEPT
                  !.deposits = [i \in DOMAIN calls |-> calls[i].attached_deposit], !.calls = calls])

\* What comes back when the given steps of a promise fail, and what it takes.
near_back(promise, lost) == SumFunctionOnSet(promise.deposits, lost)
near_of(promise) == near_back(promise, DOMAIN promise.deposits)

\* A promise is what its last step was.
has_failed(promise, lost) == Len(promise.deposits) \in lost

enough_balance(asset, amount) == asset.balance_avail >= amount

is_empty(asset) ==
    CASE asset.type = "ft"  -> ~enough_balance(asset, 1)
      [] asset.type = "nft" -> asset.token_ids = << >>
      [] OTHER              -> TRUE

get_next_token_id(asset) ==
    IF asset.type = "nft" /\ asset.token_ids # << >> THEN Some(Last(asset.token_ids)) ELSE None

from_near(near) == near * YoctoPerNear

\* The outcome of claim_asset: the asset afterwards and the promise, if any.
\* fc_args: the claimer's arguments for the asset.
claim_asset(asset, tokens_per_use, fc_args) ==
    CASE asset.type = "ft" ->
            IF enough_balance(asset, tokens_per_use)
            THEN [asset |-> [asset EXCEPT !.balance_avail = @ - tokens_per_use],
                  promise |-> Some(Promise(asset, tokens_per_use, NoToken,
                                           from_near(asset.cost) + from_near(1)))]
            ELSE [asset |-> asset, promise |-> None]
      [] asset.type = "nft" ->
            IF ~is_empty(asset)
            THEN [asset |-> [asset EXCEPT !.token_ids = Front(@)],
                  promise |-> Some(Promise(asset, 0, Last(asset.token_ids), OneYocto))]
            ELSE [asset |-> asset, promise |-> None]
      [] asset.type = "fc" ->
            [asset |-> asset, promise |-> calls_promise(asset, claim_fc_asset(asset.methods, fc_args))]
      [] asset.type = "near" ->
            [asset |-> asset, promise |-> Some(Promise(asset, 0, NoToken, tokens_per_use))]
      [] OTHER -> [asset |-> asset, promise |-> None]

\* Making the promise of FTs panics when the registration deposit overflows.
\* Without enough of them no promise is made.
claim_asset_defined(asset, promise) ==
    (asset.type = "ft" /\ promise # None) => from_near(asset.cost) <= U128Max

add_to_balance_avail(asset, amount) == [asset EXCEPT !.balance_avail = @ + amount]
add_to_token_ids(asset, token_ids) == [asset EXCEPT !.token_ids = @ \o token_ids]

\* on_failed_claim: the asset afterwards and the NEAR the funder gets back.
on_failed_claim(asset, tokens_per_use, token_id) ==
    CASE asset.type = "ft"   -> [asset  |-> add_to_balance_avail(asset, tokens_per_use),
                                 refund |-> asset.cost]
      [] asset.type = "nft"  -> [asset  |-> add_to_token_ids(asset, <<unwrap(token_id)>>),
                                 refund |-> 0]
      [] asset.type = "near" -> [asset |-> asset, refund |-> tokens_per_use]
      [] OTHER               -> [asset |-> asset, refund |-> 0]
=============================================================================
