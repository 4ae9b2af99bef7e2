------------------------------ MODULE MCKeypom ------------------------------
(***************************************************************************)
(* Small instances of Keypom for TLC: the shapes of the drops that are     *)
(* created, and the inputs of the calls.                                   *)
(***************************************************************************)
EXTENDS KeypomLedger

CONSTANTS alice, bob, owner, keypom, pk1, pk2, usdc, tickets

Near(amount) == ExtAsset("near", NoToken, amount, 0, << >>)
Fc(methods) == ExtAsset("fc", NoToken, 0, 0, methods)
Ft(amount, registration) == ExtAsset("ft", usdc, amount, registration, << >>)
Nft == ExtAsset("nft", tickets, 0, 0, << >>)
Nothing == ExtAsset("none", NoToken, 0, 0, << >>)

Uses(n, config, assets) == [uses |-> n, config |-> config, assets |-> assets]
DropConfig(add_keys, transfer, delete_empty) ==
    [add_key_allowlist |-> add_keys, transfer_key_allowlist |-> transfer,
     delete_empty_drop |-> delete_empty, royalties |-> EmptyMap]
NoDropConfig == DropConfig(None, None, TRUE)
Shape(groups, config) == [asset_data |-> groups, config |-> config]

NoOptions == {}
OnlyNone == {None}
NoneOrBob == {None, Some(bob)}
NoneOrAlice == {None, Some(alice)}
Both == {alice, bob}
Symmetry == Permutations(PublicKeys)

-----------------------------------------------------------------------------
\* NEAR and function calls, one use per key, bob may add keys to one drop.
\* Claimers may overwrite what the first method is called with, set a marker
\* in the long arguments of the third, and add to what the second is called
\* with, where the contract puts the claimer's account.
Methods ==
    <<Method(1, Some(<<"to">> :> Marker("name") @@ <<"kind", "id">> :> Value("1")),
             Some("UserPreferred"), << >>),
      Method(1, Some(<<"kind", "id">> :> Value("1")), Some("FunderPreferred"),
             <<KeypomArg("account", "claimer")>>),
      [Method(0, Some(<<"to">> :> Marker("name")), Some("UserPreferred"), << >>) EXCEPT !.long = TRUE]>>
UserArgs == Some(<<"name">> :> Value("n") @@ <<"kind", "id">> :> Value("2"))
AccountArgs == Some(<<"account">> :> Value("n"))
Number == Some(<< >> :> Other("5"))
NoJson == None
FcArgs ==
    {Some(<<Some(args)>>) :
        args \in {<<Some(UserArgs), Some(UserArgs), Some(UserArgs)>>,
                  <<None, Some(AccountArgs), Some(NoJson)>>,
                  <<Some(NoJson), Some(Number), Some(Number)>>,
                  <<Some(Number), Some(NoJson), None>>}}
NearShapes ==
    {Shape(<<Uses(1, NoConfig, <<Near(2)>>)>>, DropConfig(Some({bob}), None, TRUE)),
     Shape(<<Uses(1, NoConfig, <<Fc(Methods)>>)>>, NoDropConfig)}

\* One FT or one NFT per use, one use per key.
TokenShapes ==
    {Shape(<<Uses(1, NoConfig, <<Ft(1, 0)>>)>>, NoDropConfig),
     Shape(<<Uses(1, NoConfig, <<Nft>>)>>, NoDropConfig)}

\* Two uses per key: the first drop releases one per unit of time from time
\* 1 on; the keys of the second create accounts, at time 0 only, and can only
\* go to bob.  The first use costs more than the second.  Neither drop is
\* removed.  The first owes alice and bob a part of a sale.
Time(start, end, throttle, interval) ==
    Some([start |-> start, end |-> end, throttle |-> throttle, interval |-> interval])
Daily == [time |-> Time(Some(1), None, Some(1), Some(1)), permissions |-> None,
          root_account_id |-> None]
CreateOnly ==
    [time |-> Time(None, Some(0), None, None), permissions |-> Some("create_account_and_claim"),
     root_account_id |-> Some("bobs")]
KeyShapes ==
    {Shape(<<Uses(1, Daily, <<Near(2)>>), Uses(1, Daily, <<Near(1)>>)>>,
           [DropConfig(None, None, FALSE) EXCEPT !.royalties = (alice :> 2 @@ bob :> 1)]),
     Shape(<<Uses(1, CreateOnly, <<Near(2)>>), Uses(1, CreateOnly, <<Near(1)>>)>>,
           DropConfig(None, Some({bob}), FALSE))}
NoneOrAnyone == {None, Some(alice), Some(bob)}
AnyApproval == {None, Some(0), Some(1)}

\* Claims whose promise is awaited, and ones that may fire none.
ClaimShapes ==
    {Shape(<<Uses(1, NoConfig, <<Near(1)>>)>>, NoDropConfig),
     Shape(<<Uses(1, NoConfig, <<Ft(1, 0)>>)>>, NoDropConfig),
     Shape(<<Uses(1, NoConfig, <<Nothing>>)>>, NoDropConfig)}

\* Fees that are set and withdrawn, drops in batches, and metadata.
PlainShapes == {Shape(<<Uses(1, NoConfig, <<Near(0)>>)>>, NoDropConfig)}
InBatch(d) == [drop_id |-> d, shape |-> CHOOSE shape \in PlainShapes : TRUE]
DropBatches == {<< >>, <<InBatch("d1")>>, <<InBatch("d1"), InBatch("d2")>>}
NoneOrOne == {None, Some(1)}
\* The contract's key, which its administrators remove and add.
ContractKeys == {{"s1"}}

-----------------------------------------------------------------------------
(* Instances for what the contract does not keep.                          *)

\* An FT and NEAR in one use.
FtAndNearShapes == {Shape(<<Uses(1, NoConfig, <<Ft(1, 0), Near(0)>>)>>, NoDropConfig)}

\* A use takes two FTs.
FtPairShapes == {Shape(<<Uses(1, NoConfig, <<Ft(2, 0)>>)>>, NoDropConfig)}

FtShapes == {Shape(<<Uses(1, NoConfig, <<Ft(1, 0)>>)>>, NoDropConfig)}

\* Recipients have to be registered with the FT contract.
RegistrationShapes == {Shape(<<Uses(1, NoConfig, <<Ft(1, 2)>>)>>, NoDropConfig)}

\* Two uses that hand out the same, and two that do not.
TwoUsesShapes == {Shape(<<Uses(2, NoConfig, <<Near(1)>>)>>, NoDropConfig)}
TwoGroupsShapes ==
    {Shape(<<Uses(1, NoConfig, <<Near(1)>>), Uses(1, NoConfig, <<Near(2)>>)>>, NoDropConfig)}
=============================================================================
