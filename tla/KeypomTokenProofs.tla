------------------------- MODULE KeypomTokenProofs -------------------------
(***************************************************************************)
(* Tokens are backed: where every key has one use, which hands out one     *)
(* asset, the FTs and NFTs that the drops have on record and those on      *)
(* their way are the contract's, and none is promised twice.               *)
(*                                                                         *)
(* Kept is the inductive invariant.  With one asset a use, every step but  *)
(* the creation of drops changes the asset of one drop and what one        *)
(* promise carries (Moves), and what leaves the one enters the other, so   *)
(* that the sums are only handled once, in FtMoved.                        *)
(*                                                                         *)
(* Two sections use Kept for more: a step only removes a drop whose next   *)
(* use would find too little, which is nothing where FTs come in multiples *)
(* of what a use takes; and the view of a key shows what a claim of it     *)
(* hands out.                                                              *)
(***************************************************************************)
EXTENDS KeypomBooksProofs

-----------------------------------------------------------------------------
(* Sequences of token IDs.                                                 *)

\* An ID joins, ...
LEMMA AppendNew ==
    ASSUME NEW S, NEW s \in Seq(S), IsInjective(s), NEW x \in S, x \notin ToSet(s)
    PROVE  /\ Append(s, x) \in Seq(S) /\ IsInjective(Append(s, x))
           /\ ToSet(Append(s, x)) = ToSet(s) \cup {x}
  <1> DEFINE q == Append(s, x)
             n == Len(s)
  <1>1. n \in Nat /\ DOMAIN s = 1 .. n
    BY LenProperties
  <1>2. q \in Seq(S) /\ Len(q) = n + 1 /\ (\A i \in 1 .. n : q[i] = s[i]) /\ q[n + 1] = x
    BY AppendProperties
  <1>3. DOMAIN q = (1 .. n) \cup {n + 1}
    <2>1. DOMAIN q = 1 .. Len(q)
      BY <1>2, LenProperties
    <2> QED
      BY <1>1, <1>2, <2>1
  <1> HIDE DEF q, n
  <1>4. ToSet(q) = ToSet(s) \cup {x}
    BY <1>1, <1>2, <1>3 DEF ToSet
  <1>5. IsInjective(q)
    BY <1>1, <1>2, <1>3 DEF ToSet, IsInjective
  <1> QED
    BY <1>2, <1>4, <1>5 DEF q

\* ... several do, ...
LEMMA ConcatApart ==
    ASSUME NEW S, NEW s \in Seq(S), NEW t \in Seq(S), IsInjective(s), IsInjective(t),
           ToSet(s) \cap ToSet(t) = {}
    PROVE  /\ s \o t \in Seq(S) /\ IsInjective(s \o t)
           /\ ToSet(s \o t) = ToSet(s) \cup ToSet(t)
  <1> DEFINE q == s \o t
             m == Len(s)
             n == Len(t)
  <1>1. m \in Nat /\ DOMAIN s = 1 .. m /\ n \in Nat /\ DOMAIN t = 1 .. n
    BY LenProperties
  <1>2. q \in Seq(S) /\ Len(q) = m + n /\ \A i \in 1 .. m + n : q[i] = IF i <= m THEN s[i] ELSE t[i - m]
    BY ConcatProperties
  <1>3. DOMAIN q = 1 .. m + n
    BY <1>2, LenProperties
  <1> HIDE DEF q, m, n
  <1>4. \A i \in 1 .. m : i \in DOMAIN q /\ q[i] = s[i]
    BY <1>1, <1>2, <1>3
  <1>5. \A i \in 1 .. n : m + i \in DOMAIN q /\ q[m + i] = t[i]
    <2> SUFFICES ASSUME NEW i \in 1 .. n PROVE m + i \in DOMAIN q /\ q[m + i] = t[i]
      OBVIOUS
    <2>1. m + i \in 1 .. m + n /\ ~(m + i <= m) /\ (m + i) - m = i
      BY <1>1
    <2> QED
      BY <1>2, <1>3, <2>1
  <1>6. \A i \in DOMAIN q : i \in 1 .. m \/ (i - m \in 1 .. n /\ i = m + (i - m))
    BY <1>1, <1>3
  <1>7. ToSet(q) = ToSet(s) \cup ToSet(t)
    <2>1. ASSUME NEW i \in DOMAIN q PROVE q[i] \in ToSet(s) \cup ToSet(t)
      BY <1>1, <1>4, <1>5, <1>6 DEF ToSet
    <2>2. ToSet(s) \subseteq ToSet(q)
      BY <1>1, <1>4 DEF ToSet
    <2>3. ToSet(t) \subseteq ToSet(q)
      BY <1>1, <1>5 DEF ToSet
    <2>4. ToSet(q) \subseteq ToSet(s) \cup ToSet(t)
      BY <2>1 DEF ToSet
    <2> QED
      BY <2>2, <2>3, <2>4
  <1>8. IsInjective(q)
    <2> SUFFICES ASSUME NEW i \in DOMAIN q, NEW j \in DOMAIN q, q[i] = q[j] PROVE i = j
      BY DEF IsInjective
    <2>1. CASE i \in 1 .. m /\ j \in 1 .. m
      BY <1>1, <1>4, <2>1 DEF IsInjective
    <2>2. ASSUME NEW k \in DOMAIN q, NEW l \in DOMAIN q, k \in 1 .. m, l \notin 1 .. m
          PROVE  q[k] # q[l]
      <3>1. q[k] \in ToSet(s)
        BY <1>1, <1>4, <2>2 DEF ToSet
      <3>2. l - m \in 1 .. n /\ q[l] = t[l - m]
        BY <1>5, <1>6, <2>2
      <3>3. q[l] \in ToSet(t)
        BY <1>1, <3>2 DEF ToSet
      <3> QED
        BY <3>1, <3>3
    <2>4. CASE i \notin 1 .. m /\ j \notin 1 .. m
      <3>1. i - m \in 1 .. n /\ j - m \in 1 .. n /\ t[i - m] = t[j - m]
        BY <1>5, <1>6, <2>4
      <3>2. i - m = j - m
        BY <1>1, <3>1 DEF IsInjective
      <3> QED
        BY <1>6, <2>4, <3>2
    <2> QED
      BY <2>1, <2>2, <2>4
  <1> QED
    BY <1>2, <1>7, <1>8 DEF q

\* ... and the last one leaves.
LEMMA FrontOfIds ==
    ASSUME NEW S, NEW s \in Seq(S), IsInjective(s), s # << >>
    PROVE  /\ Front(s) \in Seq(S) /\ IsInjective(Front(s)) /\ Last(s) \in S
           /\ ToSet(s) = ToSet(Front(s)) \cup {Last(s)} /\ Last(s) \notin ToSet(Front(s))
  <1> DEFINE q == Front(s)
             n == Len(s)
  <1>1. n \in Nat \ {0} /\ DOMAIN s = 1 .. n /\ \A i \in 1 .. n : s[i] \in S
    BY LenProperties, EmptySeq
  <1>2. q \in Seq(S) /\ Len(q) = n - 1 /\ \A i \in 1 .. n - 1 : q[i] = s[i]
    <2>1. SubSeq(s, 1, n - 1) \in Seq(S)
          /\ Len(SubSeq(s, 1, n - 1)) = (IF 1 <= n - 1 THEN (n - 1) - 1 + 1 ELSE 0)
          /\ \A i \in 1 .. (n - 1) - 1 + 1 : SubSeq(s, 1, n - 1)[i] = s[1 + i - 1]
      <3>1. n - 1 \in Int /\ \A i \in 1 .. n - 1 : s[i] \in S
        BY <1>1
      <3> HIDE DEF n
      <3> QED
        BY <3>1, SubSeqProperties
    <2>2. q = SubSeq(s, 1, n - 1)
      BY DEF Front
    <2> HIDE DEF q, n
    <2> QED
      BY <1>1, <2>1, <2>2
  <1>3. DOMAIN q = 1 .. n - 1
    BY <1>2, LenProperties
  <1>4. Last(s) = s[n]
    BY DEF Last
  <1> HIDE DEF q, n
  <1>5. \A i \in 1 .. n - 1 : i \in 1 .. n /\ i # n /\ n \in 1 .. n
    BY <1>1
  <1>6. 1 .. n = (1 .. n - 1) \cup {n}
    BY <1>1
  <1>7. ToSet(s) = ToSet(q) \cup {Last(s)}
    BY <1>1, <1>2, <1>3, <1>4, <1>5, <1>6 DEF ToSet
  <1>8. Last(s) \notin ToSet(q)
    BY <1>1, <1>2, <1>3, <1>4, <1>5 DEF ToSet, IsInjective
  <1>9. IsInjective(q)
    BY <1>1, <1>2, <1>3, <1>5 DEF IsInjective
  <1>10. Last(s) \in S
    BY <1>1, <1>4, <1>6
  <1> QED
    BY <1>2, <1>7, <1>8, <1>9, <1>10 DEF q

\* The IDs that are among the given tokens, each as often as before.
LEMMA OnlyThese ==
    ASSUME NEW S, NEW s \in Seq(S), IsInjective(s), NEW tokens
    PROVE  /\ only(tokens, s) \in Seq(S) /\ IsInjective(only(tokens, s))
           /\ ToSet(only(tokens, s)) = ToSet(s) \cap tokens
  <1> DEFINE A == Seq(S)
             op(kept, token) == IF token \in tokens THEN Append(kept, token) ELSE kept
             step == [a \in A \X S |-> op(a[1], a[2])]
             folds(f) == f = [V \in SUBSET DOMAIN s |->
                                 IF V = {} THEN << >>
                                 ELSE LET i == Max(V) IN op(f[V \ {i}], s[i])]
             fold == CHOOSE f : folds(f)
  <1>1. only(tokens, s) = fold[DOMAIN s]
    BY DEF only, FoldLeft, MapThenFoldSet
  <1>2. Len(s) \in Nat /\ DOMAIN s = 1 .. Len(s) /\ \A i \in 1 .. Len(s) : s[i] \in S
    BY LenProperties
  <1>3. << >> \in A /\ step \in [A \X S -> A]
    <2>1. ASSUME NEW a \in A, NEW x \in S PROVE op(a, x) \in A
      BY AppendProperties
    <2> HIDE DEF op, A
    <2>2. step \in [A \X S -> A]
      BY <2>1
    <2> QED
      BY <2>2 DEF A
  <1> HIDE DEF op
  <1>4. \E f : folds(f)
    <2>1. PICK f \in [SUBSET DOMAIN s -> A] : Folds(f, step, << >>, s)
      <3> HIDE DEF step, A
      <3> QED
        BY <1>3, FoldExists
    <2>2. ASSUME NEW V \in SUBSET DOMAIN s, V # {}
          PROVE  Max(V) \in DOMAIN s
      <3>1. PICK m \in V : \A k \in V : k <= m
        <4>1. V \in SUBSET (1 .. Len(s))
          BY <1>2
        <4> QED
          BY <1>2, <2>2, <4>1, GreatestNumber
      <3> QED
        BY <3>1 DEF Max
    <2>3. ASSUME NEW V \in SUBSET DOMAIN s, V # {}
          PROVE  step[<<f[V \ {Max(V)}], s[Max(V)]>>] = op(f[V \ {Max(V)}], s[Max(V)])
      <3>1. f[V \ {Max(V)}] \in A /\ s[Max(V)] \in S
        BY <1>2, <2>1, <2>2, <2>3
      <3> HIDE DEF A
      <3> QED
        BY <3>1
    <2> HIDE DEF step
    <2>4. folds(f)
      BY <2>1, <2>3 DEF Folds
    <2> QED
      BY <2>4
  <1>5. folds(fold)
    BY <1>4
  <1> HIDE DEF fold
  <1> DEFINE taken(k) == {s[i] : i \in 1 .. k} \cap tokens
             right(k) == /\ fold[1 .. k] \in Seq(S) /\ IsInjective(fold[1 .. k])
                         /\ ToSet(fold[1 .. k]) = taken(k)
             Wrong == {k \in 0 .. Len(s) : ~right(k)}
  <1>6. fold[1 .. 0] = << >>
    BY <1>2, <1>5
  <1>7. ASSUME NEW k \in 1 .. Len(s)
        PROVE  fold[1 .. k] = op(fold[1 .. k - 1], s[k])
    <2>1. PICK n \in Nat : k = n + 1
      <3>1. k - 1 \in Nat /\ k = (k - 1) + 1
        BY <1>2
      <3> QED
        BY <3>1
    <2>2. Max(1 .. n + 1) = n + 1
      <3>1. 1 .. n + 1 \in SUBSET (1 .. n + 1) /\ n + 1 \in 1 .. n + 1
        OBVIOUS
      <3> QED
        BY <3>1, MaxOfPrefix
    <2>5. Max(1 .. k) = k /\ 1 .. k # {} /\ (1 .. k) \ {k} = 1 .. k - 1
      <3>1. 1 .. k # {} /\ (1 .. k) \ {k} = 1 .. k - 1
        BY <1>2
      <3> QED
        BY <2>1, <2>2, <3>1
    <2>3. 1 .. k \in SUBSET DOMAIN s
      BY <1>2
    <2>4. fold[1 .. k] = op(fold[(1 .. k) \ {Max(1 .. k)}], s[Max(1 .. k)])
      BY <1>5, <2>5, <2>3
    <2> QED
      BY <2>5, <2>4
  <1>8. right(0)
    <2>1. taken(0) = {}
      OBVIOUS
    <2>2. << >> \in Seq(S) /\ IsInjective(<< >>) /\ ToSet(<< >>) = {}
      BY DEF IsInjective, ToSet
    <2> QED
      BY <1>6, <2>1, <2>2
  <1>9. ASSUME NEW k \in 1 .. Len(s), right(k - 1)
        PROVE  right(k)
    <2> DEFINE q == fold[1 .. k - 1]
    <2>1. q \in Seq(S) /\ IsInjective(q) /\ ToSet(q) = taken(k - 1) /\ s[k] \in S
      BY <1>2, <1>9
    <2>2. taken(k) = IF s[k] \in tokens THEN taken(k - 1) \cup {s[k]} ELSE taken(k - 1)
      <3>1. 1 .. k = (1 .. k - 1) \cup {k}
        BY <1>2
      <3> QED
        BY <3>1
    <2>3. s[k] \notin taken(k - 1)
      BY <1>2 DEF IsInjective
    <2>4. fold[1 .. k] = op(q, s[k])
      BY <1>7
    <2> HIDE DEF q, taken
    <2>5. CASE s[k] \in tokens
      <3>1. fold[1 .. k] = Append(q, s[k])
        BY <2>4, <2>5 DEF op
      <3>2. s[k] \notin ToSet(q)
        BY <2>1, <2>3
      <3> QED
        BY <2>1, <2>2, <2>5, <3>1, <3>2, AppendNew
    <2>6. CASE s[k] \notin tokens
      BY <2>1, <2>2, <2>4, <2>6 DEF op
    <2> QED
      BY <2>5, <2>6
  <1>10. ASSUME Wrong # {} PROVE FALSE
    <2>1. PICK k \in Wrong : \A j \in 0 .. k - 1 : j \notin Wrong
      <3>1. Wrong \in SUBSET Nat
        BY <1>2
      <3> HIDE DEF Wrong
      <3> QED
        BY <1>10, <3>1, LeastNumber
    <2>2. k \in 0 .. Len(s) /\ ~right(k)
      OBVIOUS
    <2> HIDE DEF right
    <2>3. k \in 1 .. Len(s) /\ k - 1 \in 0 .. Len(s) /\ k - 1 \in 0 .. k - 1
      BY <1>2, <1>8, <2>2
    <2>4. right(k - 1)
      BY <2>1, <2>3
    <2> QED
      BY <1>9, <2>2, <2>3, <2>4
  <1>11. right(Len(s))
    <2>1. Len(s) \in 0 .. Len(s)
      BY <1>2
    <2>2. Wrong = {}
      BY <1>10
    <2> HIDE DEF right
    <2> QED
      BY <2>1, <2>2
  <1>12. taken(Len(s)) = ToSet(s) \cap tokens
    BY <1>2 DEF ToSet
  <1> HIDE DEF taken
  <1> QED
    BY <1>1, <1>2, <1>11, <1>12
-----------------------------------------------------------------------------
(* Drops with one asset.                                                   *)

\* Keys have one use, which hands out one asset.
OneAsset ==
    \A shape \in Shapes :
        LET group == shape.asset_data[1]
        IN  /\ shape.asset_data = <<group>> /\ group.uses = 1
            /\ group.assets = <<group.assets[1]>>

\* What the metadata of a use says of the asset and the record of the asset agree.
AssetKept(asset, metadata) ==
    /\ asset = [type |-> asset.type, contract |-> asset.contract, cost |-> asset.cost,
                methods |-> asset.methods, balance_avail |-> asset.balance_avail,
                token_ids |-> asset.token_ids]
    /\ asset.type \in AssetTypes /\ asset.balance_avail \in Nat
    /\ asset.token_ids \in Seq(NftTokens) /\ IsInjective(asset.token_ids)
    /\ asset.type # "ft" => asset.balance_avail = 0
    /\ asset.type # "nft" => asset.token_ids = << >>
    /\ asset.type \in {"ft", "nft"} => metadata.asset_id = contract_asset_id(asset.contract)
    /\ is_fc_asset_id(metadata.asset_id) <=> asset.type = "fc"
    /\ metadata.tokens_per_use \in Nat

\* The only use of a drop's keys, and its only asset.
only_use(drop) == drop.asset_data_for_uses[1]
only_metadata(drop) == only_use(drop).assets_metadata[1]

StockedWith(drop, assets) ==
    /\ drop.max_key_uses = 1
    /\ drop.asset_data_for_uses = <<only_use(drop)>> /\ only_use(drop).uses = 1
    /\ only_use(drop).assets_metadata = <<only_metadata(drop)>>
    /\ assets = [a \in {only_metadata(drop).asset_id} |-> assets[a]]
    /\ AssetKept(assets[only_metadata(drop).asset_id], only_metadata(drop))

Stocked == \A d \in DOMAIN drop_by_id : StockedWith(drop_by_id[d], asset_by_id[d])

asset_id_of(d) == only_metadata(drop_by_id[d]).asset_id
asset_of(d) == asset_by_id[d][asset_id_of(d)]

\* One asset per use is one use per key.
LEMMA OneAssetOneUse == ASSUME OneAsset PROVE SingleUse
  <1> SUFFICES ASSUME NEW shape \in Shapes
               PROVE  max_key_uses(shape.asset_data) = 1
    BY DEF SingleUse
  <1> DEFINE group == shape.asset_data[1]
  <1>1. shape.asset_data = <<group>> /\ group.uses = 1
    BY DEF OneAsset
  <1> HIDE DEF group
  <1>2. Len(shape.asset_data) = 1 /\ shape.asset_data[1].uses = 1
    BY <1>1
  <1>3. max_key_uses(shape.asset_data) = SumFunction([k \in 1 .. 1 |-> shape.asset_data[k].uses])
    BY <1>2 DEF max_key_uses, uses_through
  <1>4. 1 .. 1 = {1}
    OBVIOUS
  <1> QED
    BY <1>2, <1>3, <1>4, SumOfOne

\* The record of a new asset.
LEMMA NewAssetKept ==
    ASSUME NEW ext, ext.type \in AssetTypes, ext.amount \in Nat, NEW id,
           id = get_asset_id(<<ext>>, 1)
    PROVE  AssetKept(to_internal_asset(ext), [asset_id |-> id, tokens_per_use |-> ext.amount])
  <1>1. /\ ext.type \in {"ft", "nft"} => id = contract_asset_id(ext.contract)
        /\ is_fc_asset_id(id) <=> ext.type = "fc"
    BY DEF get_asset_id, contract_asset_id, is_fc_asset_id, AssetTypes
  <1>2. << >> \in Seq(NftTokens) /\ IsInjective(<< >>)
    BY DEF IsInjective
  <1> QED
    BY <1>1, <1>2 DEF AssetKept, to_internal_asset

\* The drop hands out the asset that its shape asks for.
HandsOut(drop, assets, ext) ==
    LET m == only_metadata(drop)
    IN  m.tokens_per_use = ext.amount /\ assets[m.asset_id] = to_internal_asset(ext)

\* A new drop has the record of its asset.
LEMMA NewDropStocked ==
    ASSUME OneAsset, NEW shape \in Shapes, NEW caller, NEW num_keys
    PROVE  /\ HandsOut(NewDropOf(caller, shape, num_keys), store_assets_by_id(shape.asset_data),
                        shape.asset_data[1].assets[1])
           /\ StockedWith(NewDropOf(caller, shape, num_keys), store_assets_by_id(shape.asset_data))
           /\ \A a \in DOMAIN store_assets_by_id(shape.asset_data) :
                 LET asset == store_assets_by_id(shape.asset_data)[a]
                 IN  asset.balance_avail = 0 /\ asset.token_ids = << >>
  <1> DEFINE data == shape.asset_data
             group == data[1]
             ext == group.assets[1]
             id == get_asset_id(<<ext>>, 1)
             m == [asset_id |-> id, tokens_per_use |-> ext.amount]
             use == [uses |-> 1, config |-> group.config, assets_metadata |-> <<m>>]
             assets == store_assets_by_id(data)
  <1>1. data = <<group>> /\ group.uses = 1 /\ group.assets = <<ext>>
    BY DEF OneAsset
  <1>2. ext.type \in AssetTypes /\ ext.amount \in Nat
    <2>1. group \in ToSet(data) /\ ext \in ToSet(group.assets)
      BY <1>1 DEF ToSet
    <2> QED
      BY <2>1, AssetsAssumption
  <1>3. assets = [a \in {id} |-> assets[a]] /\ assets[id] = to_internal_asset(ext)
    <2> DEFINE occurrences == UNION {{g} \X DOMAIN data[g].assets : g \in DOMAIN data}
               id_of(o) == get_asset_id(data[o[1]].assets, o[2])
               earlier(o, p) == o[1] < p[1] \/ (o[1] = p[1] /\ o[2] <= p[2])
               first(a) == CHOOSE o \in {p \in occurrences : id_of(p) = a} :
                              \A p \in occurrences : id_of(p) = a => earlier(o, p)
    <2>1. DOMAIN data = {1} /\ data[1].assets = <<ext>> /\ DOMAIN data[1].assets = {1}
      BY <1>1
    <2>2. occurrences = {<<1, 1>>}
      BY <2>1
    <2>3. id_of(<<1, 1>>) = id
      BY <2>1
    <2>4. earlier(<<1, 1>>, <<1, 1>>)
      OBVIOUS
    <2>5. assets = [a \in {id_of(o) : o \in occurrences} |->
                       to_internal_asset(data[first(a)[1]].assets[first(a)[2]])]
      BY DEF store_assets_by_id
    <2> HIDE DEF id_of, earlier, occurrences, id, assets
    <2>6. first(id) = <<1, 1>>
      BY <2>2, <2>3, <2>4
    <2> HIDE DEF first
    <2>7. {id_of(o) : o \in occurrences} = {id}
      BY <2>2, <2>3
    <2> QED
      BY <2>1, <2>5, <2>6, <2>7
  <1>4. AssetKept(to_internal_asset(ext), m)
    BY <1>2, NewAssetKept
  <1>5. asset_data_for_uses(shape) = <<use>>
    <2>1. DOMAIN data = {1} /\ DOMAIN group.assets = {1}
      BY <1>1
    <2>2. InternalAssetDataForUses(group) = use
      BY <1>1, <2>1 DEF InternalAssetDataForUses
    <2> HIDE DEF use, group
    <2> QED
      BY <2>1, <2>2 DEF asset_data_for_uses, group
  <1>6. max_key_uses(data) = 1
    BY OneAssetOneUse DEF SingleUse
  <1> DEFINE drop == NewDropOf(caller, shape, num_keys)
  <1>7. drop.max_key_uses = 1 /\ drop.asset_data_for_uses = <<use>>
    BY <1>5, <1>6 DEF NewDropOf
  <1>8. only_use(drop) = use /\ only_metadata(drop) = m
    BY <1>7 DEF only_use, only_metadata
  <1>9. StockedWith(drop, assets)
    <2>1. use.uses = 1 /\ use.assets_metadata = <<m>> /\ m.asset_id = id
      OBVIOUS
    <2> HIDE DEF use, m, drop, assets, id
    <2> QED
      BY <1>3, <1>4, <1>7, <1>8, <2>1 DEF StockedWith
  <1>10. to_internal_asset(ext).balance_avail = 0 /\ to_internal_asset(ext).token_ids = << >>
    BY DEF to_internal_asset
  <1>11. HandsOut(drop, assets, ext)
    <2>1. m.asset_id = id /\ m.tokens_per_use = ext.amount
      OBVIOUS
    <2> HIDE DEF use, m, drop, assets, id, ext
    <2> QED
      BY <1>3, <1>8, <2>1 DEF HandsOut
  <1> HIDE DEF assets, id
  <1> QED
    BY <1>3, <1>9, <1>10, <1>11 DEF assets

-----------------------------------------------------------------------------
(* A claim of a key with one use of one asset.                             *)

\* The callbacks find the only use.
LEMMA LastUseIsOnly ==
    ASSUME NEW drop, NEW assets, StockedWith(drop, assets), NEW key, key.remaining_uses = 0
    PROVE  last_use_data(drop, key) = only_use(drop)
  <1> DEFINE data == drop.asset_data_for_uses
  <1>1. DOMAIN data = {1} /\ data[1].uses = 1
    BY DEF StockedWith, only_use
  <1>2. get_key_cur_use(drop, key) - 1 = 1
    BY DEF StockedWith, get_key_cur_use, cur_use
  <1>3. uses_through(data, 1) = 1
    <2>1. 1 .. 1 = {1}
      OBVIOUS
    <2> DEFINE f == [k \in 1 .. 1 |-> data[k].uses]
    <2>2. DOMAIN f = {1} /\ f[1] = 1
      BY <1>1, <2>1
    <2> HIDE DEF f
    <2>3. SumFunction(f) = 1
      BY <2>2, SumOfOne
    <2> QED
      BY <2>3 DEF uses_through, f
  <1>4. {g \in DOMAIN data : uses_through(data, g) >= 1} = {1}
    BY <1>1, <1>3
  <1>5. Min({1}) = 1
    BY DEF Min
  <1> HIDE DEF data
  <1>6. get_asset_data_for_specific_use(data, 1) = data[1]
    BY <1>4, <1>5 DEF get_asset_data_for_specific_use
  <1> QED
    BY <1>2, <1>6 DEF last_use_data, only_use, data

\* Folding over one asset is claiming it.
LEMMA OneClaim ==
    ASSUME NEW assets, NEW m, NEW fc_args
    PROVE  \E args :
              LET claimed == claim_asset(assets[m.asset_id], m.tokens_per_use, args)
              IN  claim_all(assets, <<m>>, fc_args) =
                     [assets |-> [assets EXCEPT ![m.asset_id] = claimed.asset],
                      token_ids |-> <<get_next_token_id(assets[m.asset_id])>>,
                      promises |-> <<claimed.promise>>]
  <1> DEFINE given(idx) == IF fc_args # None /\ idx \in DOMAIN unwrap(fc_args)
                           THEN unwrap(fc_args)[idx] ELSE None
             fcs_in(acc) == Cardinality({i \in DOMAIN acc.promises : is_fc_asset_id(<<m>>[i].asset_id)})
             claim_one(acc, n) ==
                LET asset == acc.assets[n.asset_id]
                    claimed == claim_asset(asset, n.tokens_per_use, given(fcs_in(acc) + 1))
                IN  [assets |-> [acc.assets EXCEPT ![n.asset_id] = claimed.asset],
                     token_ids |-> Append(acc.token_ids, get_next_token_id(asset)),
                     promises |-> Append(acc.promises, claimed.promise)]
             base == [assets |-> assets, token_ids |-> << >>, promises |-> << >>]
             folds(f) == f = [s \in SUBSET DOMAIN <<m>> |->
                                 IF s = {} THEN base
                                 ELSE LET i == Max(s) IN claim_one(f[s \ {i}], <<m>>[i])]
             fold == CHOOSE f : folds(f)
  <1>1. claim_all(assets, <<m>>, fc_args) = fold[DOMAIN <<m>>]
    BY DEF claim_all, FoldLeft, MapThenFoldSet
  <1>2. claim_one(base, m) =
          [assets |-> [assets EXCEPT ![m.asset_id] =
                          claim_asset(assets[m.asset_id], m.tokens_per_use, given(fcs_in(base) + 1)).asset],
           token_ids |-> <<get_next_token_id(assets[m.asset_id])>>,
           promises |-> <<claim_asset(assets[m.asset_id], m.tokens_per_use, given(fcs_in(base) + 1)).promise>>]
    OBVIOUS
  <1> DEFINE result == claim_one(base, m)
  <1>3. DOMAIN <<m>> = {1} /\ <<m>>[1] = m /\ Max({1}) = 1
    BY DEF Max
  <1> HIDE DEF claim_one, base
  <1>4. \E f : folds(f)
    <2> DEFINE f == [s \in SUBSET {1} |-> IF s = {} THEN base ELSE result]
    <2>1. \A s \in SUBSET {1} : s = {} \/ s = {1}
      OBVIOUS
    <2>2. folds(f)
      <3>1. ASSUME NEW s \in SUBSET {1}, s # {}
            PROVE  Max(s) = 1 /\ f[s \ {1}] = base
        <4>1. s = {1}
          BY <2>1, <3>1
        <4>2. s \ {1} = {}
          BY <4>1
        <4>3. Max(s) = 1
          BY <1>3, <4>1
        <4> QED
          BY <4>2, <4>3
      <3> QED
        BY <1>3, <3>1
    <2> QED
      BY <2>2
  <1>5. folds(fold)
    BY <1>4
  <1> HIDE DEF fold
  <1>6. fold[{}] = base
    BY <1>5
  <1>7. fold[{1}] = claim_one(fold[{1} \ {Max({1})}], <<m>>[Max({1})])
    BY <1>3, <1>5
  <1>8. fold[{1}] = result
    BY <1>3, <1>6, <1>7
  <1> QED
    BY <1>1, <1>2, <1>3, <1>8

\* One asset gives one promise, which is awaited, or none; nothing is detached.
LEMMA OnePromise ==
    ASSUME NEW claimed, NEW p, claimed.promises = <<p>>
    PROVE  /\ is_awaited(claimed) <=> p # None
           /\ p # None => fired_promises(claimed) = <<unwrap(p)>>
           /\ p = None => fired_promises(claimed) = << >>
           /\ detached_promises(claimed) = << >>
  <1> DEFINE fire_one(fired, q) == IF q = None THEN fired ELSE Append(fired, unwrap(q))
             folds(f) == f = [s \in SUBSET DOMAIN <<p>> |->
                                 IF s = {} THEN << >>
                                 ELSE LET i == Max(s) IN fire_one(f[s \ {i}], <<p>>[i])]
             fold == CHOOSE f : folds(f)
             result == fire_one(<< >>, p)
  <1>1. fired_promises(claimed) = fold[DOMAIN <<p>>]
    BY DEF fired_promises, FoldLeft, MapThenFoldSet
  <1>2. /\ p # None => result = <<unwrap(p)>>
        /\ p = None => result = << >>
    OBVIOUS
  <1>3. DOMAIN <<p>> = {1} /\ <<p>>[1] = p /\ Max({1}) = 1
    BY DEF Max
  <1> HIDE DEF fire_one
  <1>4. \E f : folds(f)
    <2> DEFINE f == [s \in SUBSET {1} |-> IF s = {} THEN << >> ELSE result]
    <2>1. \A s \in SUBSET {1} : s = {} \/ s = {1}
      OBVIOUS
    <2>2. ASSUME NEW s \in SUBSET {1}, s # {}
          PROVE  Max(s) = 1 /\ f[s \ {1}] = << >>
      <3>1. s = {1}
        BY <2>1, <2>2
      <3>2. s \ {1} = {}
        BY <3>1
      <3>3. Max(s) = 1
        BY <1>3, <3>1
      <3> QED
        BY <3>2, <3>3
    <2>3. folds(f)
      BY <1>3, <2>2
    <2> QED
      BY <2>3
  <1>5. folds(fold)
    BY <1>4
  <1> HIDE DEF fold
  <1>6. fold[{}] = << >>
    BY <1>5
  <1>7. fold[{1}] = fire_one(fold[{1} \ {Max({1})}], <<p>>[Max({1})])
    BY <1>3, <1>5
  <1>8. fold[{1}] = result
    BY <1>3, <1>6, <1>7
  <1>9. fired_promises(claimed) = result
    BY <1>1, <1>3, <1>8
  <1>10. is_awaited(claimed) <=> p # None
    BY <1>3 DEF is_awaited
  <1>11. Front(<<unwrap(p)>>) = << >>
    BY DEF Front
  <1> QED
    BY <1>2, <1>9, <1>10, <1>11 DEF detached_promises

\* There are not enough tokens for a use.
Lacks(asset, metadata) ==
    /\ asset.type = "ft" => ~enough_balance(asset, metadata.tokens_per_use)
    /\ asset.type = "nft" => asset.token_ids = << >>

\* What a claim does to the record of an asset, and what its promise carries.
ClaimTakes(asset, metadata, claimed) ==
    /\ claimed.promise = None => claimed.asset = asset /\ Lacks(asset, metadata)
    /\ claimed.promise # None =>
          LET p == unwrap(claimed.promise)
          IN  /\ p.type = asset.type /\ p.contract = asset.contract
              /\ p.calls # << >> => \E args : p.calls = claim_fc_asset(asset.methods, args)
              /\ asset.type = "ft" => /\ p.amount = metadata.tokens_per_use
                                      /\ enough_balance(asset, metadata.tokens_per_use)
                                      /\ claimed.asset = add_to_balance_avail(
                                                            asset, -metadata.tokens_per_use)
              /\ asset.type = "nft" => /\ asset.token_ids # << >>
                                       /\ p.token = Last(asset.token_ids)
                                       /\ claimed.asset =
                                             [asset EXCEPT !.token_ids = Front(asset.token_ids)]
              /\ asset.type \notin {"ft", "nft"} => claimed.asset = asset

\* claim_asset takes ClaimTakes from the record.
LEMMA ClaimAsset ==
    ASSUME NEW asset, NEW metadata, AssetKept(asset, metadata), NEW args
    PROVE  ClaimTakes(asset, metadata, claim_asset(asset, metadata.tokens_per_use, args))
  <1> DEFINE tokens_per_use == metadata.tokens_per_use
             claimed == claim_asset(asset, tokens_per_use, args)
  <1>1. \A v : Some(v) # None /\ unwrap(Some(v)) = v
    BY DEF Some, None, unwrap
  <1>2. \A amount, token, near :
           LET p == Promise(asset, amount, token, near)
           IN  p.type = asset.type /\ p.contract = asset.contract /\ p.amount = amount
               /\ p.token = token /\ p.calls = << >>
    BY DEF Promise
  <1>3. CASE asset.type = "ft"
    <2>1. CASE enough_balance(asset, tokens_per_use)
      <3>1. [asset EXCEPT !.balance_avail = @ - tokens_per_use]
            = add_to_balance_avail(asset, -tokens_per_use)
        <4>1. asset.balance_avail - tokens_per_use = asset.balance_avail + (-tokens_per_use)
          BY DEF AssetKept
        <4> QED
          BY <4>1 DEF add_to_balance_avail
      <3> QED
        BY <1>1, <1>2, <1>3, <2>1, <3>1 DEF claim_asset, ClaimTakes, Lacks
    <2>2. CASE ~enough_balance(asset, tokens_per_use)
      BY <1>3, <2>2 DEF claim_asset, ClaimTakes, Lacks
    <2> QED
      BY <2>1, <2>2
  <1>4. CASE asset.type = "nft"
    <2>1. is_empty(asset) <=> asset.token_ids = << >>
      BY <1>4 DEF is_empty
    <2>2. CASE asset.token_ids # << >>
      BY <1>1, <1>2, <1>4, <2>1, <2>2 DEF claim_asset, ClaimTakes, Lacks
    <2>3. CASE asset.token_ids = << >>
      BY <1>4, <2>1, <2>3 DEF claim_asset, ClaimTakes, Lacks
    <2> QED
      BY <2>2, <2>3
  <1>5. CASE asset.type = "fc"
    <2> DEFINE calls == claim_fc_asset(asset.methods, args)
               p == [Promise(asset, 0, NoToken, 0) EXCEPT
                        !.deposits = [i \in DOMAIN calls |-> calls[i].attached_deposit], !.calls = calls]
    <2>1. claimed.asset = asset /\ claimed.promise = calls_promise(asset, calls)
      BY <1>5 DEF claim_asset
    <2> HIDE DEF calls
    <2>2. claimed.promise = None \/ claimed.promise = Some(p)
      BY <2>1 DEF calls_promise
    <2>3. p.type = asset.type /\ p.contract = asset.contract /\ p.calls = calls
      BY DEF Promise
    <2>4. calls = claim_fc_asset(asset.methods, args)
      BY DEF calls
    <2> HIDE DEF p, claimed
    <2> QED
      BY <1>1, <1>5, <2>1, <2>2, <2>3, <2>4 DEF ClaimTakes, Lacks, claimed
  <1>6. CASE asset.type \in {"near", "none"}
    BY <1>1, <1>2, <1>6 DEF claim_asset, ClaimTakes, Lacks
  <1> QED
    BY <1>3, <1>4, <1>5, <1>6 DEF AssetKept, AssetTypes

\* What no operation changes of an asset.
SameKind(x, asset) ==
    /\ x.type = asset.type /\ x.contract = asset.contract
    /\ x.methods = asset.methods /\ x.cost = asset.cost

\* FTs are added or taken, the rest stays.
LEMMA BalanceChanged ==
    ASSUME NEW asset, NEW metadata, AssetKept(asset, metadata), asset.type = "ft",
           NEW n \in Int, asset.balance_avail + n >= 0
    PROVE  LET x == add_to_balance_avail(asset, n)
           IN  /\ AssetKept(x, metadata) /\ SameKind(x, asset)
               /\ x.balance_avail = asset.balance_avail + n
               /\ x.token_ids = asset.token_ids
  BY DEF AssetKept, add_to_balance_avail, SameKind

\* NFTs are added or taken, the rest stays.
LEMMA TokenIdsChanged ==
    ASSUME NEW asset, NEW metadata, AssetKept(asset, metadata), asset.type = "nft",
           NEW token_ids \in Seq(NftTokens), IsInjective(token_ids)
    PROVE  LET x == [asset EXCEPT !.token_ids = token_ids]
           IN  /\ AssetKept(x, metadata) /\ SameKind(x, asset)
               /\ x.balance_avail = asset.balance_avail
               /\ x.token_ids = token_ids
  BY DEF AssetKept, SameKind

\* The fungible tokens and the NFTs a promise carries.
ft_of(promise, c) == IF promise.type = "ft" /\ promise.contract = c THEN promise.amount ELSE 0
nfts_of(promise) == IF promise.type = "nft" THEN {<<promise.contract, promise.token>>} ELSE {}

HeldTyped == ft_held \in [FtContracts -> Nat]

\* No promise takes no tokens.
LEMMA NothingSettled ==
    ASSUME HeldTyped, NEW failed, settle(<< >>, failed)
    PROVE  UNCHANGED <<ft_held, nft_held>>
  <1> DEFINE ps == << >>
             gone == DOMAIN ps \ failed
             ft(c) == SumFunction([i \in {j \in gone : ps[j].type = "ft" /\ ps[j].contract = c} |->
                                     ps[i].amount])
             nft == {<<ps[i].contract, ps[i].token>> : i \in {j \in gone : ps[j].type = "nft"}}
  <1>1. gone = {}
    OBVIOUS
  <1>2. nft = {} /\ \A c : ft(c) = 0
    <2>1. ASSUME NEW c PROVE ft(c) = 0
      <3>1. {j \in gone : ps[j].type = "ft" /\ ps[j].contract = c} = {}
        BY <1>1
      <3> DEFINE f == [i \in {j \in gone : ps[j].type = "ft" /\ ps[j].contract = c} |-> ps[i].amount]
      <3>2. DOMAIN f = {}
        BY <3>1
      <3> HIDE DEF f
      <3>3. SumFunction(f) = 0
        BY <3>2, SumEmpty DEF SumFunction
      <3> QED
        BY <3>3 DEF f
    <2> QED
      BY <1>1, <2>1
  <1>3. /\ ft_held' = [c \in FtContracts |-> ft_held[c] - ft(c)]
        /\ nft_held' = nft_held \ nft
    BY DEF settle
  <1> HIDE DEF ft, nft
  <1>4. ft_held' = ft_held
    BY <1>2, <1>3 DEF HeldTyped
  <1> QED
    BY <1>2, <1>3, <1>4

\* One promise takes what it carries, or nothing if it failed.
LEMMA OneSettled ==
    ASSUME HeldTyped, NEW p, p.type = "ft" => p.amount \in Nat, NEW fails \in BOOLEAN,
           settle(<<p>>, IF fails THEN {1} ELSE {})
    PROVE  /\ HeldTyped'
           /\ \A c \in FtContracts : ft_held[c] = ft_held'[c] + IF fails THEN 0 ELSE ft_of(p, c)
           /\ fails => nft_held' = nft_held
           /\ ~fails => nfts_of(p) \subseteq nft_held /\ nft_held' = nft_held \ nfts_of(p)
  <1> DEFINE ps == <<p>>
             failed == IF fails THEN {1} ELSE {}
             gone == DOMAIN ps \ failed
             ft(c) == SumFunction([i \in {j \in gone : ps[j].type = "ft" /\ ps[j].contract = c} |->
                                     ps[i].amount])
             nft == {<<ps[i].contract, ps[i].token>> : i \in {j \in gone : ps[j].type = "nft"}}
  <1>1. /\ \A c \in FtContracts : ft(c) <= ft_held[c]
        /\ nft \subseteq nft_held
        /\ ft_held' = [c \in FtContracts |-> ft_held[c] - ft(c)]
        /\ nft_held' = nft_held \ nft
    BY DEF settle
  <1>2. gone = (IF fails THEN {} ELSE {1}) /\ ps[1] = p
    OBVIOUS
  <1>3. nft = IF fails THEN {} ELSE nfts_of(p)
    BY <1>2 DEF nfts_of
  <1>4. ASSUME NEW c
        PROVE  ft(c) = IF fails THEN 0 ELSE ft_of(p, c)
    <2> DEFINE carriers == {j \in gone : ps[j].type = "ft" /\ ps[j].contract = c}
               f == [i \in carriers |-> ps[i].amount]
    <2>1. carriers = IF ~fails /\ p.type = "ft" /\ p.contract = c THEN {1} ELSE {}
      BY <1>2
    <2>2. DOMAIN f = carriers /\ \A i \in carriers : f[i] = ps[i].amount
      OBVIOUS
    <2> HIDE DEF f, carriers
    <2>3. CASE ~fails /\ p.type = "ft" /\ p.contract = c
      <3>1. DOMAIN f = {1} /\ f[1] = p.amount /\ p.amount \in Nat
        BY <1>2, <2>1, <2>2, <2>3
      <3>2. SumFunction(f) = p.amount
        BY <3>1, SumOfOne
      <3> QED
        BY <2>3, <3>2 DEF f, carriers, ft_of
    <2>4. CASE ~(~fails /\ p.type = "ft" /\ p.contract = c)
      <3>1. SumFunction(f) = 0
        BY <2>1, <2>2, <2>4, SumEmpty DEF SumFunction
      <3> QED
        BY <2>4, <3>1 DEF f, carriers, ft_of
    <2> QED
      BY <2>3, <2>4
  <1> HIDE DEF ft, nft
  <1>5. \A c : ft(c) \in Nat
    BY <1>4 DEF ft_of
  <1>6. \A c \in FtContracts : ft_held[c] = ft_held'[c] + ft(c) /\ ft_held'[c] \in Nat
    BY <1>1, <1>5 DEF HeldTyped
  <1>7. HeldTyped'
    BY <1>1, <1>6 DEF HeldTyped
  <1> QED
    BY <1>1, <1>3, <1>4, <1>6, <1>7

-----------------------------------------------------------------------------
(* What a step may do to the asset of a drop.                              *)

\* The asset of d becomes x, or d is removed, and no other drop changes or comes.
AssetSet(d, x) ==
    /\ SameDrops
    /\ \A e \in DOMAIN drop_by_id \ {d} :
          e \in DOMAIN drop_by_id' /\ asset_by_id'[e] = asset_by_id[e]
    /\ d \in DOMAIN drop_by_id' => asset_by_id'[d] = [a \in {asset_id_of(d)} |-> x]

\* Writing the record of a drop's only asset.
LEMMA OnlyRecord ==
    ASSUME Stocked, NEW d \in DOMAIN drop_by_id, NEW x
    PROVE  /\ [asset_by_id[d] EXCEPT ![asset_id_of(d)] = x] = [a \in {asset_id_of(d)} |-> x]
           /\ asset_by_id[d] = [a \in {asset_id_of(d)} |-> asset_of(d)]
           /\ AssetKept(asset_of(d), only_metadata(drop_by_id[d]))
  BY DEF Stocked, StockedWith, asset_id_of, asset_of

\* The record is changed and no drop goes.
LEMMA AssetWritten ==
    ASSUME Inv, Stocked, NEW d \in DOMAIN drop_by_id, NEW x, SameDrops,
           DOMAIN drop_by_id' = DOMAIN drop_by_id,
           asset_by_id' = [asset_by_id EXCEPT ![d] = [a \in {asset_id_of(d)} |-> x]]
    PROVE  AssetSet(d, x)
  BY DEF AssetSet, Inv

\* No record is changed.
LEMMA NoAssetWritten ==
    ASSUME Stocked, NEW d \in DOMAIN drop_by_id, SameDrops,
           DOMAIN drop_by_id' = DOMAIN drop_by_id, UNCHANGED asset_by_id
    PROVE  AssetSet(d, asset_of(d))
  BY OnlyRecord DEF AssetSet

\* The cleanup writes the record it is given, or removes the drop.
LEMMA CleanupSets ==
    ASSUME Inv, Stocked, NEW t, parse_token_id(t) \in DOMAIN drop_by_id, NEW x,
           NEW keys, NEW withdrawn, NEW refund, NEW added, NEW assets,
           assets = [a \in {asset_id_of(parse_token_id(t))} |-> x],
           handle_key_cleanup(t, keys, assets, withdrawn, refund, added)
    PROVE  AssetSet(parse_token_id(t), x)
  <1> DEFINE d == parse_token_id(t)
  <1>1. \/ drop_by_id' = Without(drop_by_id, {d}) /\ asset_by_id' = Without(asset_by_id, {d})
        \/ drop_by_id' = drop_by_id /\ asset_by_id' = [asset_by_id EXCEPT ![d] = assets]
    BY Zenon DEF handle_key_cleanup
  <1> HIDE DEF d
  <1>2. CASE drop_by_id' = Without(drop_by_id, {d}) /\ asset_by_id' = Without(asset_by_id, {d})
    <2>1. DOMAIN asset_by_id = DOMAIN drop_by_id
      BY DEF Inv
    <2>2. /\ DOMAIN drop_by_id' = DOMAIN drop_by_id \ {d}
          /\ \A e \in DOMAIN drop_by_id \ {d} : drop_by_id'[e] = drop_by_id[e]
          /\ \A e \in DOMAIN drop_by_id \ {d} : asset_by_id'[e] = asset_by_id[e]
      BY <1>2, <2>1 DEF Without, Restrict
    <2>3. SameDrops
      BY <2>2 DEF SameDrops
    <2>4. d \notin DOMAIN drop_by_id'
      BY <2>2
    <2>5. \A e \in DOMAIN drop_by_id \ {d} :
             e \in DOMAIN drop_by_id' /\ asset_by_id'[e] = asset_by_id[e]
      BY <2>2
    <2>6. AssetSet(d, x)
      BY <2>3, <2>4, <2>5 DEF AssetSet
    <2> QED
      BY <2>6 DEF d
  <1>3. CASE drop_by_id' = drop_by_id /\ asset_by_id' = [asset_by_id EXCEPT ![d] = assets]
    BY <1>3, AssetWritten DEF SameDrops, d
  <1> QED
    BY <1>1, <1>2, <1>3 DEF d

\* It removes no other drop, and this one only if it is told that the assets are gone.
LEMMA CleanupRemoves ==
    ASSUME NEW t, NEW keys, NEW withdrawn, NEW refund, NEW added, NEW assets,
           handle_key_cleanup(t, keys, assets, withdrawn, refund, added),
           NEW e \in DOMAIN drop_by_id \ DOMAIN drop_by_id'
    PROVE  e = parse_token_id(t) /\ withdrawn
  <1>1. CASE ~withdrawn
    <2>1. UNCHANGED drop_by_id
      BY <1>1, Zenon DEF handle_key_cleanup, drop_is_finished
    <2> QED
      BY <2>1
  <1>2. CASE withdrawn
    <2>1. drop_by_id' = Without(drop_by_id, {parse_token_id(t)}) \/ drop_by_id' = drop_by_id
      BY Zenon DEF handle_key_cleanup
    <2> QED
      BY <1>2, <2>1 DEF Without, Restrict
  <1> QED
    BY <1>1, <1>2

\* on_assets_claimed gives back what failed, if it sees that it did.
given_back(d, asset, token_ids, failed) ==
    IF failed /\ asset_of(d).type # "fc"
    THEN on_failed_claim(asset, only_metadata(drop_by_id[d]).tokens_per_use, token_ids[1]).asset
    ELSE asset

given_refund(d, asset, token_ids, failed) ==
    IF failed /\ asset_of(d).type # "fc"
    THEN on_failed_claim(asset, only_metadata(drop_by_id[d]).tokens_per_use, token_ids[1]).refund
    ELSE 0

\* The assets of d, when x is the record of its only one.
only_asset(d, x) == [a \in {asset_id_of(d)} |-> x]

\* It leaves this record behind, or removes the drop if it sees that it has nothing left.
GivesBack(d, x, token_ids, results) ==
    LET y == given_back(d, x, token_ids, results = <<FALSE>>)
    IN  /\ AssetSet(d, y)
        /\ \A e \in DOMAIN drop_by_id \ DOMAIN drop_by_id' :
              e = d /\ (results = << >> \/ asset_of(d).type = "fc" \/ is_empty(y))

\* The funder gets back what that cost.
PaysBack(t, keys, x, token_ids, results) ==
    LET d == parse_token_id(t)
        y == given_back(d, x, token_ids, results = <<FALSE>>)
        refund == given_refund(d, x, token_ids, results = <<FALSE>>)
    IN  refund \in Nat =>
            \E withdrawn : handle_key_cleanup(t, keys, only_asset(d, y), withdrawn, refund,
                               nft_bytes(only_asset(d, y)) - nft_bytes(only_asset(d, x)))

\* on_assets_claimed does so with the record it finds.
LEMMA AssetsClaimed ==
    ASSUME Inv, Stocked, NEW t, parse_token_id(t) \in DOMAIN drop_by_id, NEW keys,
           keys[t].remaining_uses = 0, NEW x, NEW token_ids, NEW assets,
           assets = only_asset(parse_token_id(t), x),
           NEW results, results \in {<< >>, <<TRUE>>, <<FALSE>>},
           on_assets_claimed(t, keys, assets, token_ids, results)
    PROVE  /\ GivesBack(parse_token_id(t), x, token_ids, results)
           /\ PaysBack(t, keys, x, token_ids, results)
  <1> DEFINE d == parse_token_id(t)
             metadata == last_use_data(drop_by_id[d], keys[t]).assets_metadata
             m == only_metadata(drop_by_id[d])
             seen == {i \in DOMAIN results : ~is_fc_asset_id(metadata[i].asset_id)}
             failed == {i \in seen : ~results[i]}
             undone(i) == on_failed_claim(assets[metadata[i].asset_id], metadata[i].tokens_per_use,
                                          token_ids[i])
             updated == [a \in DOMAIN assets |->
                            IF \E i \in failed : metadata[i].asset_id = a
                            THEN undone(CHOOSE i \in failed : metadata[i].asset_id = a).asset
                            ELSE assets[a]]
             refunds == [i \in failed |-> undone(i).refund]
             fails == results = <<FALSE>>
             withdrawn == \A i \in seen : is_empty(updated[metadata[i].asset_id])
  <1>1. StockedWith(drop_by_id[d], asset_by_id[d])
    BY DEF Stocked
  <1>2. metadata = <<m>>
    BY <1>1, LastUseIsOnly DEF StockedWith
  <1>3. m.asset_id = asset_id_of(d) /\ (is_fc_asset_id(m.asset_id) <=> asset_of(d).type = "fc")
    BY <1>1 DEF StockedWith, AssetKept, asset_id_of, asset_of
  <1>4. handle_key_cleanup(t, keys, updated, withdrawn, SumFunction(refunds),
                           nft_bytes(updated) - nft_bytes(assets))
    BY Zenon DEF on_assets_claimed
  <1> HIDE DEF withdrawn, metadata, m, d
  <1>5. failed = IF fails /\ asset_of(d).type # "fc" THEN {1} ELSE {}
    <2>1. CASE results = << >>
      BY <2>1
    <2>2. CASE results = <<TRUE>>
      <3>1. DOMAIN results = {1} /\ results[1]
        BY <2>2
      <3>2. ~fails
        BY <2>2
      <3>3. ASSUME NEW i \in seen PROVE results[i]
        BY <3>1
      <3> HIDE DEF seen, fails
      <3> QED
        BY <3>2, <3>3
    <2>3. CASE results = <<FALSE>>
      <3>1. DOMAIN results = {1} /\ ~results[1]
        BY <2>3
      <3>2. metadata[1] = m
        BY <1>2
      <3> QED
        BY <1>3, <2>3, <3>1, <3>2
    <2> QED
      BY <2>1, <2>2, <2>3
  <1>6. DOMAIN assets = {m.asset_id} /\ assets[m.asset_id] = x
    BY <1>3 DEF d, only_asset
  <1>7. updated = [a \in {m.asset_id} |-> given_back(d, x, token_ids, fails)]
    <2> HIDE DEF failed
    <2>1. CASE fails /\ asset_of(d).type # "fc"
      <3>1. failed = {1} /\ metadata[1] = m
        BY <1>2, <1>5, <2>1
      <3>2. (CHOOSE i \in failed : metadata[i].asset_id = m.asset_id) = 1
        BY <3>1
      <3>3. undone(1).asset = given_back(d, x, token_ids, fails)
        BY <1>6, <2>1, <3>1 DEF given_back, m
      <3> HIDE DEF undone, fails
      <3> QED
        BY <1>6, <3>1, <3>2, <3>3
    <2>2. CASE ~(fails /\ asset_of(d).type # "fc")
      <3>1. failed = {}
        BY <1>5, <2>2
      <3> QED
        BY <1>6, <2>2, <3>1 DEF given_back
    <2> QED
      BY <2>1, <2>2
  <1>9. results = << >> \/ asset_of(d).type = "fc" \/ 1 \in seen
    <2>1. DOMAIN <<TRUE>> = {1} /\ DOMAIN <<FALSE>> = {1} /\ metadata[1] = m
      BY <1>2
    <2> QED
      BY <1>3, <2>1
  <1>11. ASSUME given_refund(d, x, token_ids, fails) \in Nat
         PROVE  SumFunction(refunds) = given_refund(d, x, token_ids, fails)
    <2> HIDE DEF failed
    <2>1. CASE fails /\ asset_of(d).type # "fc"
      <3>1. failed = {1} /\ metadata[1] = m
        BY <1>2, <1>5, <2>1
      <3>2. undone(1).refund = given_refund(d, x, token_ids, fails)
        BY <1>6, <2>1, <3>1 DEF given_refund, m
      <3>3. DOMAIN refunds = {1} /\ refunds[1] = undone(1).refund
        BY <3>1
      <3> HIDE DEF refunds, undone, fails
      <3> QED
        BY <1>11, <3>2, <3>3, SumOfOne
    <2>2. CASE ~(fails /\ asset_of(d).type # "fc")
      <3>1. DOMAIN refunds = {}
        BY <1>5, <2>2
      <3>2. given_refund(d, x, token_ids, fails) = 0
        BY <2>2 DEF given_refund
      <3> HIDE DEF refunds, fails
      <3> QED
        BY <3>1, <3>2, SumEmpty DEF SumFunction
    <2> QED
      BY <2>1, <2>2
  <1> HIDE DEF updated, fails, seen, refunds
  <1>8. AssetSet(d, given_back(d, x, token_ids, fails))
    BY <1>3, <1>4, <1>7, CleanupSets DEF d
  <1>10. ASSUME NEW e \in DOMAIN drop_by_id \ DOMAIN drop_by_id'
         PROVE  /\ e = d
                /\ \/ results = << >> \/ asset_of(d).type = "fc"
                   \/ is_empty(given_back(d, x, token_ids, fails))
    <2>1. e = d /\ withdrawn
      BY <1>4, CleanupRemoves DEF d
    <2>2. 1 \in seen => is_empty(given_back(d, x, token_ids, fails))
      <3>1. metadata[1] = m
        BY <1>2
      <3> QED
        BY <1>7, <2>1, <3>1 DEF withdrawn
    <2> QED
      BY <1>9, <2>1, <2>2
  <1>12. updated = only_asset(d, given_back(d, x, token_ids, fails))
    BY <1>3, <1>7 DEF only_asset
  <1>13. PaysBack(t, keys, x, token_ids, results)
    BY <1>4, <1>11, <1>12 DEF d, fails, PaysBack
  <1> QED
    BY <1>8, <1>10, <1>13 DEF d, fails, GivesBack

-----------------------------------------------------------------------------
(* What is on its way.                                                     *)

\* A promise in flight carries what is handed out of the asset it was fired for, ...
ClaimKept(receipt, asset, metadata) ==
    LET p == receipt.promise
    IN  /\ p.type = asset.type /\ p.contract = asset.contract
        /\ p.calls # << >> => \E args : p.calls = claim_fc_asset(asset.methods, args)
        /\ p.type = "ft" => p.amount = metadata.tokens_per_use
        /\ p.type = "nft" => p.token \in NftTokens /\ receipt.token_ids = <<Some(p.token)>>

\* ... or what was withdrawn.
RefundKept(receipt) ==
    /\ receipt.kind = "ft_refund" =>
          receipt.promise.type = "ft" /\ receipt.promise.amount \in FtAmounts
    /\ receipt.kind = "nft_refund" =>
          receipt.token_ids \in Seq(NftTokens) /\ IsInjective(receipt.token_ids)

PromiseKept(receipt) ==
    /\ receipt.kind = "claim" =>
          LET d == parse_token_id(receipt.token_id)
          IN  /\ d \in DOMAIN drop_by_id
              /\ ClaimKept(receipt, asset_of(d), only_metadata(drop_by_id[d]))
    /\ RefundKept(receipt)

Promised == \A r \in DOMAIN receipts : PromiseKept(receipts[r])

\* Drops that stay keep the kind of their asset.
KindsStay ==
    \A d \in DOMAIN drop_by_id' :
        d \in DOMAIN drop_by_id =>
            /\ only_metadata(drop_by_id'[d]) = only_metadata(drop_by_id[d])
            /\ SameKind(asset_of(d)', asset_of(d))

\* A promise stays what its asset's promises are.
LEMMA PromisesStay ==
    ASSUME Inv', Held', KindsStay, \A r \in DOMAIN receipts' : PromiseKept(receipts'[r])
    PROVE  Promised'
  <1> SUFFICES ASSUME NEW r \in DOMAIN receipts'
               PROVE  PromiseKept(receipts[r])'
    BY DEF Promised
  <1>1. PICK receipt, d : receipt = receipts'[r] /\ d = parse_token_id(receipt.token_id)
    OBVIOUS
  <1>2. PromiseKept(receipt)
    BY <1>1
  <1>3. RefundKept(receipt)
    BY <1>2 DEF PromiseKept
  <1>4. ASSUME receipt.kind = "claim"
        PROVE  d \in DOMAIN drop_by_id' /\ ClaimKept(receipt, asset_of(d)', only_metadata(drop_by_id'[d]))
    <2>1. r \in claims'
      BY <1>1, <1>4 DEF claims, is_claim
    <2>2. receipts'[r].token_id \in DOMAIN key_info_by_token_id'
      BY <2>1 DEF Held
    <2>3. d \in DOMAIN drop_by_id'
      BY <1>1, <2>2 DEF Inv, Current, Registry, Housed
    <2>4. d \in DOMAIN drop_by_id /\ ClaimKept(receipt, asset_of(d), only_metadata(drop_by_id[d]))
      BY <1>1, <1>2, <1>4 DEF PromiseKept
    <2>5. /\ only_metadata(drop_by_id'[d]) = only_metadata(drop_by_id[d])
          /\ SameKind(asset_of(d)', asset_of(d))
      BY <2>3, <2>4 DEF KindsStay
    <2>6. \A new, old, metadata : SameKind(new, old) /\ ClaimKept(receipt, old, metadata)
                                      => ClaimKept(receipt, new, metadata)
      BY DEF ClaimKept, SameKind
    <2> QED
      BY <2>3, <2>4, <2>5, <2>6
  <1>5. PromiseKept(receipt)'
    BY <1>1, <1>3, <1>4 DEF PromiseKept, asset_of, asset_id_of
  <1>6. PromiseKept(receipt)' => PromiseKept(receipts[r])'
    BY <1>1
  <1> QED
    BY <1>5, <1>6

-----------------------------------------------------------------------------
(* What a step moves: the asset of one drop and one promise change.        *)

\* What the drop d has on record, and what is on its way in r.
ft_in(d, c) == IF d \in DOMAIN asset_by_id THEN FtBalance(asset_of(d), c) ELSE 0
ft_at(r, c) == IF r \in DOMAIN receipts THEN FtCarried(receipts[r], c) ELSE 0

\* Only the promise r comes, goes or changes.
OnlyPromise(r) ==
    /\ \A s \in DOMAIN receipts' \ {r} : s \in DOMAIN receipts /\ receipts'[s] = receipts[s]
    /\ \A s \in DOMAIN receipts \ {r} : s \in DOMAIN receipts'

\* FTs come and go in the amounts that are sent, withdrawn or handed out.
Traded(x, asset, metadata) ==
    \A c : \E n \in FtAmounts \cup {0, metadata.tokens_per_use} :
        \/ FtBalance(x, c) = FtBalance(asset, c) + n
        \/ FtBalance(x, c) + n = FtBalance(asset, c)

\* The asset of d, if there is such a drop, becomes x and what r carries changes.
Placed(d, r, x) ==
    /\ AssetSet(d, x) /\ OnlyPromise(r)
    /\ d \in DOMAIN drop_by_id => /\ AssetKept(x, only_metadata(drop_by_id[d]))
                                  /\ SameKind(x, asset_of(d))
                                  /\ Traded(x, asset_of(d), only_metadata(drop_by_id[d]))
    /\ r \in DOMAIN receipts' => PromiseKept(receipts'[r])

\* No FTs are made of nothing.
FtEven(d, r, x) ==
    /\ HeldTyped'
    /\ \A c \in FtContracts :
          (IF d \in DOMAIN drop_by_id THEN FtBalance(x, c) ELSE 0) + ft_at(r, c)' + ft_held[c]
              <= ft_in(d, c) + ft_at(r, c) + ft_held'[c]

\* The NFTs of an asset, those the drop d has on record, and those on their way in r.
nfts(asset) == {<<asset.contract, token>> : token \in ToSet(asset.token_ids)}
nfts_in(d) == IF d \in DOMAIN asset_by_id THEN nfts(asset_of(d)) ELSE {}
nfts_at(r) == IF r \in DOMAIN receipts THEN NftsCarried(receipts[r]) ELSE {}

\* An NFT that Keypom owns is in one place, if any.
NftsApart ==
    /\ \A d : nfts_in(d) \subseteq nft_held
    /\ \A r : nfts_at(r) \subseteq nft_held
    /\ \A d, r : nfts_in(d) \cap nfts_at(r) = {}
    /\ \A d, e : d # e => nfts_in(d) \cap nfts_in(e) = {}
    /\ \A r, s : r # s => nfts_at(r) \cap nfts_at(s) = {}

\* The NFTs of d and r stay theirs, leave, or are forgotten; others come from outside.
NftEven(d, r, x) ==
    LET here == nfts_in(d) \cup nfts_at(r)
        left == IF d \in DOMAIN drop_by_id THEN nfts(x) ELSE {}
    IN  /\ left \cap nfts_at(r)' = {}
        /\ left \cup nfts_at(r)' \subseteq here \cup (nft_held' \ nft_held)
        /\ nft_held \ nft_held' \subseteq here \ (left \cup nfts_at(r)')

\* Drops keep their kind, and only d's asset changes.
LEMMA PlacedKept ==
    ASSUME Inv, Inv', Stocked, NEW d, NEW r, NEW x, Placed(d, r, x)
    PROVE  /\ Stocked' /\ KindsStay
           /\ DOMAIN asset_by_id' \ {d} = DOMAIN asset_by_id \ {d}
           /\ \A e \in DOMAIN asset_by_id \ {d} : asset_of(e)' = asset_of(e)
           /\ d \in DOMAIN asset_by_id' => d \in DOMAIN asset_by_id /\ asset_of(d)' = x
  <1>1. DOMAIN asset_by_id = DOMAIN drop_by_id /\ DOMAIN asset_by_id' = DOMAIN drop_by_id'
    BY DEF Inv
  <1>2. ASSUME NEW e \in DOMAIN drop_by_id'
        PROVE  /\ e \in DOMAIN drop_by_id
               /\ drop_by_id'[e].max_key_uses = drop_by_id[e].max_key_uses
               /\ drop_by_id'[e].asset_data_for_uses = drop_by_id[e].asset_data_for_uses
               /\ only_use(drop_by_id'[e]) = only_use(drop_by_id[e])
               /\ only_metadata(drop_by_id'[e]) = only_metadata(drop_by_id[e])
    BY DEF Placed, AssetSet, SameDrops, only_use, only_metadata
  <1>3. ASSUME NEW e \in DOMAIN drop_by_id', e # d
        PROVE  StockedWith(drop_by_id'[e], asset_by_id'[e]) /\ asset_of(e)' = asset_of(e)
    <2>1. asset_by_id'[e] = asset_by_id[e] /\ StockedWith(drop_by_id[e], asset_by_id[e])
      BY <1>2, <1>3 DEF Placed, AssetSet, Stocked
    <2>2. StockedWith(drop_by_id'[e], asset_by_id'[e])
      BY <1>2, <2>1 DEF StockedWith
    <2> QED
      BY <1>2, <2>1, <2>2 DEF asset_of, asset_id_of
  <1>4. ASSUME d \in DOMAIN drop_by_id'
        PROVE  StockedWith(drop_by_id'[d], asset_by_id'[d]) /\ asset_of(d)' = x
    <2>1. asset_by_id'[d] = [a \in {asset_id_of(d)} |-> x]
      BY <1>4 DEF Placed, AssetSet
    <2>2. StockedWith(drop_by_id[d], asset_by_id[d]) /\ AssetKept(x, only_metadata(drop_by_id[d]))
      BY <1>2, <1>4 DEF Stocked, Placed
    <2>3. StockedWith(drop_by_id'[d], asset_by_id'[d])
      BY <1>2, <1>4, <2>1, <2>2 DEF StockedWith, asset_id_of
    <2> QED
      BY <1>2, <1>4, <2>1, <2>3 DEF asset_of, asset_id_of
  <1>5. Stocked'
    BY <1>3, <1>4 DEF Stocked
  <1>6. KindsStay
    BY <1>2, <1>3, <1>4 DEF KindsStay, Placed, SameKind
  <1>7. DOMAIN drop_by_id' \ {d} = DOMAIN drop_by_id \ {d}
    BY <1>2 DEF Placed, AssetSet
  <1> QED
    BY <1>1, <1>2, <1>3, <1>4, <1>5, <1>6, <1>7

\* So promises stay what their assets' promises are.
LEMMA PlacedPromises ==
    ASSUME Inv, Inv', Held', Stocked, Promised, NEW d, NEW r, NEW x, Placed(d, r, x)
    PROVE  Promised'
  <1>1. ASSUME NEW s \in DOMAIN receipts' PROVE PromiseKept(receipts'[s])
    <2>1. CASE s = r
      BY <2>1 DEF Placed
    <2>2. CASE s # r
      <3>1. s \in DOMAIN receipts /\ receipts'[s] = receipts[s]
        BY <2>2 DEF Placed, OnlyPromise
      <3>2. PromiseKept(receipts[s])
        BY <3>1 DEF Promised
      <3> QED
        BY <3>1, <3>2
    <2> QED
      BY <2>1, <2>2
  <1>2. KindsStay
    BY PlacedKept
  <1> QED
    BY <1>1, <1>2, PromisesStay

\* NFTs stay apart.
LEMMA NftsStayApart ==
    ASSUME Inv, Inv', Stocked, NEW d, NEW r, NEW x, Placed(d, r, x), NftEven(d, r, x), NftsApart
    PROVE  NftsApart'
  <1> DEFINE here == nfts_in(d) \cup nfts_at(r)
             left == IF d \in DOMAIN drop_by_id THEN nfts(x) ELSE {}
             new_at == nfts_at(r)'
  <1>1. /\ left \cap new_at = {}
        /\ left \cup new_at \subseteq here \cup (nft_held' \ nft_held)
        /\ nft_held \ nft_held' \subseteq here \ (left \cup new_at)
    BY DEF NftEven
  <1>2. ASSUME NEW e, e # d PROVE nfts_in(e)' = nfts_in(e)
    <2>1. /\ e \in DOMAIN asset_by_id' <=> e \in DOMAIN asset_by_id
          /\ e \in DOMAIN asset_by_id => asset_of(e)' = asset_of(e)
      BY <1>2, PlacedKept
    <2> QED
      BY <2>1 DEF nfts_in, nfts
  <1>3. nfts_in(d)' \subseteq left
    <2>1. d \in DOMAIN asset_by_id' => d \in DOMAIN drop_by_id /\ asset_of(d)' = x
      BY PlacedKept DEF Inv
    <2> QED
      BY <2>1 DEF nfts_in, nfts
  <1>4. ASSUME NEW s, s # r PROVE nfts_at(s)' = nfts_at(s)
    BY <1>4 DEF Placed, OnlyPromise, nfts_at, NftsCarried
  <1>5. /\ \A e : e # d => nfts_in(e) \cap here = {} /\ nfts_in(e) \subseteq nft_held
        /\ \A s : s # r => nfts_at(s) \cap here = {} /\ nfts_at(s) \subseteq nft_held
        /\ here \subseteq nft_held
    BY DEF NftsApart
  <1> HIDE DEF here, left, new_at
  <1>6. left \subseteq nft_held' /\ new_at \subseteq nft_held'
    BY <1>1, <1>5
  <1>7. ASSUME NEW e, e # d
        PROVE  nfts_in(e) \subseteq nft_held' /\ nfts_in(e) \cap left = {} /\ nfts_in(e) \cap new_at = {}
    BY <1>1, <1>5, <1>7
  <1>8. ASSUME NEW s, s # r
        PROVE  nfts_at(s) \subseteq nft_held' /\ nfts_at(s) \cap left = {} /\ nfts_at(s) \cap new_at = {}
    BY <1>1, <1>5, <1>8
  <1>9. \A e : nfts_in(e)' \subseteq nft_held'
    BY <1>2, <1>3, <1>6, <1>7
  <1>10. \A s : nfts_at(s)' \subseteq nft_held'
    BY <1>4, <1>6, <1>8 DEF new_at
  <1>11. ASSUME NEW e, NEW s PROVE nfts_in(e)' \cap nfts_at(s)' = {}
    <2>1. CASE e = d /\ s = r
      BY <1>1, <1>3, <2>1 DEF new_at
    <2>2. CASE e = d /\ s # r
      BY <1>3, <1>4, <1>8, <2>2
    <2>3. CASE e # d /\ s = r
      BY <1>2, <1>7, <2>3 DEF new_at
    <2>4. CASE e # d /\ s # r
      BY <1>2, <1>4, <2>4 DEF NftsApart
    <2> QED
      BY <2>1, <2>2, <2>3, <2>4
  <1>12. ASSUME NEW e, NEW f, e # f PROVE nfts_in(e)' \cap nfts_in(f)' = {}
    <2>1. CASE e = d
      BY <1>2, <1>3, <1>7, <1>12, <2>1
    <2>2. CASE f = d
      BY <1>2, <1>3, <1>7, <1>12, <2>2
    <2>3. CASE e # d /\ f # d
      BY <1>2, <1>12, <2>3 DEF NftsApart
    <2> QED
      BY <2>1, <2>2, <2>3
  <1>13. ASSUME NEW s, NEW t, s # t PROVE nfts_at(s)' \cap nfts_at(t)' = {}
    <2>1. CASE s = r
      BY <1>4, <1>8, <1>13, <2>1 DEF new_at
    <2>2. CASE t = r
      BY <1>4, <1>8, <1>13, <2>2 DEF new_at
    <2>3. CASE s # r /\ t # r
      BY <1>4, <1>13, <2>3 DEF NftsApart
    <2> QED
      BY <2>1, <2>2, <2>3
  <1>14. NftsApart' <=> /\ \A e : nfts_in(e)' \subseteq nft_held'
                        /\ \A s : nfts_at(s)' \subseteq nft_held'
                        /\ \A e, s : nfts_in(e)' \cap nfts_at(s)' = {}
                        /\ \A e, f : e # f => nfts_in(e)' \cap nfts_in(f)' = {}
                        /\ \A s, t : s # t => nfts_at(s)' \cap nfts_at(t)' = {}
    BY DEF NftsApart
  <1> QED
    BY <1>9, <1>10, <1>11, <1>12, <1>13, <1>14

-----------------------------------------------------------------------------
(* What a claim takes from the asset is what its promise carries.          *)

\* What the promise carries is gone from the record, and nothing else, ...
LEMMA TakenFromAsset ==
    ASSUME NEW asset, NEW metadata, AssetKept(asset, metadata), NEW claimed,
           ClaimTakes(asset, metadata, claimed), claimed.promise # None
    PROVE  LET p == unwrap(claimed.promise)
               x == claimed.asset
           IN  /\ AssetKept(x, metadata) /\ SameKind(x, asset)
               /\ p.type = "ft" => p.amount \in Nat
               /\ \A c : FtBalance(x, c) + ft_of(p, c) = FtBalance(asset, c)
               /\ nfts(x) \cup nfts_of(p) = nfts(asset) /\ nfts(x) \cap nfts_of(p) = {}
               /\ \A receipt : receipt.promise = p /\ receipt.token_ids = <<get_next_token_id(asset)>>
                     => ClaimKept(receipt, asset, metadata)
  <1> DEFINE p == unwrap(claimed.promise)
             x == claimed.asset
  <1>1. p.type = asset.type /\ p.contract = asset.contract
    BY DEF ClaimTakes
  <1>2. p.calls # << >> => \E args : p.calls = claim_fc_asset(asset.methods, args)
    BY DEF ClaimTakes
  <1>3. CASE asset.type = "ft"
    <2> DEFINE n == metadata.tokens_per_use
    <2>1. p.amount = n /\ x = add_to_balance_avail(asset, -n) /\ n \in Nat
          /\ asset.balance_avail \in Nat /\ asset.balance_avail >= n
      BY <1>3 DEF ClaimTakes, AssetKept, enough_balance
    <2>2. -n \in Int /\ asset.balance_avail + (-n) >= 0
      BY <2>1
    <2>3. /\ AssetKept(x, metadata) /\ SameKind(x, asset)
          /\ x.balance_avail = asset.balance_avail + (-n)
          /\ x.token_ids = asset.token_ids
      <3> HIDE DEF n, x
      <3> QED
        BY <1>3, <2>1, <2>2, BalanceChanged
    <2> HIDE DEF n, x, p
    <2>4. \A c : FtBalance(x, c) + ft_of(p, c) = FtBalance(asset, c)
      BY <1>1, <1>3, <2>1, <2>3 DEF FtBalance, ft_of, SameKind
    <2>5. asset.token_ids = << >> /\ x.token_ids = << >>
      BY <1>3, <2>3 DEF AssetKept
    <2>6. nfts(x) = {} /\ nfts(asset) = {} /\ nfts_of(p) = {}
      BY <1>1, <1>3, <2>5 DEF nfts, nfts_of, ToSet
    <2>7. \A receipt : receipt.promise = p => ClaimKept(receipt, asset, metadata)
      BY <1>1, <1>2, <1>3, <2>1 DEF ClaimKept, n
    <2> QED
      BY <2>1, <2>3, <2>4, <2>6, <2>7 DEF p, x
  <1>4. CASE asset.type = "nft"
    <2> DEFINE ids == asset.token_ids
    <2>1. ids # << >> /\ p.token = Last(ids) /\ x = [asset EXCEPT !.token_ids = Front(ids)]
      BY <1>4 DEF ClaimTakes
    <2>2. ids \in Seq(NftTokens) /\ IsInjective(ids)
      BY DEF AssetKept
    <2>3. /\ Front(ids) \in Seq(NftTokens) /\ IsInjective(Front(ids)) /\ Last(ids) \in NftTokens
          /\ ToSet(ids) = ToSet(Front(ids)) \cup {Last(ids)} /\ Last(ids) \notin ToSet(Front(ids))
      BY <2>1, <2>2, FrontOfIds
    <2>4. /\ AssetKept(x, metadata) /\ SameKind(x, asset)
          /\ x.balance_avail = asset.balance_avail /\ x.token_ids = Front(ids)
      BY <1>4, <2>1, <2>3, TokenIdsChanged
    <2>5. get_next_token_id(asset) = Some(p.token)
      BY <1>4, <2>1 DEF get_next_token_id
    <2> HIDE DEF p, x
    <2>6. \A c : FtBalance(x, c) = 0 /\ ft_of(p, c) = 0 /\ FtBalance(asset, c) = 0
      BY <1>1, <1>4, <2>4 DEF FtBalance, ft_of, SameKind
    <2>7. nfts_of(p) = {<<asset.contract, Last(ids)>>}
      BY <1>1, <1>4, <2>1 DEF nfts_of
    <2>8. nfts(x) = {<<asset.contract, token>> : token \in ToSet(Front(ids))}
      BY <2>4 DEF nfts, SameKind
    <2>9. nfts(asset) = {<<asset.contract, token>> : token \in ToSet(ids)}
      BY DEF nfts
    <2>10. nfts(x) \cup nfts_of(p) = nfts(asset) /\ nfts(x) \cap nfts_of(p) = {}
      <3> HIDE DEF ids
      <3> QED
        BY <2>3, <2>7, <2>8, <2>9
    <2>11. \A receipt : receipt.promise = p /\ receipt.token_ids = <<get_next_token_id(asset)>>
              => ClaimKept(receipt, asset, metadata)
      BY <1>1, <1>2, <1>4, <2>1, <2>3, <2>5 DEF ClaimKept
    <2> QED
      BY <1>1, <1>4, <2>4, <2>6, <2>10, <2>11 DEF p, x
  <1>5. CASE asset.type \notin {"ft", "nft"}
    <2>1. x = asset
      BY <1>5 DEF ClaimTakes
    <2>2. asset.token_ids = << >>
      BY <1>5 DEF AssetKept
    <2>3. nfts(asset) = {}
      BY <2>2 DEF nfts, ToSet
    <2>4. nfts_of(p) = {} /\ \A c : ft_of(p, c) = 0 /\ FtBalance(asset, c) = 0
      BY <1>1, <1>5 DEF nfts_of, ft_of, FtBalance
    <2>5. \A receipt : receipt.promise = p => ClaimKept(receipt, asset, metadata)
      BY <1>1, <1>2, <1>5 DEF ClaimKept
    <2> HIDE DEF x, p
    <2> QED
      BY <1>1, <1>5, <2>1, <2>3, <2>4, <2>5 DEF SameKind, p, x
  <1> QED
    BY <1>3, <1>4, <1>5

\* ... and what a failed claim gives back.
LEMMA GivenBackToAsset ==
    ASSUME NEW asset, NEW metadata, AssetKept(asset, metadata), NEW receipt,
           ClaimKept(receipt, asset, metadata), nfts(asset) \cap nfts_of(receipt.promise) = {}
    PROVE  LET p == receipt.promise
               x == on_failed_claim(asset, metadata.tokens_per_use, receipt.token_ids[1]).asset
           IN  /\ AssetKept(x, metadata) /\ SameKind(x, asset)
               /\ \A c : FtBalance(x, c) = FtBalance(asset, c) + ft_of(p, c)
               /\ nfts(x) = nfts(asset) \cup nfts_of(p)
  <1> DEFINE p == receipt.promise
             x == on_failed_claim(asset, metadata.tokens_per_use, receipt.token_ids[1]).asset
  <1>1. p.type = asset.type /\ p.contract = asset.contract
    BY DEF ClaimKept
  <1>2. CASE asset.type = "ft"
    <2> DEFINE n == metadata.tokens_per_use
    <2>1. p.amount = n /\ x = add_to_balance_avail(asset, n) /\ n \in Nat
          /\ asset.balance_avail \in Nat
      BY <1>1, <1>2 DEF ClaimKept, AssetKept, on_failed_claim
    <2>2. /\ AssetKept(x, metadata) /\ SameKind(x, asset)
          /\ x.balance_avail = asset.balance_avail + n
          /\ x.token_ids = asset.token_ids
      <3>1. n \in Int /\ asset.balance_avail + n >= 0
        BY <2>1
      <3> HIDE DEF n, x
      <3> QED
        BY <1>2, <2>1, <3>1, BalanceChanged
    <2> HIDE DEF n, x, p
    <2>3. \A c : FtBalance(x, c) = FtBalance(asset, c) + ft_of(p, c)
      BY <1>1, <1>2, <2>1, <2>2 DEF FtBalance, ft_of, SameKind
    <2>4. asset.token_ids = << >> /\ x.token_ids = << >>
      BY <1>2, <2>2 DEF AssetKept
    <2>5. nfts(x) = {} /\ nfts(asset) = {} /\ nfts_of(p) = {}
      BY <1>1, <1>2, <2>4 DEF nfts, nfts_of, ToSet
    <2> QED
      BY <2>2, <2>3, <2>5 DEF p, x
  <1>3. CASE asset.type = "nft"
    <2> DEFINE ids == asset.token_ids
    <2>1. p.token \in NftTokens /\ receipt.token_ids[1] = Some(p.token)
      BY <1>1, <1>3 DEF ClaimKept
    <2>2. unwrap(Some(p.token)) = p.token
      BY DEF unwrap, Some
    <2>3. x = [asset EXCEPT !.token_ids = ids \o <<p.token>>]
      BY <1>3, <2>1, <2>2 DEF on_failed_claim, add_to_token_ids
    <2>4. nfts_of(p) = {<<asset.contract, p.token>>}
      BY <1>1, <1>3 DEF nfts_of
    <2>5. p.token \notin ToSet(ids)
      BY <2>4 DEF nfts
    <2>6. <<p.token>> \in Seq(NftTokens) /\ IsInjective(<<p.token>>) /\ ToSet(<<p.token>>) = {p.token}
      BY <2>1 DEF IsInjective, ToSet
    <2>7. ids \in Seq(NftTokens) /\ IsInjective(ids)
      BY DEF AssetKept
    <2> DEFINE new == ids \o <<p.token>>
    <2>8. new \in Seq(NftTokens) /\ IsInjective(new) /\ ToSet(new) = ToSet(ids) \cup {p.token}
      <3> DEFINE t == <<p.token>>
      <3>1. ToSet(ids) \cap ToSet(t) = {}
        BY <2>5, <2>6
      <3>2. t \in Seq(NftTokens) /\ IsInjective(t) /\ ToSet(t) = {p.token}
        BY <2>6
      <3> HIDE DEF t, ids
      <3>3. ids \o t \in Seq(NftTokens) /\ IsInjective(ids \o t) /\ ToSet(ids \o t) = ToSet(ids) \cup ToSet(t)
        BY <2>7, <3>1, <3>2, ConcatApart
      <3> QED
        BY <3>2, <3>3 DEF t
    <2>9. x = [asset EXCEPT !.token_ids = new]
      BY <2>3
    <2> HIDE DEF new, ids, p, x
    <2>13. /\ AssetKept(x, metadata) /\ SameKind(x, asset)
           /\ x.balance_avail = asset.balance_avail /\ x.token_ids = new
      BY <1>3, <2>8, <2>9, TokenIdsChanged
    <2>10. \A c : FtBalance(x, c) = 0 /\ ft_of(p, c) = 0 /\ FtBalance(asset, c) = 0
      BY <1>1, <1>3, <2>13 DEF FtBalance, ft_of, SameKind
    <2>11. nfts(x) = {<<asset.contract, token>> : token \in ToSet(new)}
      BY <2>13 DEF nfts, SameKind
    <2>12. nfts(x) = nfts(asset) \cup nfts_of(p)
      BY <2>4, <2>8, <2>11 DEF nfts, ids
    <2> QED
      BY <2>10, <2>12, <2>13 DEF p, x
  <1>4. CASE asset.type \notin {"ft", "nft"}
    <2>1. x = asset
      BY <1>4 DEF on_failed_claim
    <2>2. nfts_of(p) = {} /\ \A c : ft_of(p, c) = 0 /\ FtBalance(asset, c) = 0
      BY <1>1, <1>4 DEF nfts_of, ft_of, FtBalance
    <2> HIDE DEF x, p
    <2> QED
      BY <2>1, <2>2 DEF SameKind, p, x
  <1> QED
    BY <1>2, <1>3, <1>4

-----------------------------------------------------------------------------
(* Sums of FTs.                                                            *)

Kept ==
    /\ Inv /\ Held /\ OneUseEach /\ FinitelyMany
    /\ Stocked /\ Promised /\ HeldTyped /\ NftsApart

\* A drop has on record what its asset has.
LEMMA FtOfDrop ==
    ASSUME Stocked, NEW d \in DOMAIN drop_by_id, NEW c
    PROVE  FtRecorded(d, c) = FtBalance(asset_of(d), c) /\ FtRecorded(d, c) \in Nat
  <1> DEFINE f == [a \in DOMAIN asset_by_id[d] |-> FtBalance(asset_by_id[d][a], c)]
  <1>1. AssetKept(asset_of(d), only_metadata(drop_by_id[d]))
    BY OnlyRecord
  <1>2. FtBalance(asset_of(d), c) \in Nat
    BY <1>1 DEF FtBalance, AssetKept
  <1>3. DOMAIN f = {asset_id_of(d)} /\ f[asset_id_of(d)] = FtBalance(asset_of(d), c)
    BY DEF Stocked, StockedWith, asset_of, asset_id_of
  <1> HIDE DEF f
  <1>4. SumFunction(f) = FtBalance(asset_of(d), c)
    BY <1>2, <1>3, SumOfOne
  <1> QED
    BY <1>2, <1>4 DEF FtRecorded, f

\* A promise carries no less than nothing.
LEMMA FtOfPromise ==
    ASSUME Stocked, Promised, NEW r \in DOMAIN receipts, NEW c
    PROVE  FtCarried(receipts[r], c) \in Nat
  <1>1. PromiseKept(receipts[r])
    BY DEF Promised
  <1>2. CASE receipts[r].kind = "claim"
    <2>1. PICK d \in DOMAIN drop_by_id :
             ClaimKept(receipts[r], asset_of(d), only_metadata(drop_by_id[d]))
      BY <1>1, <1>2 DEF PromiseKept
    <2>2. AssetKept(asset_of(d), only_metadata(drop_by_id[d]))
      BY OnlyRecord
    <2> QED
      BY <2>1, <2>2 DEF ClaimKept, AssetKept, FtCarried
  <1>3. CASE receipts[r].kind = "ft_refund"
    BY <1>1, <1>3, FtAssumption DEF PromiseKept, RefundKept, FtCarried
  <1>4. CASE receipts[r].kind \notin {"claim", "ft_refund"}
    BY <1>4 DEF FtCarried
  <1> QED
    BY <1>2, <1>3, <1>4

\* The sums of FtCommitted are over amounts.
FtOfDrops(c) == [d \in DOMAIN asset_by_id |-> FtRecorded(d, c)]
FtOfPromises(c) == [r \in DOMAIN receipts |-> FtCarried(receipts[r], c)]

FtCounted ==
    \A c : /\ Amounts(FtOfDrops(c)) /\ Amounts(FtOfPromises(c))
           /\ \A d \in DOMAIN asset_by_id : FtRecorded(d, c) = FtBalance(asset_of(d), c)
           /\ \A d : amount_at(FtOfDrops(c), d) = ft_in(d, c)
           /\ \A r : amount_at(FtOfPromises(c), r) = ft_at(r, c)

\* The sums of FtCommitted are over finite sets of numbers.
LEMMA FtIsCounted == Kept => FtCounted
  <1> SUFFICES ASSUME Kept, NEW c
               PROVE  /\ Amounts(FtOfDrops(c)) /\ Amounts(FtOfPromises(c))
                      /\ \A d \in DOMAIN asset_by_id : FtRecorded(d, c) = FtBalance(asset_of(d), c)
                      /\ \A d : amount_at(FtOfDrops(c), d) = ft_in(d, c)
                      /\ \A r : amount_at(FtOfPromises(c), r) = ft_at(r, c)
    BY DEF FtCounted
  <1>1. DOMAIN asset_by_id = DOMAIN drop_by_id
    BY DEF Kept, Inv
  <1>2. \A d \in DOMAIN asset_by_id :
           FtRecorded(d, c) = FtBalance(asset_of(d), c) /\ FtRecorded(d, c) \in Nat
    BY <1>1, FtOfDrop DEF Kept
  <1>3. \A r \in DOMAIN receipts : FtCarried(receipts[r], c) \in Nat
    BY FtOfPromise DEF Kept
  <1> QED
    BY <1>1, <1>2, <1>3
    DEF Amounts, amount_at, ft_in, ft_at, Kept, FinitelyMany, FtOfDrops, FtOfPromises

\* Nothing committed comes of nothing.
LEMMA FtMoved ==
    ASSUME Kept, Kept', NEW d, NEW r, NEW x, Placed(d, r, x), FtEven(d, r, x), FtBacked
    PROVE  FtBacked'
  <1> SUFFICES ASSUME NEW c \in FtContracts PROVE (FtCommitted(c) <= ft_held[c])'
    BY DEF FtBacked
  <1>1. /\ DOMAIN asset_by_id' \ {d} = DOMAIN asset_by_id \ {d}
        /\ \A e \in DOMAIN asset_by_id \ {d} : asset_of(e)' = asset_of(e)
        /\ d \in DOMAIN asset_by_id' => d \in DOMAIN asset_by_id /\ asset_of(d)' = x
    BY PlacedKept DEF Kept
  <1>2. FtCounted /\ FtCounted'
    BY FtIsCounted, PTL
  <1> DEFINE f == FtOfDrops(c)
             g == FtOfPromises(c)
             f2 == FtOfDrops(c)'
             g2 == FtOfPromises(c)'
  <1>3. Amounts(f) /\ Amounts(g) /\ amount_at(f, d) = ft_in(d, c) /\ amount_at(g, r) = ft_at(r, c)
    BY <1>2 DEF FtCounted
  <1>4. Amounts(f2) /\ Amounts(g2) /\ amount_at(f2, d) = ft_in(d, c)' /\ amount_at(g2, r) = ft_at(r, c)'
    BY <1>2 DEF FtCounted, Amounts, amount_at
  <1>5. SumFunction(f2) + ft_in(d, c) = SumFunction(f) + ft_in(d, c)'
    <2>1. /\ \A e \in DOMAIN asset_by_id : FtRecorded(e, c) = FtBalance(asset_of(e), c)
          /\ \A e \in DOMAIN asset_by_id' : FtRecorded(e, c)' = FtBalance(asset_of(e)', c)
      BY <1>2 DEF FtCounted, FtBalance
    <2>2. \A e \in DOMAIN asset_by_id \ {d} : FtRecorded(e, c) = FtRecorded(e, c)'
      BY <1>1, <2>1
    <2>3. DOMAIN f = DOMAIN asset_by_id /\ DOMAIN f2 = DOMAIN asset_by_id'
      BY DEF FtOfDrops
    <2>4. \A e \in DOMAIN f \ {d} : f[e] = f2[e]
      BY <1>1, <2>2 DEF FtOfDrops
    <2> HIDE DEF f, f2
    <2> QED
      BY <1>1, <1>3, <1>4, <2>3, <2>4, SumChangedAt
  <1>6. SumFunction(g2) + ft_at(r, c) = SumFunction(g) + ft_at(r, c)'
    <2>1. /\ DOMAIN g \ {r} = DOMAIN g2 \ {r}
          /\ \A s \in DOMAIN g \ {r} : g[s] = g2[s]
      BY DEF Placed, OnlyPromise, FtOfPromises
    <2> HIDE DEF g, g2
    <2> QED
      BY <1>3, <1>4, <2>1, SumChangedAt
  <1>7. ft_in(d, c)' + ft_at(r, c)' + ft_held[c] <= ft_in(d, c) + ft_at(r, c) + ft_held'[c]
    <2> DEFINE new == IF d \in DOMAIN drop_by_id THEN FtBalance(x, c) ELSE 0
    <2>1. new + ft_at(r, c)' + ft_held[c] <= ft_in(d, c) + ft_at(r, c) + ft_held'[c]
      BY DEF FtEven
    <2>2. DOMAIN asset_by_id = DOMAIN drop_by_id
      BY DEF Kept, Inv
    <2>3. CASE d \in DOMAIN asset_by_id'
      <3>1. ft_in(d, c)' = new
        BY <1>1, <2>2, <2>3 DEF ft_in, FtBalance
      <3> QED
        BY <2>1, <3>1
    <2>4. CASE d \notin DOMAIN asset_by_id'
      <3>1. ft_in(d, c)' = 0
        BY <2>4 DEF ft_in
      <3>2. new \in Nat
        BY DEF Placed, FtBalance, AssetKept
      <3>3. /\ ft_held[c] \in Nat /\ ft_held'[c] \in Nat
            /\ ft_in(d, c) \in Nat /\ ft_at(r, c) \in Nat /\ ft_at(r, c)' \in Nat
        BY <1>3, <1>4, SumOfAmounts DEF Kept, HeldTyped
      <3> HIDE DEF new
      <3> QED
        BY <2>1, <3>1, <3>2, <3>3
    <2> QED
      BY <2>3, <2>4
  <1>8. SumFunction(f) + SumFunction(g) <= ft_held[c]
    BY DEF FtBacked, FtCommitted, FtOfDrops, FtOfPromises
  <1>9. /\ ft_held[c] \in Nat /\ ft_held'[c] \in Nat
        /\ SumFunction(f) \in Nat /\ SumFunction(g) \in Nat
        /\ SumFunction(f2) \in Nat /\ SumFunction(g2) \in Nat
        /\ ft_in(d, c) \in Nat /\ ft_at(r, c) \in Nat /\ ft_in(d, c)' \in Nat /\ ft_at(r, c)' \in Nat
    BY <1>3, <1>4, SumOfAmounts DEF Kept, HeldTyped
  <1>10. FtCommitted(c)' = SumFunction(f2) + SumFunction(g2)
    BY DEF FtCommitted, FtOfDrops, FtOfPromises
  <1> HIDE DEF f, g, f2, g2
  <1> QED
    BY <1>5, <1>6, <1>7, <1>8, <1>9, <1>10

\* New drops hold nothing.
LEMMA FtDropsAdded ==
    ASSUME Kept, Kept', FtBacked, UNCHANGED <<receipts, ft_held>>,
           DOMAIN asset_by_id \subseteq DOMAIN asset_by_id',
           \A d \in DOMAIN asset_by_id : asset_of(d)' = asset_of(d),
           \A d \in DOMAIN asset_by_id' \ DOMAIN asset_by_id : asset_of(d)'.balance_avail = 0
    PROVE  FtBacked'
  <1> SUFFICES ASSUME NEW c \in FtContracts PROVE (FtCommitted(c) <= ft_held[c])'
    BY DEF FtBacked
  <1>1. FtCounted /\ FtCounted'
    BY FtIsCounted, PTL
  <1> DEFINE f == FtOfDrops(c)
             f2 == FtOfDrops(c)'
  <1>2. Amounts(f) /\ Amounts(f2)
    BY <1>1 DEF FtCounted, Amounts
  <1>3. /\ \A e \in DOMAIN asset_by_id : FtRecorded(e, c) = FtBalance(asset_of(e), c)
        /\ \A e \in DOMAIN asset_by_id' : FtRecorded(e, c)' = FtBalance(asset_of(e)', c)
    BY <1>1 DEF FtCounted, FtBalance
  <1>4. \A e \in DOMAIN asset_by_id : FtRecorded(e, c) = FtRecorded(e, c)'
    BY <1>3
  <1>5. \A e \in DOMAIN asset_by_id' \ DOMAIN asset_by_id : FtRecorded(e, c)' = 0
    BY <1>3 DEF FtBalance
  <1>6. /\ DOMAIN f = DOMAIN asset_by_id /\ DOMAIN f2 = DOMAIN asset_by_id'
        /\ \A e \in DOMAIN asset_by_id : f[e] = f2[e]
        /\ \A e \in DOMAIN asset_by_id' \ DOMAIN asset_by_id : f2[e] = 0
    BY <1>4, <1>5 DEF FtOfDrops
  <1>7. FtCommitted(c)' = SumFunction(f2) + SumFunction([s \in DOMAIN receipts |-> FtCarried(receipts[s], c)])
    BY DEF FtCommitted, FtOfDrops
  <1> HIDE DEF f, f2
  <1>8. SumFunction(f2) = SumFunction(f)
    BY <1>2, <1>6, SumExtended
  <1> QED
    BY <1>7, <1>8 DEF FtBacked, FtCommitted, f, FtOfDrops

\* What every step but the creation of drops does.
Moves == \E d, r, x : Placed(d, r, x) /\ FtEven(d, r, x) /\ NftEven(d, r, x)

\* Nothing is on its way in r but a call for an account or fees.
carries_nothing(r) ==
    r \in DOMAIN receipts => receipts[r].kind \notin {"claim", "ft_refund", "nft_refund"}

\* No FTs of an asset come or go, ...
LEMMA NothingTraded ==
    ASSUME NEW x, NEW asset, NEW metadata, AssetKept(asset, metadata),
           x.type = asset.type, x.contract = asset.contract, x.balance_avail = asset.balance_avail
    PROVE  Traded(x, asset, metadata)
  <1>1. \A c : FtBalance(asset, c) \in Nat /\ FtBalance(x, c) = FtBalance(asset, c)
    BY DEF AssetKept, FtBalance
  <1>2. \A c : FtBalance(x, c) = FtBalance(asset, c) + 0
    BY <1>1
  <1> QED
    BY <1>2 DEF Traded

\* ... and what is given to a promise or taken from it is an amount.
LEMMA PromiseTraded ==
    ASSUME NEW x, NEW asset, NEW metadata, NEW p, p.type = "ft" => p.amount = metadata.tokens_per_use,
           \A c : \/ FtBalance(x, c) = FtBalance(asset, c) + ft_of(p, c)
                 \/ FtBalance(x, c) + ft_of(p, c) = FtBalance(asset, c)
    PROVE  Traded(x, asset, metadata)
  <1>1. \A c : ft_of(p, c) \in {0, metadata.tokens_per_use}
    BY DEF ft_of
  <1> QED
    BY <1>1 DEF Traded

\* Steps that move no tokens: a drop may be removed and promises without tokens come and go.
LEMMA QuietMoves ==
    ASSUME Kept, NEW d, NEW r, AssetSet(d, asset_of(d)), OnlyPromise(r),
           (carries_nothing(r) /\ carries_nothing(r)') \/ UNCHANGED receipts,
           UNCHANGED <<ft_held, nft_held>>
    PROVE  Moves
  <1> DEFINE x == asset_of(d)
  <1>1. d \in DOMAIN drop_by_id => AssetKept(x, only_metadata(drop_by_id[d])) /\ SameKind(x, asset_of(d))
    BY OnlyRecord DEF Kept, SameKind
  <1>2. DOMAIN asset_by_id = DOMAIN drop_by_id
    BY DEF Kept, Inv
  <1>3. r \in DOMAIN receipts' => PromiseKept(receipts'[r])
    BY DEF carries_nothing, PromiseKept, RefundKept, Kept, Promised
  <1>4. \A c : ft_at(r, c)' = ft_at(r, c)
    BY DEF carries_nothing, ft_at, FtCarried
  <1>5. nfts_at(r)' = nfts_at(r)
    BY DEF carries_nothing, nfts_at, NftsCarried
  <1>6. Placed(d, r, x)
    <2>1. d \in DOMAIN drop_by_id => Traded(x, asset_of(d), only_metadata(drop_by_id[d]))
      BY <1>1, NothingTraded
    <2> QED
      BY <1>1, <1>3, <2>1 DEF Placed
  <1>7. FtEven(d, r, x)
    <2>1. \A c : (IF d \in DOMAIN drop_by_id THEN FtBalance(x, c) ELSE 0) = ft_in(d, c)
      BY <1>2 DEF ft_in
    <2>2. HeldTyped /\ HeldTyped'
      BY DEF Kept, HeldTyped
    <2>3. \A c : ft_in(d, c) \in Nat /\ ft_at(r, c) \in Nat
      <3>1. FtCounted
        BY FtIsCounted
      <3> QED
        BY <3>1, SumOfAmounts DEF FtCounted
    <2> QED
      BY <1>4, <2>1, <2>2, <2>3 DEF FtEven, HeldTyped
  <1>8. NftEven(d, r, x)
    <2>1. (IF d \in DOMAIN drop_by_id THEN nfts(x) ELSE {}) = nfts_in(d)
      BY <1>2 DEF nfts_in
    <2>2. nfts_in(d) \cap nfts_at(r) = {}
      BY DEF Kept, NftsApart
    <2> HIDE DEF x
    <2> QED
      BY <1>5, <2>1, <2>2 DEF NftEven
  <1> QED
    BY <1>6, <1>7, <1>8 DEF Moves

-----------------------------------------------------------------------------
(* Claims.                                                                 *)

\* What claim_all makes of the only asset of the drop d.
ClaimedAsset(d, claimed, c) ==
    /\ \E args : c = claim_asset(asset_of(d), only_metadata(drop_by_id[d]).tokens_per_use, args)
    /\ ClaimTakes(asset_of(d), only_metadata(drop_by_id[d]), c)
    /\ claimed.assets = [a \in {asset_id_of(d)} |-> c.asset]
    /\ claimed.token_ids = <<get_next_token_id(asset_of(d))>>
    /\ claimed.promises = <<c.promise>>

\* claim_all folds over the only asset.
LEMMA ClaimOfOne ==
    ASSUME Stocked, NEW t, parse_token_id(t) \in DOMAIN drop_by_id, NEW keys,
           keys[t].remaining_uses = 0, NEW fc_args
    PROVE  \E c : ClaimedAsset(parse_token_id(t), assets_of_last_use(t, keys, fc_args), c)
  <1> DEFINE d == parse_token_id(t)
             m == only_metadata(drop_by_id[d])
             claimed == assets_of_last_use(t, keys, fc_args)
  <1>1. last_use_data(drop_by_id[d], keys[t]) = only_use(drop_by_id[d])
    BY LastUseIsOnly DEF Stocked
  <1>2. only_use(drop_by_id[d]).assets_metadata = <<m>>
    BY DEF Stocked, StockedWith
  <1>3. claimed = claim_all(asset_by_id[d], <<m>>, fc_args)
    BY <1>1, <1>2 DEF assets_of_last_use
  <1>4. m.asset_id = asset_id_of(d) /\ asset_by_id[d][m.asset_id] = asset_of(d)
    BY DEF asset_id_of, asset_of
  <1> HIDE DEF d, m, claimed
  <1>5. PICK args :
           LET c == claim_asset(asset_of(d), m.tokens_per_use, args)
           IN  claimed = [assets |-> [asset_by_id[d] EXCEPT ![asset_id_of(d)] = c.asset],
                          token_ids |-> <<get_next_token_id(asset_of(d))>>,
                          promises |-> <<c.promise>>]
    <2>1. \E args :
             LET c == claim_asset(asset_by_id[d][m.asset_id], m.tokens_per_use, args)
             IN  claim_all(asset_by_id[d], <<m>>, fc_args) =
                    [assets |-> [asset_by_id[d] EXCEPT ![m.asset_id] = c.asset],
                     token_ids |-> <<get_next_token_id(asset_by_id[d][m.asset_id])>>,
                     promises |-> <<c.promise>>]
      BY OneClaim
    <2> QED
      BY <1>3, <1>4, <2>1
  <1> DEFINE c == claim_asset(asset_of(d), m.tokens_per_use, args)
  <1>6. ClaimTakes(asset_of(d), m, c)
    <2>1. AssetKept(asset_of(d), m)
      BY OnlyRecord DEF d, m
    <2> QED
      BY <2>1, ClaimAsset
  <1> HIDE DEF c
  <1>7. [asset_by_id[d] EXCEPT ![asset_id_of(d)] = c.asset] = [a \in {asset_id_of(d)} |-> c.asset]
    BY OnlyRecord DEF d
  <1>8. claimed = [assets |-> [asset_by_id[d] EXCEPT ![asset_id_of(d)] = c.asset],
                   token_ids |-> <<get_next_token_id(asset_of(d))>>, promises |-> <<c.promise>>]
    BY <1>5 DEF c
  <1>9. \E given : c = claim_asset(asset_of(d), m.tokens_per_use, given)
    BY DEF c
  <1>10. ClaimedAsset(d, claimed, c)
    BY <1>6, <1>7, <1>8, <1>9 DEF ClaimedAsset, m
  <1> QED
    BY <1>10 DEF d, claimed

\* A claim puts what it takes from the asset into its promise.
LEMMA AwaitedMoves ==
    ASSUME Kept, NEW d \in DOMAIN drop_by_id, NEW c, NEW r,
           ClaimTakes(asset_of(d), only_metadata(drop_by_id[d]), c), c.promise # None,
           AssetSet(d, c.asset), OnlyPromise(r), carries_nothing(r),
           r \in DOMAIN receipts', receipts'[r].kind = "claim",
           parse_token_id(receipts'[r].token_id) = d, receipts'[r].promise = unwrap(c.promise),
           receipts'[r].token_ids = <<get_next_token_id(asset_of(d))>>,
           UNCHANGED <<ft_held, nft_held>>
    PROVE  Moves
  <1> DEFINE asset == asset_of(d)
             m == only_metadata(drop_by_id[d])
             x == c.asset
             p == unwrap(c.promise)
             receipt == receipts'[r]
  <1>1. AssetKept(asset, m)
    BY OnlyRecord DEF Kept
  <1> HIDE DEF asset, m
  <1>2. /\ AssetKept(x, m) /\ SameKind(x, asset)
        /\ \A k : FtBalance(x, k) + ft_of(p, k) = FtBalance(asset, k)
        /\ nfts(x) \cup nfts_of(p) = nfts(asset) /\ nfts(x) \cap nfts_of(p) = {}
        /\ \A s : s.promise = p /\ s.token_ids = <<get_next_token_id(asset)>> => ClaimKept(s, asset, m)
        /\ p.type = "ft" => p.amount = m.tokens_per_use
    <2>1. ClaimTakes(asset, m, c)
      BY DEF asset, m
    <2>2. p.type = "ft" => p.amount = m.tokens_per_use
      BY <2>1 DEF ClaimTakes
    <2> HIDE DEF p
    <2> QED
      BY <1>1, <2>1, <2>2, TakenFromAsset, Zenon DEF p
  <1> HIDE DEF x, p, receipt
  <1>3. receipt.kind = "claim" /\ receipt.promise = p /\ parse_token_id(receipt.token_id) = d
        /\ receipt.token_ids = <<get_next_token_id(asset)>>
    BY DEF receipt, p, asset
  <1>4. ClaimKept(receipt, asset, m)
    BY <1>2, <1>3
  <1>5. PromiseKept(receipt)
    BY <1>3, <1>4 DEF PromiseKept, RefundKept, asset, m
  <1>6. Placed(d, r, x)
    <2>1. Traded(x, asset, m)
      BY <1>2, PromiseTraded
    <2> QED
      BY <1>2, <1>5, <2>1 DEF Placed, asset, m, receipt, x
  <1>7. DOMAIN asset_by_id = DOMAIN drop_by_id
    BY DEF Kept, Inv
  <1>8. /\ \A k : ft_at(r, k) = 0 /\ ft_at(r, k)' = ft_of(p, k)
        /\ nfts_at(r) = {} /\ nfts_at(r)' = nfts_of(p)
    BY <1>3 DEF carries_nothing, ft_at, FtCarried, ft_of, nfts_at, NftsCarried, nfts_of, receipt
  <1>9. FtEven(d, r, x)
    <2>1. \A k : ft_in(d, k) = FtBalance(asset, k)
      BY <1>7 DEF ft_in, asset
    <2>2. HeldTyped /\ HeldTyped'
      BY DEF Kept, HeldTyped
    <2>3. \A k : FtBalance(asset, k) \in Nat
      BY <1>1 DEF AssetKept, FtBalance
    <2> QED
      BY <1>2, <1>8, <2>1, <2>2, <2>3 DEF FtEven, HeldTyped
  <1>10. NftEven(d, r, x)
    <2>1. nfts_in(d) = nfts(asset)
      BY <1>7 DEF nfts_in, asset
    <2> QED
      BY <1>2, <1>8, <2>1 DEF NftEven
  <1> QED
    BY <1>6, <1>9, <1>10 DEF Moves

\* A claim hands out the asset, or finds nothing to hand out and cleans up.
LEMMA ClaimedMoves ==
    ASSUME Kept, NEW t, NEW keys, keys[t].remaining_uses = 0, NEW claimed, NEW c, NEW use,
           parse_token_id(t) \in DOMAIN drop_by_id, ClaimedAsset(parse_token_id(t), claimed, c),
           NEW lost, NEW results, results \in {<< >>, <<TRUE>>},
           internal_claim_assets(t, keys, claimed, results, lost),
           NEW r, OnlyPromise(r), carries_nothing(r) \/ (~is_awaited(claimed) /\ UNCHANGED receipts),
           is_awaited(claimed) =>
               r \in DOMAIN receipts' /\ receipts'[r] = ClaimReceipt(t, use, claimed),
           ~is_awaited(claimed) => UNCHANGED receipts \/ r \notin DOMAIN receipts'
    PROVE  Moves
  <1> DEFINE d == parse_token_id(t)
  <1>1. /\ is_awaited(claimed) <=> c.promise # None
        /\ c.promise # None => fired_promises(claimed) = <<unwrap(c.promise)>>
        /\ detached_promises(claimed) = << >>
    BY OnePromise DEF ClaimedAsset
  <1>2. UNCHANGED <<ft_held, nft_held>>
    <2>1. settle(<< >>, lost_promises(<< >>, lost))
      BY <1>1 DEF internal_claim_assets
    <2> QED
      BY <2>1, NothingSettled DEF Kept
  <1>3. SameDrops
    BY ClaimedAssetsDrops
  <1>4. ClaimTakes(asset_of(d), only_metadata(drop_by_id[d]), c)
        /\ claimed.assets = [a \in {asset_id_of(d)} |-> c.asset]
        /\ claimed.token_ids = <<get_next_token_id(asset_of(d))>>
    BY DEF ClaimedAsset
  <1>5. CASE is_awaited(claimed)
    <2>1. UNCHANGED drop_by_id /\ asset_by_id' = [asset_by_id EXCEPT ![d] = claimed.assets]
      BY <1>5 DEF internal_claim_assets
    <2>2. AssetSet(d, c.asset)
      BY <1>3, <1>4, <2>1, AssetWritten DEF Kept
    <2>3. receipts'[r] = ClaimReceipt(t, use, claimed) /\ Last(fired_promises(claimed)) = unwrap(c.promise)
      <3>1. receipts'[r] = ClaimReceipt(t, use, claimed)
        BY <1>5
      <3>2. \A p : Last(<<p>>) = p
        BY DEF Last
      <3>3. fired_promises(claimed) = <<unwrap(c.promise)>>
        BY <1>1, <1>5
      <3> QED
        BY <3>1, <3>2, <3>3
    <2>4. /\ receipts'[r].kind = "claim" /\ receipts'[r].token_id = t
          /\ receipts'[r].promise = unwrap(c.promise)
          /\ receipts'[r].token_ids = <<get_next_token_id(asset_of(d))>>
      BY <1>4, <2>3 DEF ClaimReceipt
    <2> HIDE DEF d
    <2> QED
      BY <1>1, <1>2, <1>4, <1>5, <2>2, <2>4, AwaitedMoves DEF d
  <1>6. CASE ~is_awaited(claimed)
    <2>1. c.asset = asset_of(d)
      BY <1>1, <1>4, <1>6 DEF ClaimTakes
    <2>2. on_assets_claimed(t, keys, claimed.assets, claimed.token_ids, results)
      BY <1>6 DEF internal_claim_assets
    <2>3. results \in {<< >>, <<TRUE>>, <<FALSE>>} /\ results # <<FALSE>>
      <3>1. << >> # <<FALSE>>
        OBVIOUS
      <3>2. <<TRUE>>[1] # <<FALSE>>[1]
        OBVIOUS
      <3> QED
        BY <3>1, <3>2
    <2>4. AssetSet(d, given_back(d, c.asset, claimed.token_ids, results = <<FALSE>>))
      <3>1. claimed.assets = only_asset(d, c.asset) /\ Inv /\ Stocked
        BY <1>4 DEF only_asset, Kept
      <3>2. GivesBack(d, c.asset, claimed.token_ids, results)
        BY <2>2, <2>3, <3>1, AssetsClaimed
      <3> QED
        BY <3>2 DEF GivesBack
    <2>5. AssetSet(d, asset_of(d))
      BY <2>1, <2>3, <2>4 DEF given_back
    <2>6. (carries_nothing(r) /\ carries_nothing(r)') \/ UNCHANGED receipts
      BY <1>6 DEF carries_nothing
    <2> HIDE DEF d
    <2> QED
      BY <1>2, <2>5, <2>6, QuietMoves
  <1> QED
    BY <1>5, <1>6

\* Firing a promise adds one, ...
LEMMA FiredOne ==
    ASSUME NEW receipt, Fire(receipt)
    PROVE  \E r : /\ r \notin DOMAIN receipts /\ r \in DOMAIN receipts'
                  /\ receipts'[r] = receipt /\ OnlyPromise(r)
  <1>1. NewReceipt \in FreeReceipts
    BY DEF Fire, NewReceipt
  <1>2. NewReceipt \notin DOMAIN receipts
    BY <1>1 DEF FreeReceipts
  <1> QED
    BY <1>2 DEF Fire, With, OnlyPromise

\* ... and a callback takes one away.
LEMMA ResolvedOne ==
    ASSUME NEW r, Resolve(r)
    PROVE  r \notin DOMAIN receipts' /\ OnlyPromise(r)
  BY DEF Resolve, Without, Restrict, OnlyPromise

\* Claiming a key does so with its last use.
LEMMA ClaimStepMoves ==
    ASSUME Kept, NEW pk \in DOMAIN token_id_by_pk, NEW fc_args, NEW lost, Claim(pk, fc_args, lost)
    PROVE  Moves
  <1> DEFINE t == token_id_by_pk[pk]
             keys == keys_after_claim(pk)
             use == get_key_cur_use(drop_by_id[parse_token_id(t)], key_info_by_token_id[t])
             claimed == assets_of_last_use(t, keys, fc_args)
  <1>1. t \in DOMAIN key_info_by_token_id /\ keys[t].remaining_uses = 0
    BY ClaimDepletes DEF Kept
  <1>2. parse_token_id(t) \in DOMAIN drop_by_id
    BY <1>1 DEF Kept, Inv, Current, Registry, Housed
  <1>3. claim_of(t, keys, use, claimed, lost)
    BY DEF Claim
  <1> HIDE DEF t, keys, use, claimed
  <1>4. PICK c : ClaimedAsset(parse_token_id(t), claimed, c)
    BY <1>1, <1>2, ClaimOfOne DEF Kept, claimed
  <1>5. internal_claim_assets(t, keys, claimed, << >>, lost)
    BY <1>3 DEF claim_of
  <1>6. CASE is_awaited(claimed)
    <2>1. PICK r : /\ r \notin DOMAIN receipts /\ r \in DOMAIN receipts'
                   /\ receipts'[r] = ClaimReceipt(t, use, claimed) /\ OnlyPromise(r)
      BY <1>3, <1>6, FiredOne DEF claim_of
    <2> QED
      BY <1>1, <1>2, <1>4, <1>5, <1>6, <2>1, ClaimedMoves DEF carries_nothing
  <1>7. CASE ~is_awaited(claimed)
    <2>1. UNCHANGED receipts
      BY <1>3, <1>7 DEF claim_of
    <2>2. OnlyPromise(t)
      BY <2>1 DEF OnlyPromise
    <2> QED
      BY <1>1, <1>2, <1>4, <1>5, <1>7, <2>1, <2>2, ClaimedMoves
  <1> QED
    BY <1>6, <1>7

\* A created account is handed the asset then.
LEMMA CreatedMoves ==
    ASSUME Kept, NEW r, NEW lost, OnNewAccountCreated(r, lost)
    PROVE  Moves
  <1> DEFINE t == receipts[r].token_id
             keys == key_info_by_token_id
             use == receipts[r].use
             claimed == assets_for(receipts[r])
  <1>1. /\ claim_in_flight(r, "create_account") /\ callback_finds_key(r)
        /\ hand_out(r, claimed, lost)
    BY DEF OnNewAccountCreated
  <1>2. keys[t].remaining_uses = 0
    BY <1>1 DEF Kept, Held, claims, is_claim, claim_in_flight
  <1>3. parse_token_id(t) \in DOMAIN drop_by_id
    BY <1>1 DEF callback_finds_key
  <1>4. /\ internal_claim_assets(t, keys, claimed, <<TRUE>>, lost)
        /\ receipts' = IF is_awaited(claimed)
                       THEN [receipts EXCEPT ![r] = ClaimReceipt(t, use, claimed)]
                       ELSE Without(receipts, {r})
    BY <1>1 DEF hand_out
  <1>5. r \in DOMAIN receipts /\ carries_nothing(r)
    BY <1>1 DEF claim_in_flight, carries_nothing
  <1>6. claimed = assets_of_last_use(t, keys, receipts[r].fc_args)
    BY DEF assets_for
  <1> HIDE DEF t, keys, use, claimed
  <1>7. PICK c : ClaimedAsset(parse_token_id(t), claimed, c)
    BY <1>2, <1>3, <1>6, ClaimOfOne DEF Kept
  <1>8. OnlyPromise(r)
    BY <1>4, <1>5 DEF OnlyPromise, Without, Restrict
  <1>9. is_awaited(claimed) => r \in DOMAIN receipts' /\ receipts'[r] = ClaimReceipt(t, use, claimed)
    BY <1>4, <1>5
  <1>10. ~is_awaited(claimed) => r \notin DOMAIN receipts'
    BY <1>4 DEF Without, Restrict
  <1> QED
    BY <1>2, <1>3, <1>4, <1>5, <1>7, <1>8, <1>9, <1>10, ClaimedMoves

\* A failed creation hands out nothing and cleans up.
LEMMA CreationFailedMoves ==
    ASSUME Kept, NEW r, OnAccountCreationFailed(r)
    PROVE  Moves
  <1> DEFINE t == receipts[r].token_id
             d == parse_token_id(t)
  <1>1. /\ claim_in_flight(r, "create_account") /\ callback_finds_key(r) /\ Resolve(r)
        /\ UNCHANGED <<ft_held, nft_held>>
    BY DEF OnAccountCreationFailed, holdings
  <1>2. d \in DOMAIN drop_by_id
    BY <1>1 DEF callback_finds_key
  <1>3. \E withdrawn, refund :
           handle_key_cleanup(t, key_info_by_token_id, asset_by_id[d], withdrawn, refund, 0)
    BY DEF OnAccountCreationFailed
  <1>4. asset_by_id[d] = [a \in {asset_id_of(d)} |-> asset_of(d)]
    BY <1>2, OnlyRecord DEF Kept
  <1>5. AssetSet(d, asset_of(d))
    BY <1>2, <1>3, <1>4, CleanupSets DEF Kept
  <1>6. carries_nothing(r) /\ carries_nothing(r)' /\ OnlyPromise(r)
    BY <1>1, ResolvedOne DEF claim_in_flight, carries_nothing
  <1> HIDE DEF d
  <1> QED
    BY <1>1, <1>5, <1>6, QuietMoves

\* The transfer took what the promise carries, or it goes back to the drop.
LEMMA AssetsClaimedMoves ==
    ASSUME Kept, NEW r, NEW lost, OnAssetsClaimed(r, lost)
    PROVE  Moves
  <1> DEFINE receipt == receipts[r]
             t == receipt.token_id
             d == parse_token_id(t)
             p == receipt.promise
             fails == has_failed(p, lost)
             asset == asset_of(d)
             m == only_metadata(drop_by_id[d])
             x == IF fails THEN on_failed_claim(asset, m.tokens_per_use, receipt.token_ids[1]).asset
                           ELSE asset
  <1>1. /\ r \in DOMAIN receipts /\ receipt.kind = "claim" /\ Resolve(r)
        /\ settle(<<p>>, IF ~fails THEN {} ELSE {1})
        /\ IF on_assets_claimed_defined(t, receipt.token_ids, ~fails)
           THEN on_assets_claimed(t, key_info_by_token_id, asset_by_id[d], receipt.token_ids, <<~fails>>)
           ELSE UNCHANGED <<drop_by_id, asset_by_id, key_info_by_token_id, drop_ids_by_funder,
                            user_balance>>
    BY DEF OnAssetsClaimed, claim_in_flight
  <1>2. t \in DOMAIN key_info_by_token_id /\ key_info_by_token_id[t].remaining_uses = 0
    BY <1>1 DEF Kept, Held, claims, is_claim
  <1>3. d \in DOMAIN drop_by_id /\ ClaimKept(receipt, asset, m)
    BY <1>1 DEF Kept, Promised, PromiseKept
  <1>4. /\ AssetKept(asset, m) /\ asset_by_id[d] = [a \in {asset_id_of(d)} |-> asset]
    BY <1>3, OnlyRecord DEF Kept
  <1>5. fails \in BOOLEAN
    BY DEF has_failed
  <1>6. on_assets_claimed_defined(t, receipt.token_ids, ~fails)
    <2>1. last_use_data(drop_by_id[d], key_info_by_token_id[t]) = only_use(drop_by_id[d])
      BY <1>2, <1>3, LastUseIsOnly DEF Kept, Stocked
    <2>2. only_use(drop_by_id[d]).assets_metadata = <<m>>
      BY <1>3 DEF Kept, Stocked, StockedWith
    <2>3. <<m>> # << >> /\ <<m>>[1] = m /\ asset_by_id[d][m.asset_id] = asset
      BY DEF asset_of, asset_id_of
    <2>4. asset.type = "nft" => receipt.token_ids[1] # None
      <3>1. asset.type = "nft" => receipt.token_ids = <<Some(p.token)>>
        BY <1>3 DEF ClaimKept
      <3>2. <<Some(p.token)>>[1] = Some(p.token) /\ Some(p.token) # None
        BY DEF Some, None
      <3> HIDE DEF p, receipt, asset
      <3> QED
        BY <3>1, <3>2
    <2> HIDE DEF m, asset, receipt, fails
    <2> QED
      BY <1>2, <1>3, <2>1, <2>2, <2>3, <2>4 DEF on_assets_claimed_defined
  <1>7. on_assets_claimed(t, key_info_by_token_id, asset_by_id[d], receipt.token_ids, <<~fails>>)
    BY <1>1, <1>6
  <1>8. AssetSet(d, x)
    <2>1. <<~fails>> \in {<< >>, <<TRUE>>, <<FALSE>>} /\ (<<~fails>> = <<FALSE>>) = fails
      BY <1>5
    <2>2. AssetSet(d, given_back(d, asset, receipt.token_ids, <<~fails>> = <<FALSE>>))
      <3> HIDE DEF fails, asset
      <3>1. asset_by_id[d] = only_asset(d, asset) /\ Inv /\ Stocked
        BY <1>4 DEF only_asset, Kept
      <3>2. GivesBack(d, asset, receipt.token_ids, <<~fails>>)
        BY <1>2, <1>3, <1>7, <2>1, <3>1, AssetsClaimed
      <3> QED
        BY <3>2 DEF GivesBack
    <2>3. given_back(d, asset, receipt.token_ids, fails) = x
      BY DEF given_back, on_failed_claim
    <2> HIDE DEF d, fails, x, asset
    <2> QED
      BY <2>1, <2>2, <2>3
  <1> HIDE DEF receipt, t, d, p, fails, asset, m, x
  <1>9. OnlyPromise(r) /\ r \notin DOMAIN receipts'
    BY <1>1, ResolvedOne
  <1>10. DOMAIN asset_by_id = DOMAIN drop_by_id
    BY DEF Kept, Inv
  <1>11. nfts_in(d) = nfts(asset) /\ \A c : ft_in(d, c) = FtBalance(asset, c)
    BY <1>3, <1>10 DEF nfts_in, ft_in, asset
  <1>12. /\ \A c : ft_at(r, c) = ft_of(p, c) /\ ft_at(r, c)' = 0
         /\ nfts_at(r) = nfts_of(p) /\ nfts_at(r)' = {}
    BY <1>1, <1>9 DEF ft_at, FtCarried, ft_of, nfts_at, NftsCarried, nfts_of, p, receipt
  <1>13. nfts(asset) \cap nfts_of(p) = {} /\ nfts(asset) \subseteq nft_held /\ nfts_of(p) \subseteq nft_held
    BY <1>11, <1>12 DEF Kept, NftsApart
  <1>14. /\ AssetKept(x, m) /\ SameKind(x, asset)
         /\ \A c : FtBalance(x, c) = FtBalance(asset, c) + IF fails THEN ft_of(p, c) ELSE 0
         /\ nfts(x) = nfts(asset) \cup IF fails THEN nfts_of(p) ELSE {}
    <2>1. CASE fails
      <3>1. x = on_failed_claim(asset, m.tokens_per_use, receipt.token_ids[1]).asset
        BY <2>1 DEF x
      <3> QED
        BY <1>3, <1>4, <1>13, <2>1, <3>1, GivenBackToAsset DEF p
    <2>2. CASE ~fails
      <3>1. x = asset
        BY <2>2 DEF x
      <3>2. \A c : FtBalance(asset, c) \in Nat
        BY <1>4 DEF AssetKept, FtBalance
      <3> QED
        BY <1>4, <2>2, <3>1, <3>2 DEF SameKind
    <2> QED
      BY <2>1, <2>2
  <1>15. /\ HeldTyped'
         /\ \A c \in FtContracts : ft_held[c] = ft_held'[c] + IF fails THEN 0 ELSE ft_of(p, c)
         /\ fails => nft_held' = nft_held
         /\ ~fails => nfts_of(p) \subseteq nft_held /\ nft_held' = nft_held \ nfts_of(p)
    <2>1. p.type = "ft" => p.amount \in Nat
      BY <1>3, <1>4 DEF ClaimKept, AssetKept, p
    <2>2. settle(<<p>>, IF fails THEN {1} ELSE {})
      BY <1>1, <1>5
    <2> QED
      BY <1>5, <2>1, <2>2, OneSettled DEF Kept
  <1>16. Placed(d, r, x)
    <2>1. Traded(x, asset, m)
      <3>1. p.type = "ft" => p.amount = m.tokens_per_use
        BY <1>3 DEF ClaimKept, p
      <3>2. CASE fails
        BY <1>14, <3>1, <3>2, PromiseTraded
      <3>3. CASE ~fails
        <4>1. x = asset
          BY <3>3 DEF x
        <4> QED
          BY <1>4, <4>1, NothingTraded
      <3> QED
        BY <3>2, <3>3
    <2> QED
      BY <1>8, <1>9, <1>14, <2>1 DEF Placed, m, asset
  <1>17. FtEven(d, r, x)
    <2>1. \A c : FtBalance(asset, c) \in Nat
      BY <1>4 DEF AssetKept, FtBalance
    <2>2. \A c : ft_of(p, c) \in Nat
      BY <1>3, <1>4 DEF ClaimKept, AssetKept, p, ft_of
    <2> QED
      BY <1>5, <1>11, <1>12, <1>14, <1>15, <2>1, <2>2 DEF FtEven, HeldTyped
  <1>18. NftEven(d, r, x)
    BY <1>11, <1>12, <1>13, <1>14, <1>15 DEF NftEven
  <1> QED
    BY <1>16, <1>17, <1>18 DEF Moves

-----------------------------------------------------------------------------
(* Tokens in and out of a drop.                                            *)

\* A drop that has an asset of this ID has no other.
LEMMA OnlyContractAsset ==
    ASSUME Kept, NEW d, NEW contract, has_asset(d, contract_asset_id(contract))
    PROVE  /\ d \in DOMAIN drop_by_id /\ contract_asset_id(contract) = asset_id_of(d)
           /\ asset_by_id[d][contract_asset_id(contract)] = asset_of(d)
           /\ AssetKept(asset_of(d), only_metadata(drop_by_id[d]))
           /\ asset_of(d).type \in {"ft", "nft"} => asset_of(d).contract = contract
  <1>1. d \in DOMAIN drop_by_id
    BY DEF Kept, Inv, has_asset
  <1>2. AssetKept(asset_of(d), only_metadata(drop_by_id[d]))
        /\ asset_by_id[d] = [a \in {asset_id_of(d)} |-> asset_of(d)]
    BY <1>1, OnlyRecord DEF Kept
  <1>3. contract_asset_id(contract) = asset_id_of(d)
    BY <1>2 DEF has_asset
  <1>4. asset_of(d).type \in {"ft", "nft"} =>
           contract_asset_id(asset_of(d).contract) = contract_asset_id(contract)
    BY <1>2, <1>3 DEF AssetKept, asset_id_of
  <1>5. \A c, k : contract_asset_id(c) = contract_asset_id(k) => c = k
    BY DEF contract_asset_id
  <1> QED
    BY <1>1, <1>2, <1>3, <1>4, <1>5

\* Writing the record of the only asset, with no drop changed.
LEMMA RecordSet ==
    ASSUME Kept, NEW d \in DOMAIN drop_by_id, NEW x, UNCHANGED drop_by_id,
           asset_by_id' = [asset_by_id EXCEPT ![d][asset_id_of(d)] = x]
    PROVE  AssetSet(d, x)
  <1>1. [asset_by_id[d] EXCEPT ![asset_id_of(d)] = x] = [a \in {asset_id_of(d)} |-> x]
    BY OnlyRecord DEF Kept
  <1>2. SameDrops
    BY DEF SameDrops
  <1> QED
    BY <1>1, <1>2, AssetWritten DEF Kept

\* With no drop and no record changed, any drop's asset stays.
LEMMA RecordsStay ==
    ASSUME Kept, NEW d, UNCHANGED <<drop_by_id, asset_by_id>>
    PROVE  AssetSet(d, asset_of(d))
  <1>1. SameDrops
    BY DEF SameDrops
  <1>2. d \in DOMAIN drop_by_id => AssetSet(d, asset_of(d))
    BY <1>1, NoAssetWritten DEF Kept
  <1> QED
    BY <1>1, <1>2 DEF AssetSet

\* Steps that move only FTs ...
LEMMA FtMoves ==
    ASSUME Kept, NEW d \in DOMAIN drop_by_id, NEW r, NEW x, AssetSet(d, x), OnlyPromise(r),
           AssetKept(x, only_metadata(drop_by_id[d])), SameKind(x, asset_of(d)),
           Traded(x, asset_of(d), only_metadata(drop_by_id[d])),
           x.token_ids = asset_of(d).token_ids, nfts_at(r)' = nfts_at(r), UNCHANGED nft_held,
           r \in DOMAIN receipts' => PromiseKept(receipts'[r]), HeldTyped',
           \A c \in FtContracts : FtBalance(x, c) + ft_at(r, c)' + ft_held[c]
                                      <= FtBalance(asset_of(d), c) + ft_at(r, c) + ft_held'[c]
    PROVE  Moves
  <1>1. DOMAIN asset_by_id = DOMAIN drop_by_id
    BY DEF Kept, Inv
  <1>2. Placed(d, r, x)
    BY DEF Placed
  <1>3. FtEven(d, r, x)
    BY <1>1 DEF FtEven, ft_in
  <1>4. NftEven(d, r, x)
    <2>1. nfts(x) = nfts(asset_of(d)) /\ nfts_in(d) = nfts(asset_of(d))
      BY <1>1 DEF nfts, nfts_in, SameKind
    <2>2. nfts_in(d) \cap nfts_at(r) = {}
      BY DEF Kept, NftsApart
    <2> QED
      BY <2>1, <2>2 DEF NftEven
  <1> QED
    BY <1>2, <1>3, <1>4 DEF Moves

\* ... and steps that move only NFTs.
LEMMA NftMoves ==
    ASSUME Kept, NEW d \in DOMAIN drop_by_id, NEW r, NEW x, AssetSet(d, x), OnlyPromise(r),
           AssetKept(x, only_metadata(drop_by_id[d])), SameKind(x, asset_of(d)),
           x.balance_avail = asset_of(d).balance_avail,
           \A c : ft_at(r, c)' = ft_at(r, c), UNCHANGED ft_held,
           r \in DOMAIN receipts' => PromiseKept(receipts'[r]),
           nfts(x) \cap nfts_at(r)' = {},
           nfts(x) \cup nfts_at(r)'
               \subseteq nfts(asset_of(d)) \cup nfts_at(r) \cup (nft_held' \ nft_held),
           nft_held \ nft_held'
               \subseteq (nfts(asset_of(d)) \cup nfts_at(r)) \ (nfts(x) \cup nfts_at(r)')
    PROVE  Moves
  <1>1. DOMAIN asset_by_id = DOMAIN drop_by_id
    BY DEF Kept, Inv
  <1>2. Placed(d, r, x)
    <2>1. AssetKept(asset_of(d), only_metadata(drop_by_id[d]))
      BY OnlyRecord DEF Kept
    <2>2. Traded(x, asset_of(d), only_metadata(drop_by_id[d]))
      BY <2>1, NothingTraded DEF SameKind
    <2> QED
      BY <2>2 DEF Placed
  <1>3. FtEven(d, r, x)
    <2>1. \A c : FtBalance(x, c) = ft_in(d, c)
      BY <1>1 DEF FtBalance, ft_in, SameKind
    <2>2. \A c : ft_in(d, c) \in Nat /\ ft_at(r, c) \in Nat
      <3>1. FtCounted
        BY FtIsCounted
      <3> QED
        BY <3>1, SumOfAmounts DEF FtCounted
    <2>3. HeldTyped /\ HeldTyped'
      BY DEF Kept, HeldTyped
    <2> QED
      BY <2>1, <2>2, <2>3 DEF FtEven, HeldTyped
  <1>4. NftEven(d, r, x)
    BY <1>1 DEF NftEven, nfts_in
  <1> QED
    BY <1>2, <1>3, <1>4 DEF Moves

\* FTs that arrive are recorded, or forgotten if the asset is none of theirs.
LEMMA FtArrivalMoves ==
    ASSUME Kept, NEW c \in FtContracts, NEW amount \in FtAmounts, NEW d, FtOnTransfer(c, amount, d)
    PROVE  Moves
  <1> DEFINE asset == asset_of(d)
             m == only_metadata(drop_by_id[d])
             x == IF asset.type = "ft" THEN add_to_balance_avail(asset, amount) ELSE asset
             id == contract_asset_id(c)
  <1>1. /\ has_asset(d, id)
        /\ asset_by_id' = [asset_by_id EXCEPT ![d][id] =
                              IF @.type = "ft" THEN add_to_balance_avail(@, amount) ELSE @]
        /\ ft_held' = [ft_held EXCEPT ![c] = @ + amount]
        /\ UNCHANGED <<drop_by_id, receipts, nft_held>>
    BY DEF FtOnTransfer, registry
  <1>2. /\ d \in DOMAIN drop_by_id /\ id = asset_id_of(d) /\ asset_by_id[d][id] = asset
        /\ AssetKept(asset, m)
        /\ asset.type \in {"ft", "nft"} => asset.contract = c
    BY <1>1, OnlyContractAsset
  <1> HIDE DEF id
  <1>3. asset_by_id' = [asset_by_id EXCEPT ![d][asset_id_of(d)] = x]
    BY <1>1, <1>2
  <1>4. amount \in Nat
    BY FtAssumption
  <1> HIDE DEF asset, m
  <1>5. /\ AssetKept(x, m) /\ SameKind(x, asset) /\ x.token_ids = asset.token_ids
        /\ x.balance_avail = asset.balance_avail + IF asset.type = "ft" THEN amount ELSE 0
    <2>1. asset.balance_avail \in Nat
      BY <1>2 DEF AssetKept
    <2>2. CASE asset.type = "ft"
      <3>1. amount \in Int /\ asset.balance_avail + amount >= 0
        BY <1>4, <2>1
      <3>2. x = add_to_balance_avail(asset, amount)
        BY <2>2
      <3> QED
        BY <1>2, <2>2, <3>1, <3>2, BalanceChanged
    <2>3. CASE asset.type # "ft"
      BY <1>2, <2>1, <2>3 DEF SameKind
    <2> QED
      BY <2>2, <2>3
  <1> HIDE DEF x
  <1>6. AssetSet(d, x)
    BY <1>1, <1>2, <1>3, RecordSet
  <1>7. OnlyPromise(d) /\ nfts_at(d)' = nfts_at(d) /\ \A k : ft_at(d, k)' = ft_at(d, k)
    BY <1>1 DEF OnlyPromise, nfts_at, ft_at
  <1>8. d \in DOMAIN receipts' => PromiseKept(receipts'[d])
    BY <1>1 DEF Kept, Promised
  <1>9. HeldTyped /\ HeldTyped'
    BY <1>1, <1>4 DEF Kept, HeldTyped
  <1>10. \A k : ft_at(d, k) \in Nat
    <2>1. FtCounted
      BY FtIsCounted
    <2> QED
      BY <2>1, SumOfAmounts DEF FtCounted
  <1>11. ASSUME NEW k \in FtContracts
         PROVE  FtBalance(x, k) + ft_at(d, k)' + ft_held[k]
                    <= FtBalance(asset, k) + ft_at(d, k) + ft_held'[k]
    <2>1. ft_held'[k] = ft_held[k] + IF k = c THEN amount ELSE 0
      BY <1>1, <1>4, <1>9 DEF HeldTyped
    <2>2. FtBalance(x, k) = FtBalance(asset, k) + IF k = c /\ asset.type = "ft" THEN amount ELSE 0
      BY <1>2, <1>5 DEF FtBalance, SameKind, AssetKept
    <2>3. FtBalance(asset, k) \in Nat /\ ft_held[k] \in Nat
      BY <1>2, <1>9 DEF FtBalance, AssetKept, HeldTyped
    <2> QED
      BY <1>4, <1>7, <1>10, <2>1, <2>2, <2>3
  <1>12. Traded(x, asset, m)
    <2>1. \A k : /\ FtBalance(asset, k) \in Nat
                /\ FtBalance(x, k) = FtBalance(asset, k) + IF k = c /\ asset.type = "ft" THEN amount ELSE 0
      BY <1>2, <1>5 DEF FtBalance, SameKind, AssetKept
    <2> QED
      BY <2>1 DEF Traded
  <1> QED
    BY <1>1, <1>2, <1>5, <1>6, <1>7, <1>8, <1>9, <1>11, <1>12, FtMoves DEF asset, m

\* FTs that are withdrawn are on their way.
LEMMA FtWithdrawalMoves ==
    ASSUME Kept, NEW caller, NEW d, NEW c \in FtContracts, NEW amount \in FtAmounts,
           WithdrawFtBalance(caller, d, c, amount)
    PROVE  Moves
  <1> DEFINE asset == asset_of(d)
             m == only_metadata(drop_by_id[d])
             x == ft_refund(asset, amount)
             id == contract_asset_id(c)
             receipt == [kind |-> "ft_refund", drop_id |-> d,
                         promise |-> Promise(asset, amount, NoToken, from_near(1))]
  <1>1. /\ has_asset(d, id)
        /\ asset_by_id[d][id].type = "ft" /\ enough_balance(asset_by_id[d][id], amount)
        /\ asset_by_id' = [asset_by_id EXCEPT ![d][id] = ft_refund(@, amount)]
        /\ Fire([kind |-> "ft_refund", drop_id |-> d,
                 promise |-> Promise(asset_by_id[d][id], amount, NoToken, from_near(1))])
        /\ UNCHANGED <<drop_by_id, ft_held, nft_held>>
    BY DEF WithdrawFtBalance, registry
  <1>2. /\ d \in DOMAIN drop_by_id /\ id = asset_id_of(d) /\ asset_by_id[d][id] = asset
        /\ AssetKept(asset, m)
        /\ asset.type = "ft" => asset.contract = c
    BY <1>1, OnlyContractAsset
  <1> HIDE DEF id
  <1>3. asset_by_id' = [asset_by_id EXCEPT ![d][asset_id_of(d)] = x]
    BY <1>1, <1>2
  <1>4. amount \in Nat
    BY FtAssumption
  <1>5. PICK r : /\ r \notin DOMAIN receipts /\ r \in DOMAIN receipts'
                 /\ receipts'[r] = receipt /\ OnlyPromise(r)
    BY <1>1, <1>2, FiredOne
  <1>6. /\ receipt.kind = "ft_refund" /\ receipt.promise.type = asset.type
        /\ receipt.promise.contract = asset.contract /\ receipt.promise.amount = amount
    BY DEF Promise
  <1>7. asset.type = "ft" /\ asset.contract = c /\ asset.balance_avail >= amount
    BY <1>1, <1>2 DEF enough_balance
  <1> HIDE DEF asset, m, receipt
  <1>8. asset.balance_avail \in Nat
    BY <1>2 DEF AssetKept
  <1>9. /\ AssetKept(x, m) /\ SameKind(x, asset) /\ x.token_ids = asset.token_ids
        /\ x.balance_avail = asset.balance_avail - amount
    <2>1. x = add_to_balance_avail(asset, -amount)
      <3>1. asset.balance_avail - amount = asset.balance_avail + (-amount)
        BY <1>4, <1>8
      <3> QED
        BY <3>1 DEF ft_refund, add_to_balance_avail
    <2>2. -amount \in Int /\ asset.balance_avail + (-amount) >= 0
      BY <1>4, <1>7, <1>8
    <2>3. asset.balance_avail + (-amount) = asset.balance_avail - amount
      BY <1>4, <1>8
    <2> QED
      BY <1>2, <1>7, <2>1, <2>2, <2>3, BalanceChanged
  <1> HIDE DEF x
  <1>10. AssetSet(d, x)
    BY <1>1, <1>2, <1>3, RecordSet
  <1>11. /\ nfts_at(r) = {} /\ nfts_at(r)' = {}
         /\ \A k : ft_at(r, k) = 0 /\ ft_at(r, k)' = IF k = c THEN amount ELSE 0
    BY <1>5, <1>6, <1>7 DEF nfts_at, NftsCarried, ft_at, FtCarried
  <1>12. PromiseKept(receipts'[r])
    BY <1>5, <1>6, <1>7 DEF PromiseKept, RefundKept
  <1>13. HeldTyped /\ HeldTyped'
    BY <1>1 DEF Kept, HeldTyped
  <1>14. ASSUME NEW k \in FtContracts
         PROVE  FtBalance(x, k) + ft_at(r, k)' + ft_held[k]
                    <= FtBalance(asset, k) + ft_at(r, k) + ft_held'[k]
    <2>1. ft_held'[k] = ft_held[k] /\ ft_held[k] \in Nat
      BY <1>1, <1>13 DEF HeldTyped
    <2>2. FtBalance(x, k) + (IF k = c THEN amount ELSE 0) = FtBalance(asset, k)
          /\ FtBalance(asset, k) \in Nat
      BY <1>4, <1>7, <1>8, <1>9 DEF FtBalance, SameKind
    <2>3. FtBalance(x, k) \in Int
      BY <1>4, <1>8, <1>9 DEF FtBalance
    <2> QED
      BY <1>4, <1>11, <2>1, <2>2, <2>3
  <1>15. Traded(x, asset, m)
    <2>1. \A k : FtBalance(x, k) + (IF k = c THEN amount ELSE 0) = FtBalance(asset, k)
      BY <1>4, <1>7, <1>8, <1>9 DEF FtBalance, SameKind
    <2> QED
      BY <2>1 DEF Traded
  <1> QED
    BY <1>1, <1>2, <1>5, <1>9, <1>10, <1>11, <1>12, <1>13, <1>14, <1>15, FtMoves DEF asset, m

\* A withdrawal that failed puts them back, if the drop still has the asset.
LEMMA FtRefundMoves ==
    ASSUME Kept, NEW r, NEW succeeded, FtResolveRefund(r, succeeded)
    PROVE  Moves
  <1> DEFINE p == receipts[r].promise
             d == receipts[r].drop_id
             id == contract_asset_id(p.contract)
             asset == asset_of(d)
             m == only_metadata(drop_by_id[d])
             back == ~succeeded /\ has_asset(d, id) /\ asset_by_id[d][id].type = "ft"
             x == IF back THEN add_to_balance_avail(asset, p.amount) ELSE asset
  <1>1. /\ r \in DOMAIN receipts /\ receipts[r].kind = "ft_refund" /\ Resolve(r)
        /\ settle(<<p>>, IF succeeded THEN {} ELSE {1})
        /\ IF back THEN asset_by_id' = [asset_by_id EXCEPT ![d][id] = add_to_balance_avail(@, p.amount)]
                   ELSE UNCHANGED asset_by_id
        /\ UNCHANGED drop_by_id
    BY DEF FtResolveRefund, registry
  <1>2. p.type = "ft" /\ p.amount \in FtAmounts /\ p.amount \in Nat
    BY <1>1, FtAssumption DEF Kept, Promised, PromiseKept, RefundKept
  <1>3. OnlyPromise(r) /\ r \notin DOMAIN receipts'
    BY <1>1, ResolvedOne
  <1>4. back => /\ d \in DOMAIN drop_by_id /\ id = asset_id_of(d) /\ asset_by_id[d][id] = asset
                /\ asset.type = "ft" /\ asset.contract = p.contract
    BY OnlyContractAsset
  <1>5. DOMAIN asset_by_id = DOMAIN drop_by_id
    BY DEF Kept, Inv
  <1> DEFINE fails == IF succeeded THEN FALSE ELSE TRUE
  <1>6. /\ HeldTyped'
        /\ \A c \in FtContracts : ft_held[c] = ft_held'[c] + IF fails THEN 0 ELSE ft_of(p, c)
        /\ fails => nft_held' = nft_held
        /\ ~fails => nfts_of(p) \subseteq nft_held /\ nft_held' = nft_held \ nfts_of(p)
    <2>1. fails \in BOOLEAN /\ settle(<<p>>, IF fails THEN {1} ELSE {})
      BY <1>1
    <2> HIDE DEF fails, p
    <2> QED
      BY <1>2, <2>1, OneSettled DEF Kept
  <1>7. nft_held' = nft_held
    BY <1>2, <1>6 DEF nfts_of
  <1>8. /\ nfts_at(r) = {} /\ nfts_at(r)' = {}
        /\ \A c : ft_at(r, c) = ft_of(p, c) /\ ft_at(r, c)' = 0
    BY <1>1, <1>3 DEF nfts_at, NftsCarried, ft_at, FtCarried, ft_of
  <1>9. \A c : ft_of(p, c) \in Nat
    BY <1>2 DEF ft_of
  <1>10. back => fails
    OBVIOUS
  <1>11. CASE d \notin DOMAIN drop_by_id
    <2>1. UNCHANGED asset_by_id
      BY <1>1, <1>4, <1>11
    <2>2. Placed(d, r, asset)
      BY <1>1, <1>3, <1>11, <2>1, RecordsStay DEF Placed
    <2>3. FtEven(d, r, asset)
      <3>1. \A c : ft_in(d, c) = 0
        BY <1>5, <1>11 DEF ft_in
      <3>2. HeldTyped
        BY DEF Kept
      <3> HIDE DEF p, d, asset
      <3> QED
        BY <1>6, <1>8, <1>9, <1>11, <3>1, <3>2 DEF FtEven, HeldTyped
    <2>4. NftEven(d, r, asset)
      BY <1>7, <1>8, <1>11 DEF NftEven
    <2> QED
      BY <2>2, <2>3, <2>4 DEF Moves
  <1>12. CASE d \in DOMAIN drop_by_id
    <2>1. AssetKept(asset, m)
      BY <1>12, OnlyRecord DEF Kept
    <2> HIDE DEF p, d, id, m, fails
    <2>2. asset.balance_avail \in Nat /\ SameKind(asset, asset)
      BY <2>1 DEF AssetKept, SameKind
    <2> DEFINE n == IF back THEN p.amount ELSE 0
    <2>3. /\ AssetKept(x, m) /\ SameKind(x, asset) /\ x.token_ids = asset.token_ids
          /\ x.balance_avail = asset.balance_avail + n
      <3>1. CASE back
        <4>1. p.amount \in Int /\ asset.balance_avail + p.amount >= 0
          BY <1>2, <2>2
        <4>2. asset.type = "ft" /\ x = add_to_balance_avail(asset, p.amount) /\ n = p.amount
          BY <1>4, <3>1
        <4> HIDE DEF asset, x, n, back
        <4> QED
          BY <2>1, <4>1, <4>2, BalanceChanged
      <3>2. CASE ~back
        <4>1. x = asset /\ n = 0
          BY <3>2
        <4> HIDE DEF asset, x, n, back
        <4> QED
          BY <2>1, <2>2, <4>1
      <3> QED
        BY <3>1, <3>2
    <2>4. AssetSet(d, x)
      <3>1. CASE back
        <4>1. asset_by_id' = [asset_by_id EXCEPT ![d][asset_id_of(d)] = x]
          BY <1>1, <1>4, <3>1
        <4> HIDE DEF x
        <4> QED
          BY <1>1, <1>12, <4>1, RecordSet
      <3>2. CASE ~back
        BY <1>1, <3>2, RecordsStay
      <3> QED
        BY <3>1, <3>2
    <2>5. \A c : FtBalance(x, c) <= FtBalance(asset, c) + IF fails THEN ft_of(p, c) ELSE 0
      <3> HIDE DEF asset, x, back
      <3> QED
        BY <1>2, <1>4, <1>10, <2>2, <2>3 DEF FtBalance, ft_of, SameKind
    <2>6. HeldTyped /\ \A c : FtBalance(x, c) \in Nat /\ FtBalance(asset, c) \in Nat
      BY <2>1, <2>3 DEF Kept, FtBalance, AssetKept
    <2> HIDE DEF x, asset, back
    <2>7. \A c \in FtContracts : FtBalance(x, c) + ft_at(r, c)' + ft_held[c]
                                    <= FtBalance(asset, c) + ft_at(r, c) + ft_held'[c]
      BY <1>6, <1>8, <1>9, <2>5, <2>6 DEF HeldTyped
    <2>8. Traded(x, asset, m)
      <3>1. \A c : \/ FtBalance(x, c) = FtBalance(asset, c) + 0
                  \/ FtBalance(x, c) = FtBalance(asset, c) + p.amount
        BY <1>2, <2>2, <2>3 DEF FtBalance, SameKind
      <3> QED
        BY <1>2, <3>1 DEF Traded
    <2> QED
      BY <1>3, <1>6, <1>7, <1>8, <1>12, <2>3, <2>4, <2>7, <2>8, FtMoves DEF asset, m
  <1> QED
    BY <1>11, <1>12

\* An NFT that arrives is recorded, or forgotten if the asset is none of its kind.
LEMMA NftArrivalMoves ==
    ASSUME Kept, NEW c, NEW token \in NftTokens, NEW sender, NEW d,
           NftOnTransfer(c, token, sender, d)
    PROVE  Moves
  <1> DEFINE asset == asset_of(d)
             m == only_metadata(drop_by_id[d])
             id == contract_asset_id(c)
             ids == asset.token_ids
             x == IF asset.type = "nft" THEN [asset EXCEPT !.token_ids = ids \o <<token>>] ELSE asset
  <1>1. /\ has_asset(d, id) /\ <<c, token>> \notin nft_held
        /\ nft_held' = nft_held \cup {<<c, token>>}
        /\ IF asset_by_id[d][id].type = "nft"
           THEN asset_by_id' = [asset_by_id EXCEPT ![d][id] = add_to_token_ids(@, <<token>>)]
           ELSE UNCHANGED asset_by_id
        /\ UNCHANGED <<drop_by_id, receipts, ft_held>>
    BY DEF NftOnTransfer, registry
  <1>2. /\ d \in DOMAIN drop_by_id /\ id = asset_id_of(d) /\ asset_by_id[d][id] = asset
        /\ AssetKept(asset, m)
        /\ asset.type = "nft" => asset.contract = c
    BY <1>1, OnlyContractAsset
  <1> HIDE DEF id
  <1>3. AssetSet(d, x)
    <2>1. CASE asset.type = "nft"
      <3>1. asset_by_id' = [asset_by_id EXCEPT ![d][asset_id_of(d)] = x]
        BY <1>1, <1>2, <2>1 DEF add_to_token_ids
      <3> HIDE DEF x
      <3> QED
        BY <1>1, <1>2, <3>1, RecordSet
    <2>2. CASE asset.type # "nft"
      BY <1>1, <1>2, <2>2, RecordsStay
    <2> QED
      BY <2>1, <2>2
  <1>4. nfts(asset) \subseteq nft_held
    <2>1. nfts_in(d) = nfts(asset)
      BY <1>2 DEF nfts_in, Kept, Inv
    <2> QED
      BY <2>1 DEF Kept, NftsApart
  <1> HIDE DEF asset, m
  <1>5. ids \in Seq(NftTokens) /\ IsInjective(ids)
    BY <1>2 DEF AssetKept
  <1>6. nfts(asset) = {<<asset.contract, k>> : k \in ToSet(ids)}
    BY DEF nfts
  <1>7. /\ AssetKept(x, m) /\ SameKind(x, asset) /\ x.balance_avail = asset.balance_avail
        /\ nfts(x) = nfts(asset) \cup IF asset.type = "nft" THEN {<<c, token>>} ELSE {}
    <2>1. CASE asset.type = "nft"
      <3> DEFINE t == <<token>>
                 new == ids \o t
      <3>1. t \in Seq(NftTokens) /\ IsInjective(t) /\ ToSet(t) = {token}
        BY DEF IsInjective, ToSet
      <3>2. token \notin ToSet(ids)
        BY <1>1, <1>2, <1>4, <1>6, <2>1
      <3>3. x = [asset EXCEPT !.token_ids = new]
        BY <2>1
      <3> HIDE DEF t, x, ids
      <3>4. new \in Seq(NftTokens) /\ IsInjective(new) /\ ToSet(new) = ToSet(ids) \cup ToSet(t)
        BY <1>5, <3>1, <3>2, ConcatApart
      <3> HIDE DEF new
      <3>5. /\ AssetKept(x, m) /\ SameKind(x, asset)
            /\ x.balance_avail = asset.balance_avail /\ x.token_ids = new
        BY <1>2, <2>1, <3>3, <3>4, TokenIdsChanged
      <3>6. nfts(x) = {<<c, k>> : k \in ToSet(ids) \cup {token}}
        BY <1>2, <2>1, <3>1, <3>4, <3>5 DEF nfts, SameKind
      <3>7. nfts(x) = nfts(asset) \cup {<<c, token>>}
        BY <1>2, <1>6, <2>1, <3>6
      <3> QED
        BY <2>1, <3>5, <3>7
    <2>2. CASE asset.type # "nft"
      <3>1. x = asset
        BY <2>2
      <3> HIDE DEF x
      <3> QED
        BY <1>2, <2>2, <3>1 DEF SameKind
    <2> QED
      BY <2>1, <2>2
  <1> HIDE DEF x
  <1>8. OnlyPromise(d) /\ nfts_at(d)' = nfts_at(d) /\ \A k : ft_at(d, k)' = ft_at(d, k)
    BY <1>1 DEF OnlyPromise, nfts_at, ft_at
  <1>9. d \in DOMAIN receipts' => PromiseKept(receipts'[d])
    BY <1>1 DEF Kept, Promised
  <1>10. nfts_at(d) \subseteq nft_held /\ nfts(asset) \cap nfts_at(d) = {}
    <2>1. nfts_in(d) = nfts(asset)
      BY <1>2 DEF nfts_in, Kept, Inv, asset
    <2> QED
      BY <2>1 DEF Kept, NftsApart
  <1>11. /\ nfts(x) \cap nfts_at(d)' = {}
         /\ nfts(x) \cup nfts_at(d)' \subseteq nfts(asset) \cup nfts_at(d) \cup (nft_held' \ nft_held)
         /\ nft_held \ nft_held' \subseteq (nfts(asset) \cup nfts_at(d)) \ (nfts(x) \cup nfts_at(d)')
    BY <1>1, <1>4, <1>7, <1>8, <1>10
  <1> QED
    BY <1>1, <1>2, <1>3, <1>7, <1>8, <1>9, <1>11, NftMoves DEF asset, m

\* NFTs that are withdrawn are on their way.
LEMMA NftWithdrawalMoves ==
    ASSUME Kept, NEW caller, NEW d, NEW c, NEW tokens, WithdrawNftTokens(caller, d, c, tokens)
    PROVE  Moves
  <1> DEFINE asset == asset_of(d)
             m == only_metadata(drop_by_id[d])
             id == contract_asset_id(c)
             ids == asset.token_ids
             left == only(ToSet(ids) \ tokens, ids)
             gone == only(tokens, ids)
             x == [asset EXCEPT !.token_ids = left]
             receipt == [kind |-> "nft_refund", drop_id |-> d, contract |-> c, token_ids |-> gone,
                         storage_released |-> NftBytes * Cardinality(tokens)]
  <1>1. /\ has_asset(d, id) /\ asset_by_id[d][id].type = "nft"
        /\ tokens \subseteq ToSet(asset_by_id[d][id].token_ids)
        /\ asset_by_id' = [asset_by_id EXCEPT ![d][id] = nft_refund(@, tokens)]
        /\ Fire([kind |-> "nft_refund", drop_id |-> d, contract |-> c,
                 token_ids |-> only(tokens, asset_by_id[d][id].token_ids),
                 storage_released |-> NftBytes * Cardinality(tokens)])
        /\ UNCHANGED <<drop_by_id, ft_held, nft_held>>
    BY DEF WithdrawNftTokens, registry
  <1>2. /\ d \in DOMAIN drop_by_id /\ id = asset_id_of(d) /\ asset_by_id[d][id] = asset
        /\ AssetKept(asset, m)
        /\ asset.type = "nft" => asset.contract = c
    BY <1>1, OnlyContractAsset
  <1>3. asset.type = "nft" /\ asset.contract = c /\ tokens \subseteq ToSet(ids)
    BY <1>1, <1>2
  <1>4. AssetSet(d, x)
    <2>1. asset_by_id' = [asset_by_id EXCEPT ![d][asset_id_of(d)] = x]
      BY <1>1, <1>2 DEF nft_refund
    <2> HIDE DEF x
    <2> QED
      BY <1>1, <1>2, <2>1, RecordSet
  <1>5. PICK r : /\ r \notin DOMAIN receipts /\ r \in DOMAIN receipts'
                 /\ receipts'[r] = receipt /\ OnlyPromise(r)
    BY <1>1, <1>2, FiredOne
  <1>6. receipt.kind = "nft_refund" /\ receipt.contract = c /\ receipt.token_ids = gone
    OBVIOUS
  <1> HIDE DEF id, asset, m, receipt
  <1>7. ids \in Seq(NftTokens) /\ IsInjective(ids)
    BY <1>2 DEF AssetKept
  <1> HIDE DEF ids, left, gone, x
  <1>8. /\ left \in Seq(NftTokens) /\ IsInjective(left) /\ ToSet(left) = ToSet(ids) \ tokens
        /\ gone \in Seq(NftTokens) /\ IsInjective(gone) /\ ToSet(gone) = tokens
    <2>1. /\ left \in Seq(NftTokens) /\ IsInjective(left)
          /\ ToSet(left) = ToSet(ids) \cap (ToSet(ids) \ tokens)
      BY <1>7, OnlyThese DEF left
    <2>2. /\ gone \in Seq(NftTokens) /\ IsInjective(gone) /\ ToSet(gone) = ToSet(ids) \cap tokens
      BY <1>7, OnlyThese DEF gone
    <2> QED
      BY <1>3, <2>1, <2>2 DEF ids
  <1>9. /\ AssetKept(x, m) /\ SameKind(x, asset)
        /\ x.balance_avail = asset.balance_avail /\ x.token_ids = left
    BY <1>2, <1>3, <1>8, TokenIdsChanged DEF x
  <1>10. /\ nfts(asset) = {<<c, k>> : k \in ToSet(ids)}
         /\ nfts(x) = {<<c, k>> : k \in ToSet(left)}
    BY <1>3, <1>9 DEF nfts, SameKind, ids
  <1>11. /\ nfts_at(r) = {} /\ nfts_at(r)' = {<<c, k>> : k \in ToSet(gone)}
         /\ \A k : ft_at(r, k) = 0 /\ ft_at(r, k)' = 0
    <2>1. nfts_at(r)' = NftsCarried(receipt)
      BY <1>5 DEF nfts_at, NftsCarried
    <2> QED
      BY <1>5, <1>6, <2>1 DEF nfts_at, NftsCarried, ft_at, FtCarried
  <1>12. PromiseKept(receipts'[r])
    BY <1>5, <1>6, <1>8 DEF PromiseKept, RefundKept
  <1>13. /\ nfts(x) \cap nfts_at(r)' = {}
         /\ nfts(x) \cup nfts_at(r)' \subseteq nfts(asset)
    BY <1>3, <1>8, <1>10, <1>11 DEF ids
  <1>14. nft_held' = nft_held
    BY <1>1
  <1>15. /\ nfts(x) \cup nfts_at(r)' \subseteq nfts(asset) \cup nfts_at(r) \cup (nft_held' \ nft_held)
         /\ nft_held \ nft_held' \subseteq (nfts(asset) \cup nfts_at(r)) \ (nfts(x) \cup nfts_at(r)')
    BY <1>13, <1>14
  <1> QED
    BY <1>1, <1>2, <1>4, <1>5, <1>9, <1>11, <1>12, <1>13, <1>15, NftMoves DEF asset, m

\* A withdrawal that failed puts them back, if the drop still has the asset.
LEMMA NftRefundMoves ==
    ASSUME Kept, NEW r, NEW succeeded, ResolveNftRefund(r, succeeded)
    PROVE  Moves
  <1> DEFINE receipt == receipts[r]
             d == receipt.drop_id
             id == contract_asset_id(receipt.contract)
             asset == asset_of(d)
             m == only_metadata(drop_by_id[d])
             moved == {<<receipt.contract, token>> : token \in ToSet(receipt.token_ids)}
             back == has_asset(d, id) /\ ~succeeded /\ asset_by_id[d][id].type = "nft"
             x == IF back THEN [asset EXCEPT !.token_ids = asset.token_ids \o receipt.token_ids]
                          ELSE asset
  <1>1. /\ r \in DOMAIN receipts /\ receipt.kind = "nft_refund" /\ Resolve(r)
        /\ moved \subseteq nft_held
        /\ nft_held' = IF succeeded THEN nft_held \ moved ELSE nft_held
        /\ IF has_asset(d, id)
           THEN asset_by_id' = [asset_by_id EXCEPT ![d][id] =
                    IF ~succeeded /\ asset_by_id[d][id].type = "nft"
                    THEN add_to_token_ids(@, receipt.token_ids) ELSE @]
           ELSE UNCHANGED asset_by_id
        /\ UNCHANGED <<drop_by_id, ft_held>>
    BY DEF ResolveNftRefund, registry
  <1>2. receipt.token_ids \in Seq(NftTokens) /\ IsInjective(receipt.token_ids)
    BY <1>1 DEF Kept, Promised, PromiseKept, RefundKept
  <1>3. OnlyPromise(r) /\ r \notin DOMAIN receipts'
    BY <1>1, ResolvedOne
  <1>4. has_asset(d, id) =>
           /\ d \in DOMAIN drop_by_id /\ id = asset_id_of(d) /\ asset_by_id[d][id] = asset
           /\ asset.type = "nft" => asset.contract = receipt.contract
    BY OnlyContractAsset
  <1>5. DOMAIN asset_by_id = DOMAIN drop_by_id
    BY DEF Kept, Inv
  <1>6. /\ nfts_at(r) = moved /\ nfts_at(r)' = {}
        /\ \A c : ft_at(r, c) = 0 /\ ft_at(r, c)' = 0
    BY <1>1, <1>3 DEF nfts_at, NftsCarried, ft_at, FtCarried
  <1>7. CASE d \notin DOMAIN drop_by_id
    <2>1. UNCHANGED asset_by_id
      BY <1>1, <1>4, <1>7
    <2>2. Placed(d, r, asset)
      BY <1>1, <1>3, <1>7, <2>1, RecordsStay DEF Placed
    <2>3. FtEven(d, r, asset)
      <3>1. \A c : ft_in(d, c) = 0
        BY <1>5, <1>7 DEF ft_in
      <3>2. HeldTyped /\ HeldTyped'
        BY <1>1 DEF Kept, HeldTyped
      <3> QED
        BY <1>1, <1>6, <1>7, <3>1, <3>2 DEF FtEven, HeldTyped
    <2>4. NftEven(d, r, asset)
      <3> HIDE DEF moved
      <3> QED
        BY <1>1, <1>6, <1>7 DEF NftEven
    <2> QED
      BY <2>2, <2>3, <2>4 DEF Moves
  <1>8. CASE d \in DOMAIN drop_by_id
    <2>1. AssetKept(asset, m)
      BY <1>8, OnlyRecord DEF Kept
    <2>2. nfts_in(d) = nfts(asset)
      BY <1>5, <1>8 DEF nfts_in
    <2>3. nfts(asset) \cap moved = {}
      BY <1>6, <2>2 DEF Kept, NftsApart
    <2>4. AssetSet(d, x)
      <3>1. CASE has_asset(d, id)
        <4>1. asset_by_id' = [asset_by_id EXCEPT ![d][asset_id_of(d)] = x]
          BY <1>1, <1>4, <3>1 DEF add_to_token_ids
        <4> HIDE DEF x
        <4> QED
          BY <1>1, <1>8, <4>1, RecordSet
      <3>2. CASE ~has_asset(d, id)
        BY <1>1, <3>2, RecordsStay
      <3> QED
        BY <3>1, <3>2
    <2>5. back => asset.type = "nft" /\ asset.contract = receipt.contract /\ ~succeeded
      BY <1>4
    <2> DEFINE ids == asset.token_ids
               t == receipt.token_ids
               new == ids \o t
    <2>6. ids \in Seq(NftTokens) /\ IsInjective(ids)
      BY <2>1 DEF AssetKept
    <2>7. nfts(asset) = {<<asset.contract, k>> : k \in ToSet(ids)}
      BY DEF nfts
    <2>8. /\ AssetKept(x, m) /\ SameKind(x, asset) /\ x.balance_avail = asset.balance_avail
          /\ nfts(x) = nfts(asset) \cup IF back THEN moved ELSE {}
      <3>1. CASE back
        <4>1. ToSet(ids) \cap ToSet(t) = {}
          BY <2>3, <2>5, <2>7, <3>1
        <4>2. moved = {<<asset.contract, k>> : k \in ToSet(t)}
          BY <2>5, <3>1
        <4>3. x = [asset EXCEPT !.token_ids = new]
          BY <3>1
        <4>4. t \in Seq(NftTokens) /\ IsInjective(t)
          BY <1>2
        <4> HIDE DEF ids, t, x, moved
        <4>5. new \in Seq(NftTokens) /\ IsInjective(new) /\ ToSet(new) = ToSet(ids) \cup ToSet(t)
          BY <2>6, <4>1, <4>4, ConcatApart
        <4> HIDE DEF new, asset, m, back
        <4>6. /\ AssetKept(x, m) /\ SameKind(x, asset)
              /\ x.balance_avail = asset.balance_avail /\ x.token_ids = new
          BY <2>1, <2>5, <3>1, <4>3, <4>5, TokenIdsChanged
        <4>7. nfts(x) = {<<asset.contract, k>> : k \in ToSet(ids) \cup ToSet(t)}
          BY <4>5, <4>6 DEF nfts, SameKind
        <4>8. nfts(x) = nfts(asset) \cup moved
          BY <2>7, <4>2, <4>7
        <4> QED
          BY <3>1, <4>6, <4>8
      <3>2. CASE ~back
        <4>1. x = asset
          BY <3>2
        <4> HIDE DEF x, asset, m, back, moved
        <4> QED
          BY <2>1, <3>2, <4>1 DEF SameKind
      <3> QED
        BY <3>1, <3>2
    <2> HIDE DEF x, asset, m, moved, back
    <2>9. /\ nfts(x) \cap nfts_at(r)' = {}
          /\ nfts(x) \cup nfts_at(r)' \subseteq nfts(asset) \cup nfts_at(r) \cup (nft_held' \ nft_held)
          /\ nft_held \ nft_held' \subseteq (nfts(asset) \cup nfts_at(r)) \ (nfts(x) \cup nfts_at(r)')
      BY <1>1, <1>6, <2>3, <2>5, <2>8
    <2> QED
      BY <1>1, <1>3, <1>6, <1>8, <2>4, <2>8, <2>9, NftMoves DEF asset, m
  <1> QED
    BY <1>7, <1>8

-----------------------------------------------------------------------------
(* Every other step, and all of them together.                             *)

\* The asset of a drop stays when drops are at most given new key IDs or removed with it.
LEMMA KeyCallsMoveNothing ==
    ASSUME Kept, SomeKeysAdded \/ SomeKeysDeleted
    PROVE  Moves
  <1>1. UNCHANGED <<receipts, ft_held, nft_held>>
    <2>1. CASE SomeKeysAdded
      BY <2>1 DEF SomeKeysAdded, AddKeys
    <2>2. CASE SomeKeysDeleted
      BY <2>2 DEF SomeKeysDeleted, DeleteKeys, holdings
    <2> QED
      BY <2>1, <2>2
  <1>2. \A d : OnlyPromise(d)
    BY <1>1 DEF OnlyPromise
  <1>3. CASE SomeKeysAdded
    <2>1. PICK d, n : /\ d \in DOMAIN drop_by_id /\ UNCHANGED asset_by_id
                      /\ drop_by_id' = [drop_by_id EXCEPT ![d].next_key_id = @ + n]
      <3>1. PICK caller, key_data, d, deposit, keep : AddKeys(caller, d, key_data, deposit, keep)
        BY <1>3 DEF SomeKeysAdded
      <3>2. /\ d \in DOMAIN drop_by_id /\ UNCHANGED asset_by_id
            /\ drop_by_id' = [drop_by_id EXCEPT ![d].next_key_id = @ + Len(key_data)]
        BY <3>1 DEF AddKeys
      <3> QED
        BY <3>2
    <2>2. \A e \in DOMAIN drop_by_id : drop_by_id[e] \in Drop
      BY DEF Kept, Inv, Current, Registry, Typed, IsMap
    <2>3. SameDrops /\ DOMAIN drop_by_id' = DOMAIN drop_by_id
      BY <2>1, <2>2 DEF SameDrops, Drop
    <2>4. AssetSet(d, asset_of(d))
      BY <2>1, <2>3, NoAssetWritten DEF Kept
    <2> QED
      BY <1>1, <1>2, <2>4, QuietMoves
  <1>4. CASE SomeKeysDeleted
    <2>1. PICK d \in DOMAIN drop_by_id :
             \/ drop_by_id' = Without(drop_by_id, {d}) /\ asset_by_id' = Without(asset_by_id, {d})
             \/ UNCHANGED <<drop_by_id, asset_by_id>>
      BY <1>4, Zenon DEF SomeKeysDeleted, DeleteKeys
    <2>2. AssetSet(d, asset_of(d))
      <3>1. CASE drop_by_id' = Without(drop_by_id, {d}) /\ asset_by_id' = Without(asset_by_id, {d})
        BY <3>1 DEF AssetSet, SameDrops, Without, Restrict, Kept, Inv
      <3>2. CASE UNCHANGED <<drop_by_id, asset_by_id>>
        BY <3>2, RecordsStay
      <3> QED
        BY <2>1, <3>1, <3>2
    <2> QED
      BY <1>1, <1>2, <2>2, QuietMoves
  <1> QED
    BY <1>3, <1>4

\* Steps that touch no drop, and fire or resolve no promise with tokens.
LEMMA OtherCallsMoveNothing ==
    ASSUME Kept, \/ SomeAccountClaim \/ SomeTransfer \/ SomeApproval \/ SettingsStep \/ BalanceStep
                 \/ Tick \/ (\E r : OnNewAccountCreatedPanics(r)) \/ UNCHANGED vars
    PROVE  Moves
  <1>1. ASSUME UNCHANGED <<drop_by_id, asset_by_id, ft_held, nft_held>>, NEW r, OnlyPromise(r),
               (carries_nothing(r) /\ carries_nothing(r)') \/ UNCHANGED receipts
        PROVE  Moves
    BY <1>1, RecordsStay, QuietMoves
  <1>2. ASSUME UNCHANGED <<drop_by_id, asset_by_id, ft_held, nft_held, receipts>>
        PROVE  Moves
    BY <1>1, <1>2 DEF OnlyPromise
  <1>3. ASSUME UNCHANGED <<drop_by_id, asset_by_id, ft_held, nft_held>>, NEW receipt, Fire(receipt),
               receipt.kind \notin {"claim", "ft_refund", "nft_refund"}
        PROVE  Moves
    <2>1. PICK r : /\ r \notin DOMAIN receipts /\ r \in DOMAIN receipts'
                   /\ receipts'[r] = receipt /\ OnlyPromise(r)
      BY <1>3, FiredOne
    <2> QED
      BY <1>1, <1>3, <2>1 DEF carries_nothing
  <1>4. ASSUME UNCHANGED <<drop_by_id, asset_by_id, ft_held, nft_held>>, NEW r, carries_nothing(r),
               Resolve(r)
        PROVE  Moves
    BY <1>1, <1>4, ResolvedOne DEF carries_nothing
  <1>5. CASE SomeAccountClaim
    <2>1. PICK receipt : /\ UNCHANGED <<drop_by_id, asset_by_id, ft_held, nft_held>> /\ Fire(receipt)
                         /\ receipt.kind = "create_account"
      BY <1>5 DEF SomeAccountClaim, CreateAccountAndClaim, holdings
    <2> QED
      BY <1>3, <2>1
  <1>6. CASE SomeTransfer \/ SomeApproval
    BY <1>2, <1>6 DEF SomeTransfer, SomeApproval, internal_transfer, NftApprove, holdings
  <1>7. CASE SettingsStep \/ Tick
    BY <1>2, <1>7 DEF SettingsStep, Tick, FreezeContract, UnfreezeContract, SetRootAccount, SetFees,
                      SetFeesPerUser, AddSigningAdmin, AddSigningPks, RemoveSigningPks,
                      besides_signing, besides_settings, registry, holdings
  <1>8. CASE WithdrawFees
    <2>1. /\ UNCHANGED <<drop_by_id, asset_by_id, ft_held, nft_held>>
          /\ Fire(FeeReceipt(fees_collected)) /\ FeeReceipt(fees_collected).kind = "withdraw_fees"
      BY <1>8 DEF WithdrawFees, FeeReceipt, registry
    <2> QED
      BY <1>3, <2>1
  <1>9. ASSUME NEW r, NEW succeeded, OnWithdrawFees(r, succeeded) PROVE Moves
    BY <1>4, <1>9 DEF OnWithdrawFees, carries_nothing, registry
  <1>10. CASE \/ \E caller, deposit : AddToBalance(caller, deposit)
              \/ \E caller, amount : WithdrawFromBalance(caller, amount)
              \/ \E caller, metadata, deposit : SetFunderMetadata(caller, metadata, deposit)
    BY <1>2, <1>10 DEF AddToBalance, WithdrawFromBalance, SetFunderMetadata, registry
  <1>11. ASSUME NEW r, OnNewAccountCreatedPanics(r) PROVE Moves
    BY <1>4, <1>11 DEF OnNewAccountCreatedPanics, CallbackPanics, claim_in_flight, carries_nothing,
                       registry, holdings
  <1>12. CASE UNCHANGED vars
    BY <1>2, <1>12 DEF vars, registry, holdings
  <1> QED
    BY <1>5, <1>6, <1>7, <1>8, <1>9, <1>10, <1>11, <1>12 DEF BalanceStep

Creates == SomeDropCreated \/ SomeBatchCreated

\* Every step that creates no drop moves tokens between a drop, a promise and the outside.
LEMMA StepMoves ==
    ASSUME Kept, [Next]_vars, ~Creates
    PROVE  Moves
  <1>1. SomeClaim => Moves
    BY ClaimStepMoves DEF SomeClaim
  <1>2. SomeClaimCallback => Moves
    BY CreatedMoves, CreationFailedMoves, AssetsClaimedMoves DEF SomeClaimCallback
  <1>3. TokensMoved => Moves
    BY FtArrivalMoves, FtWithdrawalMoves, FtRefundMoves, NftArrivalMoves, NftWithdrawalMoves,
       NftRefundMoves DEF TokensMoved
  <1> QED
    BY <1>1, <1>2, <1>3, KeyCallsMoveNothing, OtherCallsMoveNothing, StepsByKind
    DEF RegistryStep, Creates

-----------------------------------------------------------------------------
(* Drops are created with nothing on record.                               *)

Unstocked(assets) ==
    \A a \in DOMAIN assets : assets[a].balance_avail = 0 /\ assets[a].token_ids = << >>

DropsCome ==
    /\ UNCHANGED <<receipts, ft_held, nft_held>>
    /\ DOMAIN drop_by_id \subseteq DOMAIN drop_by_id'
    /\ \A d \in DOMAIN drop_by_id :
          drop_by_id'[d] = drop_by_id[d] /\ asset_by_id'[d] = asset_by_id[d]
    /\ \A d \in DOMAIN drop_by_id' \ DOMAIN drop_by_id :
          /\ StockedWith(drop_by_id'[d], asset_by_id'[d]) /\ Unstocked(asset_by_id'[d])
          /\ \E shape \in Shapes :
                HandsOut(drop_by_id'[d], asset_by_id'[d], shape.asset_data[1].assets[1])

\* create_drop and create_drop_batch add such drops.
LEMMA CreationAddsDrops ==
    ASSUME OneAsset, Inv, Creates
    PROVE  DropsCome
  <1>1. ASSUME NEW shape \in Shapes, NEW caller, NEW n
        PROVE  /\ HandsOut(NewDropOf(caller, shape, n), store_assets_by_id(shape.asset_data),
                            shape.asset_data[1].assets[1])
               /\ StockedWith(NewDropOf(caller, shape, n), store_assets_by_id(shape.asset_data))
               /\ Unstocked(store_assets_by_id(shape.asset_data))
    BY NewDropStocked DEF Unstocked
  <1>2. DOMAIN asset_by_id = DOMAIN drop_by_id
    BY DEF Inv
  <1>3. CASE SomeDropCreated
    <2>1. PICK caller \in Accounts, d \in DropIds, shape \in Shapes, key_data \in KeyData :
             \E deposit, keep : CreateDrop(caller, d, shape, key_data, deposit, keep)
      BY <1>3 DEF SomeDropCreated
    <2> DEFINE drop == NewDropOf(caller, shape, Len(key_data))
               assets == store_assets_by_id(shape.asset_data)
    <2>2. /\ d \notin DOMAIN drop_by_id /\ UNCHANGED <<receipts, ft_held, nft_held>>
          /\ drop_by_id' = With(drop_by_id, d, drop)
          /\ asset_by_id' = With(asset_by_id, d, assets)
      BY <2>1 DEF CreateDrop
    <2>3. /\ StockedWith(drop, assets) /\ Unstocked(assets)
          /\ \E s \in Shapes : HandsOut(drop, assets, s.asset_data[1].assets[1])
      BY <1>1, Zenon
    <2> HIDE DEF drop, assets
    <2> QED
      BY <1>2, <2>2, <2>3 DEF DropsCome, With
  <1>4. CASE SomeBatchCreated
    <2>1. PICK caller \in Accounts, batch \in Batches :
             \E deposit, keep, metadata, on_success, call_fails :
                 CreateDropBatch(caller, batch, deposit, keep, metadata, on_success, call_fails)
      BY <1>4, Zenon DEF SomeBatchCreated
    <2> DEFINE ids == {batch[i].drop_id : i \in DOMAIN batch}
               shape == [d \in ids |-> batch[CHOOSE i \in DOMAIN batch : batch[i].drop_id = d].shape]
               drop(d) == NewDropOf(caller, shape[d], 0)
               assets(d) == store_assets_by_id(shape[d].asset_data)
    <2>2. /\ ids \cap DOMAIN drop_by_id = {} /\ UNCHANGED <<receipts, ft_held, nft_held>>
          /\ drop_by_id' = [d \in DOMAIN drop_by_id \cup ids |->
                               IF d \in ids THEN drop(d) ELSE drop_by_id[d]]
          /\ asset_by_id' = [d \in DOMAIN asset_by_id \cup ids |->
                                IF d \in ids THEN assets(d) ELSE asset_by_id[d]]
      BY <2>1 DEF CreateDropBatch
    <2>3. \A d \in ids : shape[d] \in Shapes
      BY BatchEntries
    <2> HIDE DEF ids, shape
    <2>4. ASSUME NEW d \in ids
          PROVE  /\ StockedWith(drop(d), assets(d)) /\ Unstocked(assets(d))
                 /\ \E s \in Shapes : HandsOut(drop(d), assets(d), s.asset_data[1].assets[1])
      <3>1. shape[d] \in Shapes
        BY <2>3
      <3> QED
        BY <1>1, <3>1, Zenon
    <2> HIDE DEF drop, assets
    <2> QED
      BY <1>2, <2>2, <2>4 DEF DropsCome
  <1> QED
    BY <1>3, <1>4 DEF Creates

\* What was there stays as it was.
LEMMA DropsComeKeeps ==
    ASSUME Kept, Inv', Held', DropsCome
    PROVE  Stocked' /\ Promised' /\ HeldTyped' /\ NftsApart'
  <1>1. Stocked'
    <2> SUFFICES ASSUME NEW d \in DOMAIN drop_by_id'
                 PROVE  StockedWith(drop_by_id'[d], asset_by_id'[d])
      BY DEF Stocked
    <2> QED
      BY DEF Kept, Stocked, DropsCome
  <1>2. \A d \in DOMAIN drop_by_id :
           only_metadata(drop_by_id'[d]) = only_metadata(drop_by_id[d]) /\ asset_of(d)' = asset_of(d)
    BY DEF DropsCome, only_metadata, only_use, asset_of, asset_id_of
  <1>3. KindsStay
    BY <1>2 DEF KindsStay, SameKind
  <1>4. Promised'
    BY <1>3, PromisesStay DEF Kept, Promised, DropsCome
  <1>5. HeldTyped'
    BY DEF Kept, HeldTyped, DropsCome
  <1>6. DOMAIN asset_by_id = DOMAIN drop_by_id /\ DOMAIN asset_by_id' = DOMAIN drop_by_id'
    BY DEF Kept, Inv
  <1>7. \A d \in DOMAIN drop_by_id' \ DOMAIN drop_by_id : asset_of(d)'.token_ids = << >>
    <2> SUFFICES ASSUME NEW d \in DOMAIN drop_by_id' \ DOMAIN drop_by_id
                 PROVE  asset_of(d)'.token_ids = << >>
      OBVIOUS
    <2>1. StockedWith(drop_by_id'[d], asset_by_id'[d]) /\ Unstocked(asset_by_id'[d])
      BY DEF DropsCome
    <2> QED
      BY <2>1 DEF StockedWith, Unstocked, asset_of, asset_id_of
  <1>8. \A d : nfts_in(d)' = nfts_in(d)
    <2> SUFFICES ASSUME NEW d PROVE nfts_in(d)' = nfts_in(d)
      OBVIOUS
    <2>1. CASE d \in DOMAIN drop_by_id
      <3>1. d \in DOMAIN drop_by_id'
        BY <2>1 DEF DropsCome
      <3> QED
        BY <1>2, <1>6, <2>1, <3>1 DEF nfts_in, nfts
    <2>2. CASE d \in DOMAIN drop_by_id' \ DOMAIN drop_by_id
      BY <1>6, <1>7, <2>2 DEF nfts_in, nfts, ToSet
    <2>3. CASE d \notin DOMAIN drop_by_id'
      <3>1. d \notin DOMAIN drop_by_id
        BY <2>3 DEF DropsCome
      <3> QED
        BY <1>6, <2>3, <3>1 DEF nfts_in
    <2> QED
      BY <2>1, <2>2, <2>3
  <1>9. \A r : nfts_at(r)' = nfts_at(r)
    BY DEF nfts_at, DropsCome
  <1>10. nft_held' = nft_held
    BY DEF DropsCome
  <1>11. NftsApart'
    BY <1>8, <1>9, <1>10 DEF Kept, NftsApart
  <1> QED
    BY <1>1, <1>4, <1>5, <1>11

-----------------------------------------------------------------------------
(* Tokens are backed.                                                      *)

\* The invariant is inductive.
LEMMA NextKept == OneAsset => (Kept /\ [Next]_vars => Kept')
  <1> SUFFICES ASSUME OneAsset, Kept, [Next]_vars PROVE Kept'
    OBVIOUS
  <1>1. Inv'
    BY NextInv DEF Kept
  <1>2. OneUseEach' /\ Held'
    BY OneAssetOneUse, NextHeld DEF Kept
  <1>3. FinitelyMany'
    BY DropsStayFinite, ReceiptsStayFinite DEF Kept, FinitelyMany
  <1>4. CASE Creates
    <2>1. DropsCome
      BY <1>4, CreationAddsDrops DEF Kept
    <2> QED
      BY <1>1, <1>2, <1>3, <2>1, DropsComeKeeps DEF Kept
  <1>5. CASE ~Creates
    <2>1. PICK d, r, x : Placed(d, r, x) /\ FtEven(d, r, x) /\ NftEven(d, r, x)
      BY <1>5, StepMoves DEF Moves
    <2>2. Stocked'
      BY <1>1, <2>1, PlacedKept DEF Kept
    <2>3. Promised'
      BY <1>1, <1>2, <2>1, PlacedPromises DEF Kept
    <2>4. HeldTyped'
      BY <2>1 DEF FtEven
    <2>5. NftsApart'
      BY <1>1, <2>1, NftsStayApart DEF Kept
    <2> QED
      BY <1>1, <1>2, <1>3, <2>2, <2>3, <2>4, <2>5 DEF Kept
  <1> QED
    BY <1>4, <1>5

\* At first there is nothing on record.
LEMMA InitKept == Init => Kept
  <1> SUFFICES ASSUME Init PROVE Kept
    OBVIOUS
  <1>1. Inv /\ FinitelyMany
    BY InitInv, FS_EmptySet DEF Init, EmptyMap, FinitelyMany
  <1>2. Held /\ OneUseEach
    BY DEF Init, EmptyMap, Held, OneUseEach, claims
  <1>3. Stocked /\ Promised /\ HeldTyped
    BY DEF Init, EmptyMap, Stocked, Promised, HeldTyped
  <1>4. NftsApart
    BY DEF Init, EmptyMap, NftsApart, nfts_in, nfts_at
  <1> QED
    BY <1>1, <1>2, <1>3, <1>4 DEF Kept

\* With one asset per use, FTs are backed step by step.
LEMMA NextFtBacked == OneAsset => (Kept /\ Kept' /\ FtBacked /\ [Next]_vars => FtBacked')
  <1> SUFFICES ASSUME OneAsset, Kept, Kept', FtBacked, [Next]_vars PROVE FtBacked'
    OBVIOUS
  <1>1. CASE Creates
    <2>1. DropsCome
      BY <1>1, CreationAddsDrops DEF Kept
    <2>2. DOMAIN asset_by_id = DOMAIN drop_by_id /\ DOMAIN asset_by_id' = DOMAIN drop_by_id'
      BY DEF Kept, Inv
    <2>3. \A d \in DOMAIN asset_by_id : asset_of(d)' = asset_of(d)
      BY <2>1, <2>2 DEF DropsCome, only_metadata, only_use, asset_of, asset_id_of
    <2>4. \A d \in DOMAIN asset_by_id' \ DOMAIN asset_by_id : asset_of(d)'.balance_avail = 0
      <3> SUFFICES ASSUME NEW d \in DOMAIN asset_by_id' \ DOMAIN asset_by_id
                   PROVE  asset_of(d)'.balance_avail = 0
        OBVIOUS
      <3>1. StockedWith(drop_by_id'[d], asset_by_id'[d]) /\ Unstocked(asset_by_id'[d])
        BY <2>1, <2>2 DEF DropsCome
      <3> QED
        BY <3>1 DEF StockedWith, Unstocked, asset_of, asset_id_of
    <2> QED
      BY <2>1, <2>2, <2>3, <2>4, FtDropsAdded DEF DropsCome
  <1>2. CASE ~Creates
    <2>1. PICK d, r, x : Placed(d, r, x) /\ FtEven(d, r, x)
      BY <1>2, StepMoves DEF Moves
    <2> QED
      BY <2>1, FtMoved
  <1> QED
    BY <1>1, <1>2

\* No drop and no promise in flight counts FTs that the contract does not have: what on_assets_claimed
\* and ft_resolve_refund put back is what the promise took, once.
THEOREM FtBackedHolds == ASSUME OneAsset PROVE Spec => []FtBacked
  <1>1. Init => FtBacked
    <2> SUFFICES ASSUME Init, NEW c \in FtContracts PROVE FtCommitted(c) <= ft_held[c]
      BY DEF FtBacked
    <2>1. SumFunction([d \in {} |-> FtRecorded(d, c)]) = 0
          /\ SumFunction([r \in {} |-> FtCarried(receipts[r], c)]) = 0
      BY SumZero, FS_EmptySet DEF SumFunction
    <2> QED
      BY <2>1 DEF Init, EmptyMap, FtCommitted
  <1>2. Kept /\ Kept' /\ FtBacked /\ [Next]_vars => FtBacked'
    BY NextFtBacked
  <1>3. Kept /\ [Next]_vars => Kept'
    BY NextKept
  <1> QED
    BY <1>1, <1>2, <1>3, InitKept, PTL DEF Spec

\* A set with at most one element.
LEMMA AtMostOne ==
    ASSUME NEW S, \A x, y \in S : x = y
    PROVE  IF S = {} THEN Cardinality(S) = 0 ELSE Cardinality(S) = 1
  <1>1. CASE S = {}
    BY <1>1, FS_EmptySet
  <1>2. CASE S # {}
    <2>1. PICK x \in S : S = {x}
      BY <1>2
    <2> QED
      BY <1>2, <2>1, FS_Singleton
  <1> QED
    BY <1>1, <1>2

\* The copies of an NFT in a drop: one if the drop has it, as IDs are recorded once.
LEMMA CopiesInDrop ==
    ASSUME Kept, NEW d \in DOMAIN asset_by_id, NEW c, NEW token
    PROVE  NftCopies(d, c, token) = IF <<c, token>> \in nfts_in(d) THEN 1 ELSE 0
  <1> DEFINE asset == asset_of(d)
             ids == asset.token_ids
             at == {i \in DOMAIN ids : ids[i] = token}
             copies(a) == Cardinality({i \in DOMAIN asset_by_id[d][a].token_ids :
                                          asset_by_id[d][a].token_ids[i] = token})
             there == {b \in DOMAIN asset_by_id[d] : asset_by_id[d][b].contract = c}
             f == [a \in there |-> copies(a)]
  <1>1. d \in DOMAIN drop_by_id
    BY DEF Kept, Inv
  <1>2. /\ asset_by_id[d] = [a \in {asset_id_of(d)} |-> asset]
        /\ AssetKept(asset, only_metadata(drop_by_id[d]))
    BY <1>1, OnlyRecord DEF Kept
  <1>3. NftCopies(d, c, token) = SumFunction(f)
    BY DEF NftCopies
  <1>4. DOMAIN f = there /\ (asset_id_of(d) \in there => f[asset_id_of(d)] = Cardinality(at))
    BY DEF asset_of
  <1>5. there = IF asset.contract = c THEN {asset_id_of(d)} ELSE {}
    BY <1>2
  <1>6. IF at = {} THEN Cardinality(at) = 0 ELSE Cardinality(at) = 1
    <2>1. \A i, j \in at : i = j
      BY <1>2 DEF AssetKept, IsInjective
    <2> HIDE DEF at
    <2> QED
      BY <2>1, AtMostOne
  <1>7. <<c, token>> \in nfts_in(d) <=> asset.contract = c /\ at # {}
    BY DEF nfts_in, nfts, ToSet
  <1> HIDE DEF f, at, there, asset
  <1>8. CASE asset.contract = c
    <2>1. SumFunction(f) = f[asset_id_of(d)]
      BY <1>4, <1>5, <1>6, <1>8, SumOfOne
    <2> QED
      BY <1>3, <1>4, <1>5, <1>6, <1>7, <1>8, <2>1
  <1>9. CASE asset.contract # c
    <2>1. SumFunction(f) = 0
      BY <1>4, <1>5, <1>9, SumZero, FS_EmptySet DEF SumFunction
    <2> QED
      BY <1>3, <1>7, <1>9, <2>1
  <1> QED
    BY <1>8, <1>9

\* NFTs in one place each are counted once.
LEMMA KeptBacksNfts == Kept => NftBacked
  <1> SUFFICES ASSUME Kept, NEW c \in NftContracts, NEW token \in NftTokens
               PROVE  SumFunction([d \in DOMAIN asset_by_id |-> NftCopies(d, c, token)])
                      + Cardinality({r \in DOMAIN receipts : <<c, token>> \in NftsCarried(receipts[r])})
                          <= IF <<c, token>> \in nft_held THEN 1 ELSE 0
    BY DEF NftBacked
  <1> DEFINE nft == <<c, token>>
             f == [d \in DOMAIN asset_by_id |-> NftCopies(d, c, token)]
             S == DOMAIN asset_by_id
             R == {r \in DOMAIN receipts : nft \in NftsCarried(receipts[r])}
  <1>1. \A d \in S : f[d] = IF nft \in nfts_in(d) THEN 1 ELSE 0
    BY CopiesInDrop
  <1>2. IsFiniteSet(S) /\ DOMAIN f = S
    BY DEF Kept, Inv, FinitelyMany
  <1>3. \A r : r \in R <=> nft \in nfts_at(r)
    BY DEF nfts_at
  <1>4. IF R = {} THEN Cardinality(R) = 0 ELSE Cardinality(R) = 1
    <2>1. \A r, s \in R : r = s
      BY <1>3 DEF Kept, NftsApart
    <2> HIDE DEF R
    <2> QED
      BY <2>1, AtMostOne
  <1>5. R # {} => nft \in nft_held
    BY <1>3 DEF Kept, NftsApart
  <1>6. \A d : nft \in nfts_in(d) => R = {} /\ nft \in nft_held /\ \A e \in S \ {d} : nft \notin nfts_in(e)
    BY <1>3 DEF Kept, NftsApart
  <1> HIDE DEF f, R, S, nft
  <1>7. CASE \A d \in S : nft \notin nfts_in(d)
    <2>1. SumFunction(f) = 0
      BY <1>1, <1>2, <1>7, SumZero DEF SumFunction
    <2> QED
      BY <1>4, <1>5, <2>1 DEF f, R, nft
  <1>8. ASSUME NEW d \in S, nft \in nfts_in(d)
        PROVE  SumFunction(f) + Cardinality(R) <= IF nft \in nft_held THEN 1 ELSE 0
    <2>1. \A e \in S : f[e] \in Nat
      BY <1>1
    <2>2. SumFunctionOnSet(f, S) = f[d] + SumFunctionOnSet(f, S \ {d})
      BY <1>2, <2>1, SumWithout
    <2>3. IsFiniteSet(S \ {d}) /\ \A e \in S \ {d} : f[e] = 0
      BY <1>1, <1>2, <1>6, <1>8, FS_Subset
    <2>4. SumFunctionOnSet(f, S \ {d}) = 0
      BY <2>3, SumZero
    <2>5. SumFunction(f) = 1
      BY <1>1, <1>2, <1>8, <2>2, <2>4 DEF SumFunction
    <2> QED
      BY <1>4, <1>6, <1>8, <2>5
  <1> QED
    BY <1>7, <1>8 DEF f, R, nft, S

\* No NFT is promised to two claimers or recorded by two drops, and what is promised or recorded is
\* the contract's: nft_on_transfer, claim_nft_asset and the callbacks that put IDs back.
THEOREM NftBackedHolds == ASSUME OneAsset PROVE Spec => []NftBacked
  <1>1. Kept /\ [Next]_vars => Kept'
    BY NextKept
  <1> QED
    BY <1>1, InitKept, KeptBacksNfts, PTL DEF Spec
-----------------------------------------------------------------------------
(* Drops are removed when they have nothing left.                          *)

Multiples(n) == {k * n : k \in Nat}

\* FTs are sent and withdrawn in the amounts that whole uses take.
WholeUses ==
    \A shape \in Shapes : \A g \in DOMAIN shape.asset_data :
        \A i \in DOMAIN shape.asset_data[g].assets :
            LET ext == shape.asset_data[g].assets[i]
            IN  ext.type = "ft" => FtAmounts \subseteq Multiples(ext.amount)

\* What a drop has available is what some number of uses takes.
WholeBalances ==
    \A d \in DOMAIN drop_by_id :
        asset_of(d).type = "ft" =>
            LET n == only_metadata(drop_by_id[d]).tokens_per_use
            IN  FtAmounts \subseteq Multiples(n) /\ asset_of(d).balance_avail \in Multiples(n)

\* Multiples add up, ...
LEMMA MultiplesAdd ==
    ASSUME NEW n \in Nat, NEW a \in Multiples(n), NEW b \in Multiples(n)
    PROVE  a + b \in Multiples(n)
  <1>1. PICK j \in Nat, k \in Nat : a = j * n /\ b = k * n
    BY DEF Multiples
  <1>2. j + k \in Nat /\ a + b = (j + k) * n
    BY <1>1
  <1> QED
    BY <1>2 DEF Multiples

\* ... what is left of them is one again, ...
LEMMA MultiplesSubtract ==
    ASSUME NEW n \in Nat, NEW a \in Nat, NEW b \in Multiples(n), a + b \in Multiples(n)
    PROVE  a \in Multiples(n)
  <1>1. PICK j \in Nat, k \in Nat : a + b = j * n /\ b = k * n
    BY DEF Multiples
  <1>2. CASE k <= j
    <2>1. j - k \in Nat /\ a = (j - k) * n
      <3>1. j - k \in Nat /\ (j - k) * n = j * n - k * n
        BY <1>2
      <3>2. a = j * n - k * n
        BY <1>1
      <3> QED
        BY <3>1, <3>2
    <2> QED
      BY <2>1 DEF Multiples
  <1>3. CASE k > j
    <2>1. a = 0
      <3>1. k - j \in Nat /\ (k - j) * n = k * n - j * n
        BY <1>3
      <3>2. (k - j) * n >= 0
        BY <3>1
      <3> QED
        BY <1>1, <3>1, <3>2
    <2>2. 0 = 0 * n
      OBVIOUS
    <2> QED
      BY <2>1, <2>2 DEF Multiples
  <1> QED
    BY <1>2, <1>3

\* ... and none but zero is less than one.
LEMMA MultiplesBelow ==
    ASSUME NEW n \in Nat, NEW a \in Multiples(n), a < n
    PROVE  a = 0
  <1>1. PICK k \in Nat : a = k * n
    BY DEF Multiples
  <1>2. CASE k = 0
    BY <1>1, <1>2
  <1>3. CASE k > 0
    <2>1. k * n = n + (k - 1) * n /\ (k - 1) * n >= 0
      BY <1>3
    <2> QED
      BY <1>1, <2>1
  <1> QED
    BY <1>2, <1>3

\* What a step trades keeps a balance whole.
LEMMA TradedWhole ==
    ASSUME NEW x, NEW asset, NEW m, AssetKept(x, m), AssetKept(asset, m), SameKind(x, asset),
           Traded(x, asset, m), asset.type = "ft", FtAmounts \subseteq Multiples(m.tokens_per_use),
           asset.balance_avail \in Multiples(m.tokens_per_use)
    PROVE  x.balance_avail \in Multiples(m.tokens_per_use)
  <1> DEFINE u == m.tokens_per_use
             c == asset.contract
  <1>1. u \in Nat /\ x.balance_avail \in Nat /\ asset.balance_avail \in Nat
    BY DEF AssetKept
  <1>2. FtBalance(x, c) = x.balance_avail /\ FtBalance(asset, c) = asset.balance_avail
    BY DEF FtBalance, SameKind
  <1>3. PICK n \in FtAmounts \cup {0, u} :
           \/ FtBalance(x, c) = FtBalance(asset, c) + n
           \/ FtBalance(x, c) + n = FtBalance(asset, c)
    BY DEF Traded
  <1>4. n \in Multiples(u)
    <2>1. 0 = 0 * u /\ u = 1 * u
      BY <1>1
    <2> HIDE DEF u
    <2> QED
      BY <2>1 DEF Multiples, u
  <1> HIDE DEF u, c
  <1>5. CASE x.balance_avail = asset.balance_avail + n
    BY <1>1, <1>4, <1>5, MultiplesAdd DEF u
  <1>6. CASE x.balance_avail + n = asset.balance_avail
    BY <1>1, <1>4, <1>6, MultiplesSubtract DEF u
  <1> QED
    BY <1>2, <1>3, <1>5, <1>6

\* New drops have nothing available, and every step trades whole uses.
LEMMA NextWholeBalances ==
    ASSUME OneAsset, WholeUses, Kept, Kept', WholeBalances, [Next]_vars
    PROVE  WholeBalances'
  <1> SUFFICES ASSUME NEW d \in DOMAIN drop_by_id', asset_of(d)'.type = "ft"
               PROVE  LET n == only_metadata(drop_by_id'[d]).tokens_per_use
                      IN  /\ FtAmounts \subseteq Multiples(n)
                          /\ asset_of(d)'.balance_avail \in Multiples(n)
    BY DEF WholeBalances
  <1>1. CASE Creates
    <2>1. DropsCome
      BY <1>1, CreationAddsDrops DEF Kept
    <2>2. CASE d \in DOMAIN drop_by_id
      <3>1. drop_by_id'[d] = drop_by_id[d] /\ asset_of(d)' = asset_of(d)
        BY <2>1, <2>2 DEF DropsCome, asset_of, asset_id_of
      <3> QED
        BY <2>2, <3>1 DEF WholeBalances
    <2>3. CASE d \notin DOMAIN drop_by_id
      <3>1. PICK shape \in Shapes :
               HandsOut(drop_by_id'[d], asset_by_id'[d], shape.asset_data[1].assets[1])
        BY <2>1, <2>3 DEF DropsCome
      <3> DEFINE ext == shape.asset_data[1].assets[1]
                 n == only_metadata(drop_by_id'[d]).tokens_per_use
      <3>2. n = ext.amount /\ asset_of(d)' = to_internal_asset(ext)
        BY <3>1 DEF HandsOut, asset_of, asset_id_of
      <3>3. ext.type = "ft" /\ asset_of(d)'.balance_avail = 0
        BY <3>2 DEF to_internal_asset
      <3>4. 1 \in DOMAIN shape.asset_data /\ 1 \in DOMAIN shape.asset_data[1].assets
        BY DEF OneAsset
      <3>5. FtAmounts \subseteq Multiples(ext.amount)
        BY <3>3, <3>4 DEF WholeUses
      <3>6. n \in Nat
        BY DEF Kept, Stocked, StockedWith, AssetKept
      <3> HIDE DEF n, ext
      <3>7. 0 = 0 * n
        BY <3>6
      <3> QED
        BY <3>2, <3>3, <3>5, <3>7 DEF Multiples, n
    <2> QED
      BY <2>2, <2>3
  <1>2. CASE ~Creates
    <2>1. PICK e, r, x : Placed(e, r, x)
      BY <1>2, StepMoves DEF Moves
    <2>2. /\ DOMAIN drop_by_id' \ {e} = DOMAIN drop_by_id \ {e}
          /\ \A f \in DOMAIN drop_by_id \ {e} : asset_of(f)' = asset_of(f)
          /\ e \in DOMAIN drop_by_id' => e \in DOMAIN drop_by_id /\ asset_of(e)' = x
          /\ KindsStay
      <3>1. DOMAIN asset_by_id = DOMAIN drop_by_id /\ DOMAIN asset_by_id' = DOMAIN drop_by_id'
        BY DEF Kept, Inv
      <3>2. Inv /\ Inv' /\ Stocked
        BY DEF Kept
      <3> QED
        BY <2>1, <3>1, <3>2, PlacedKept
    <2>3. d \in DOMAIN drop_by_id /\ only_metadata(drop_by_id'[d]) = only_metadata(drop_by_id[d])
          /\ asset_of(d).type = "ft"
      BY <2>2 DEF KindsStay, SameKind
    <2>4. CASE d # e
      BY <2>2, <2>3, <2>4 DEF WholeBalances
    <2>5. CASE d = e
      <3> DEFINE m == only_metadata(drop_by_id[d])
      <3>1. AssetKept(x, m) /\ SameKind(x, asset_of(d)) /\ Traded(x, asset_of(d), m)
        BY <2>1, <2>3, <2>5 DEF Placed
      <3>2. AssetKept(asset_of(d), m)
        BY <2>3, OnlyRecord DEF Kept
      <3>3. /\ FtAmounts \subseteq Multiples(m.tokens_per_use)
            /\ asset_of(d).balance_avail \in Multiples(m.tokens_per_use)
        BY <2>3 DEF WholeBalances
      <3>4. x.balance_avail \in Multiples(m.tokens_per_use)
        BY <2>3, <3>1, <3>2, <3>3, TradedWhole
      <3> QED
        BY <2>2, <2>3, <2>5, <3>3, <3>4
    <2> QED
      BY <2>4, <2>5
  <1> QED
    BY <1>1, <1>2

\* A drop that can be removed: a use would find too little, or nothing is left at all.
Spent(d) == Lacks(asset_of(d), only_metadata(drop_by_id[d])) \/ is_empty(asset_of(d))

\* Only a drop with too little for a use is removed, and the contract is sent nothing then.
Removal == \A d \in DOMAIN drop_by_id \ DOMAIN drop_by_id' :
    Spent(d) /\ \A c \in FtContracts : ft_held'[c] <= ft_held[c]

\* A claim removes a drop when it found nothing to hand out.
LEMMA ClaimedRemoval ==
    ASSUME Kept, NEW t, NEW keys, keys[t].remaining_uses = 0, NEW claimed, NEW c,
           parse_token_id(t) \in DOMAIN drop_by_id, ClaimedAsset(parse_token_id(t), claimed, c),
           NEW lost, NEW results, results \in {<< >>, <<TRUE>>},
           internal_claim_assets(t, keys, claimed, results, lost)
    PROVE  Removal
  <1> DEFINE d == parse_token_id(t)
  <1>1. (is_awaited(claimed) <=> c.promise # None) /\ detached_promises(claimed) = << >>
    BY OnePromise DEF ClaimedAsset
  <1>2. UNCHANGED ft_held /\ HeldTyped
    <2>1. settle(<< >>, lost_promises(<< >>, lost))
      BY <1>1 DEF internal_claim_assets
    <2> QED
      BY <2>1, NothingSettled DEF Kept
  <1>3. \A k \in FtContracts : ft_held'[k] <= ft_held[k]
    BY <1>2 DEF HeldTyped
  <1>4. CASE is_awaited(claimed)
    BY <1>4 DEF internal_claim_assets, Removal
  <1>5. CASE ~is_awaited(claimed)
    <2>1. Lacks(asset_of(d), only_metadata(drop_by_id[d]))
      BY <1>1, <1>5 DEF ClaimedAsset, ClaimTakes
    <2>2. on_assets_claimed(t, keys, claimed.assets, claimed.token_ids, results)
      BY <1>5 DEF internal_claim_assets
    <2>3. claimed.assets = only_asset(d, c.asset) /\ results \in {<< >>, <<TRUE>>, <<FALSE>>}
      BY DEF ClaimedAsset, only_asset
    <2>4. GivesBack(d, c.asset, claimed.token_ids, results)
      BY <2>2, <2>3, AssetsClaimed DEF Kept
    <2> QED
      BY <1>3, <2>1, <2>4 DEF Removal, Spent, GivesBack
  <1> QED
    BY <1>4, <1>5

\* A failed creation removes a drop with nothing left.
LEMMA CreationFailedRemoval ==
    ASSUME Kept, NEW r, OnAccountCreationFailed(r)
    PROVE  Removal
  <1> DEFINE t == receipts[r].token_id
             d == parse_token_id(t)
  <1>1. UNCHANGED ft_held /\ d \in DOMAIN drop_by_id
    BY DEF OnAccountCreationFailed, holdings, callback_finds_key
  <1>2. \E refund : handle_key_cleanup(t, key_info_by_token_id, asset_by_id[d],
                                       all_assets_empty(asset_by_id[d]), refund, 0)
    BY DEF OnAccountCreationFailed
  <1>3. asset_by_id[d] = [a \in {asset_id_of(d)} |-> asset_of(d)]
    BY <1>1, OnlyRecord DEF Kept
  <1> HIDE DEF t
  <1>4. ASSUME NEW e \in DOMAIN drop_by_id \ DOMAIN drop_by_id'
        PROVE  e = d /\ all_assets_empty(asset_by_id[d])
    BY <1>2, CleanupRemoves
  <1>5. all_assets_empty(asset_by_id[d]) => is_empty(asset_of(d))
    BY <1>3 DEF all_assets_empty
  <1>6. \A c \in FtContracts : ft_held'[c] <= ft_held[c]
    BY <1>1 DEF Kept, HeldTyped
  <1> HIDE DEF d
  <1> QED
    BY <1>4, <1>5, <1>6 DEF Removal, Spent

\* Whether the transfer went through or not, the drop had nothing left then.
LEMMA AssetsClaimedRemoval ==
    ASSUME Kept, NEW r, NEW lost, OnAssetsClaimed(r, lost)
    PROVE  Removal
  <1> DEFINE receipt == receipts[r]
             t == receipt.token_id
             d == parse_token_id(t)
             p == receipt.promise
             fails == has_failed(p, lost)
             asset == asset_of(d)
             m == only_metadata(drop_by_id[d])
             y == given_back(d, asset, receipt.token_ids, fails)
  <1>1. /\ r \in DOMAIN receipts /\ receipt.kind = "claim"
        /\ settle(<<p>>, IF ~fails THEN {} ELSE {1})
        /\ \/ on_assets_claimed(t, key_info_by_token_id, asset_by_id[d], receipt.token_ids, <<~fails>>)
           \/ UNCHANGED drop_by_id
    BY DEF OnAssetsClaimed, claim_in_flight
  <1>2. t \in DOMAIN key_info_by_token_id /\ key_info_by_token_id[t].remaining_uses = 0
    BY <1>1 DEF Kept, Held, claims, is_claim
  <1>3. d \in DOMAIN drop_by_id /\ ClaimKept(receipt, asset, m)
    BY <1>1 DEF Kept, Promised, PromiseKept
  <1>4. AssetKept(asset, m) /\ asset_by_id[d] = [a \in {asset_id_of(d)} |-> asset]
    BY <1>3, OnlyRecord DEF Kept
  <1>5. fails \in BOOLEAN
    BY DEF has_failed
  <1>6. ASSUME NEW c \in FtContracts PROVE ft_held'[c] <= ft_held[c]
    <2>1. p.type = "ft" => p.amount \in Nat
      BY <1>3, <1>4 DEF ClaimKept, AssetKept
    <2>2. settle(<<p>>, IF fails THEN {1} ELSE {})
      BY <1>1, <1>5
    <2> HIDE DEF p, fails
    <2>3. HeldTyped' /\ ft_held[c] = ft_held'[c] + IF fails THEN 0 ELSE ft_of(p, c)
      BY <1>5, <2>1, <2>2, OneSettled DEF Kept
    <2>4. ft_of(p, c) \in Nat
      BY <2>1 DEF ft_of
    <2> QED
      BY <2>3, <2>4 DEF HeldTyped
  <1>7. ASSUME NEW e \in DOMAIN drop_by_id \ DOMAIN drop_by_id'
        PROVE  e = d /\ (asset.type = "fc" \/ is_empty(y))
    <2>1. on_assets_claimed(t, key_info_by_token_id, asset_by_id[d], receipt.token_ids, <<~fails>>)
      BY <1>1, <1>7
    <2>2. /\ <<~fails>> \in {<< >>, <<TRUE>>, <<FALSE>>} /\ <<~fails>> # << >>
          /\ (<<~fails>> = <<FALSE>>) = fails
      BY <1>5
    <2> HIDE DEF fails, asset
    <2>3. GivesBack(d, asset, receipt.token_ids, <<~fails>>)
      <3>1. asset_by_id[d] = only_asset(d, asset) /\ Inv /\ Stocked
        BY <1>4 DEF only_asset, Kept
      <3> QED
        BY <1>2, <1>3, <2>1, <2>2, <3>1, AssetsClaimed
    <2> QED
      BY <1>7, <2>2, <2>3 DEF asset, GivesBack
  <1>8. asset.type = "fc" \/ is_empty(y) => is_empty(asset)
    <2>1. asset.type \notin {"ft", "nft"} => is_empty(asset)
      BY DEF is_empty
    <2>2. CASE asset.type = "ft"
      <3>1. asset.balance_avail \in Nat /\ m.tokens_per_use \in Nat
        BY <1>4 DEF AssetKept
      <3>2. y = asset \/ y = add_to_balance_avail(asset, m.tokens_per_use)
        BY <2>2 DEF given_back, on_failed_claim
      <3>3. y.type = "ft" /\ y.balance_avail >= asset.balance_avail
        BY <1>4, <2>2, <3>1, <3>2 DEF AssetKept, add_to_balance_avail
      <3>4. y.balance_avail \in Nat
        BY <1>4, <2>2, <3>1, <3>2 DEF AssetKept, add_to_balance_avail
      <3> HIDE DEF asset, y, m
      <3> QED
        BY <2>2, <3>1, <3>3, <3>4 DEF is_empty, enough_balance
    <2>3. CASE asset.type = "nft"
      <3>1. asset.token_ids \in Seq(NftTokens)
        BY <1>4 DEF AssetKept
      <3>2. y = asset \/ \E k : y = add_to_token_ids(asset, <<k>>)
        BY <2>3 DEF given_back, on_failed_claim
      <3>3. ASSUME NEW k, y = add_to_token_ids(asset, <<k>>)
            PROVE  y.type = "nft" /\ y.token_ids # << >>
        <4>1. y.type = "nft" /\ y.token_ids = asset.token_ids \o <<k>>
          BY <1>4, <2>3, <3>3 DEF AssetKept, add_to_token_ids
        <4>2. Len(asset.token_ids \o <<k>>) = Len(asset.token_ids) + 1 /\ Len(asset.token_ids) \in Nat
          BY <3>1
        <4> HIDE DEF asset, y
        <4> QED
          BY <4>1, <4>2
      <3> HIDE DEF asset, y
      <3> QED
        BY <2>3, <3>2, <3>3 DEF is_empty
    <2> QED
      BY <1>4, <2>1, <2>2, <2>3
  <1> HIDE DEF d, asset, y
  <1> QED
    BY <1>6, <1>7, <1>8 DEF Removal, Spent, asset

\* delete_keys removes a drop with nothing left.
LEMMA DeletionRemoval ==
    ASSUME Kept, SomeKeysDeleted
    PROVE  Removal
  <1>1. PICK caller, d, pks, keep_empty_drop : DeleteKeys(caller, d, pks, keep_empty_drop)
    BY DEF SomeKeysDeleted
  <1>2. d \in DOMAIN drop_by_id /\ all_assets_empty(asset_by_id[d]) /\ UNCHANGED ft_held
    BY <1>1 DEF DeleteKeys, delete_keys_defined, holdings
  <1>3. drop_by_id' = Without(drop_by_id, {d}) \/ UNCHANGED drop_by_id
    BY <1>1, Zenon DEF DeleteKeys
  <1>4. \A e \in DOMAIN drop_by_id \ DOMAIN drop_by_id' : e = d
    BY <1>3 DEF Without, Restrict
  <1>5. asset_by_id[d] = [a \in {asset_id_of(d)} |-> asset_of(d)]
    BY <1>2, OnlyRecord DEF Kept
  <1>6. is_empty(asset_of(d))
    BY <1>2, <1>5 DEF all_assets_empty
  <1>7. \A c \in FtContracts : ft_held'[c] <= ft_held[c]
    BY <1>2 DEF Kept, HeldTyped
  <1> QED
    BY <1>4, <1>6, <1>7 DEF Removal, Spent

\* All other steps remove no drop.
LEMMA StepRemoval ==
    ASSUME Kept, [Next]_vars
    PROVE  Removal
  <1>1. SomeClaim => Removal
    <2> SUFFICES ASSUME NEW pk \in DOMAIN token_id_by_pk, NEW fc_args, NEW lost,
                        Claim(pk, fc_args, lost)
                 PROVE  Removal
      BY DEF SomeClaim
    <2> DEFINE t == token_id_by_pk[pk]
               keys == keys_after_claim(pk)
               claimed == assets_of_last_use(t, keys, fc_args)
    <2>1. t \in DOMAIN key_info_by_token_id /\ keys[t].remaining_uses = 0
      BY ClaimDepletes DEF Kept
    <2>2. parse_token_id(t) \in DOMAIN drop_by_id
      BY <2>1 DEF Kept, Inv, Current, Registry, Housed
    <2>3. internal_claim_assets(t, keys, claimed, << >>, lost)
      BY DEF Claim, claim_of
    <2> HIDE DEF t, keys, claimed
    <2>4. PICK c : ClaimedAsset(parse_token_id(t), claimed, c)
      BY <2>1, <2>2, ClaimOfOne DEF Kept, claimed
    <2> QED
      BY <2>1, <2>2, <2>3, <2>4, ClaimedRemoval
  <1>2. ASSUME NEW r, NEW lost, OnNewAccountCreated(r, lost) PROVE Removal
    <2> DEFINE t == receipts[r].token_id
               keys == key_info_by_token_id
               claimed == assets_for(receipts[r])
    <2>1. /\ claim_in_flight(r, "create_account") /\ callback_finds_key(r)
          /\ internal_claim_assets(t, keys, claimed, <<TRUE>>, lost)
      BY <1>2 DEF OnNewAccountCreated, hand_out
    <2>2. keys[t].remaining_uses = 0
      BY <2>1 DEF Kept, Held, claims, is_claim, claim_in_flight
    <2>3. parse_token_id(t) \in DOMAIN drop_by_id
      BY <2>1 DEF callback_finds_key
    <2>4. claimed = assets_of_last_use(t, keys, receipts[r].fc_args)
      BY DEF assets_for
    <2> HIDE DEF t, keys, claimed
    <2>5. PICK c : ClaimedAsset(parse_token_id(t), claimed, c)
      BY <2>2, <2>3, <2>4, ClaimOfOne DEF Kept
    <2> QED
      BY <2>1, <2>2, <2>3, <2>5, ClaimedRemoval
  <1>3. SomeClaimCallback => Removal
    BY <1>2, CreationFailedRemoval, AssetsClaimedRemoval DEF SomeClaimCallback
  <1>4. DOMAIN drop_by_id \subseteq DOMAIN drop_by_id' => Removal
    BY DEF Removal
  <1>5. CASE UNCHANGED drop_by_id
    BY <1>4, <1>5
  <1>6. CASE Creates
    <2>1. CASE SomeDropCreated
      BY <1>4, <2>1 DEF SomeDropCreated, CreateDrop, With
    <2>2. CASE SomeBatchCreated
      <3>1. PICK caller, batch, deposit, keep, metadata, on_success, call_fails :
               CreateDropBatch(caller, batch, deposit, keep, metadata, on_success, call_fails)
        BY <2>2, Zenon DEF SomeBatchCreated
      <3>2. \E ids : DOMAIN drop_by_id' = DOMAIN drop_by_id \cup ids
        BY <3>1 DEF CreateDropBatch
      <3> QED
        BY <1>4, <3>2
    <2> QED
      BY <1>6, <2>1, <2>2 DEF Creates
  <1>7. SomeKeysAdded => Removal
    BY <1>4 DEF SomeKeysAdded, AddKeys
  <1>8. TokensMoved => UNCHANGED drop_by_id
    BY DEF TokensMoved, FtOnTransfer, WithdrawFtBalance, NftOnTransfer, WithdrawNftTokens,
           FtResolveRefund, ResolveNftRefund, registry
  <1>9. SettingsStep \/ Tick \/ SomeAccountClaim \/ SomeTransfer \/ SomeApproval
            => UNCHANGED drop_by_id
    BY DEF SettingsStep, Tick, FreezeContract, UnfreezeContract, SetRootAccount, SetFees,
           SetFeesPerUser, AddSigningAdmin, AddSigningPks, RemoveSigningPks,
           besides_signing, besides_settings, registry, SomeAccountClaim, CreateAccountAndClaim,
           SomeTransfer, SomeApproval, internal_transfer, NftApprove
  <1>10. BalanceStep \/ (\E r : OnNewAccountCreatedPanics(r)) => UNCHANGED drop_by_id
    BY DEF BalanceStep, AddToBalance, WithdrawFromBalance, SetFunderMetadata, WithdrawFees,
           OnWithdrawFees, OnNewAccountCreatedPanics, CallbackPanics, registry
  <1>11. UNCHANGED vars => UNCHANGED drop_by_id
    BY DEF vars, registry
  <1> QED
    BY <1>1, <1>3, <1>5, <1>6, <1>7, <1>8, <1>9, <1>10, <1>11, DeletionRemoval, StepsByKind
    DEF RegistryStep, Creates

\* Where FTs are sent and withdrawn in the amounts of whole uses, a drop that can be removed has none.
LEMMA SpentIsEmpty ==
    ASSUME Kept, WholeBalances, NEW d \in DOMAIN drop_by_id, Spent(d)
    PROVE  NftsRecorded(d) = {} /\ \A c : FtRecorded(d, c) = 0
  <1> DEFINE asset == asset_of(d)
             m == only_metadata(drop_by_id[d])
  <1>1. AssetKept(asset, m) /\ asset_by_id[d] = [a \in {asset_id_of(d)} |-> asset]
    BY OnlyRecord DEF Kept
  <1>2. asset.type = "ft" => asset.balance_avail \in Multiples(m.tokens_per_use)
    BY DEF WholeBalances
  <1>3. Lacks(asset, m) \/ is_empty(asset)
    BY DEF Spent
  <1>4. \A c : FtRecorded(d, c) = FtBalance(asset, c)
    BY FtOfDrop DEF Kept
  <1>5. NftsRecorded(d) = {<<asset.contract, token>> : token \in ToSet(asset.token_ids)}
    BY <1>1 DEF NftsRecorded
  <1> HIDE DEF asset, m
  <1>6. asset.balance_avail \in Nat /\ m.tokens_per_use \in Nat
    BY <1>1 DEF AssetKept
  <1>7. asset.type = "ft" => asset.balance_avail = 0
    <2>1. CASE asset.type = "ft" /\ Lacks(asset, m)
      <3>1. asset.balance_avail < m.tokens_per_use
        BY <1>6, <2>1 DEF Lacks, enough_balance
      <3> QED
        BY <1>2, <1>6, <2>1, <3>1, MultiplesBelow
    <2>2. CASE asset.type = "ft" /\ is_empty(asset)
      BY <1>6, <2>2 DEF is_empty, enough_balance
    <2> QED
      BY <1>3, <2>1, <2>2
  <1>8. asset.token_ids = << >>
    <2>1. asset.type # "nft" => asset.token_ids = << >>
      BY <1>1 DEF AssetKept
    <2>2. asset.type = "nft" => asset.token_ids = << >>
      BY <1>3 DEF Lacks, is_empty
    <2> QED
      BY <2>1, <2>2
  <1>9. \A c : FtBalance(asset, c) = 0
    BY <1>7 DEF FtBalance
  <1>10. ToSet(asset.token_ids) = {}
    BY <1>8 DEF ToSet
  <1> QED
    BY <1>4, <1>5, <1>9, <1>10

\* handle_key_cleanup and delete_keys remove a drop only when no tokens are on record in it, where
\* each use hands out one asset and FTs come in the amounts of whole uses.
THEOREM DropWithAssetsNotRemovedHolds ==
    ASSUME OneAsset, WholeUses PROVE Spec => DropWithAssetsNotRemoved
  <1> DEFINE Step ==
          \A d \in DOMAIN drop_by_id \ DOMAIN drop_by_id' :
              /\ \A c \in FtContracts : FtRecorded(d, c) <= ft_held[c] - ft_held'[c]
              /\ NftsRecorded(d) \subseteq nft_held \ nft_held'
  <1>1. Kept /\ Kept' /\ WholeBalances /\ [Next]_vars => Step
    <2> SUFFICES ASSUME Kept, Kept', WholeBalances, [Next]_vars,
                        NEW d \in DOMAIN drop_by_id \ DOMAIN drop_by_id'
                 PROVE  /\ \A c \in FtContracts : FtRecorded(d, c) <= ft_held[c] - ft_held'[c]
                        /\ NftsRecorded(d) \subseteq nft_held \ nft_held'
      OBVIOUS
    <2>1. Spent(d) /\ \A c \in FtContracts : ft_held'[c] <= ft_held[c]
      BY StepRemoval DEF Removal
    <2>2. NftsRecorded(d) = {} /\ \A c : FtRecorded(d, c) = 0
      BY <2>1, SpentIsEmpty
    <2>3. \A c \in FtContracts : ft_held'[c] \in Nat /\ ft_held[c] \in Nat
      BY DEF Kept, HeldTyped
    <2> QED
      BY <2>1, <2>2, <2>3
  <1>2. Init => WholeBalances
    BY DEF Init, EmptyMap, WholeBalances
  <1>3. Kept /\ Kept' /\ WholeBalances /\ [Next]_vars => WholeBalances'
    BY NextWholeBalances
  <1>4. Kept /\ [Next]_vars => Kept'
    BY NextKept
  <1>5. Step => [Step]_vars
    OBVIOUS
  <1> QED
    BY <1>1, <1>2, <1>3, <1>4, InitKept, PTL DEF Spec, DropWithAssetsNotRemoved
-----------------------------------------------------------------------------
(* The view of a key shows what a claim hands out.                         *)

\* What the next use of an asset finds: its NEAR, its last NFT, or the FTs it takes.
near_of_use(asset, metadata) == IF asset.type = "near" THEN metadata.tokens_per_use ELSE 0
nfts_of_use(asset) ==
    IF asset.type = "nft" /\ asset.token_ids # << >> THEN {<<asset.contract, Last(asset.token_ids)>>}
    ELSE {}
fts_of_use(asset, metadata) ==
    IF asset.type = "ft" THEN {<<asset.contract, metadata.tokens_per_use>>} ELSE {}

\* The view looks at the only use of a key that has its use.
LEMMA CurrentUseIsOnly ==
    ASSUME Stocked, NEW t, parse_token_id(t) \in DOMAIN drop_by_id,
           key_info_by_token_id[t].remaining_uses = 1
    PROVE  current_use_metadata(t) = <<only_metadata(drop_by_id[parse_token_id(t)])>>
  <1> DEFINE drop == drop_by_id[parse_token_id(t)]
             spent == [remaining_uses |-> 0]
  <1>1. StockedWith(drop, asset_by_id[parse_token_id(t)])
    BY DEF Stocked
  <1>2. get_key_cur_use(drop, key_info_by_token_id[t]) = 1 /\ get_key_cur_use(drop, spent) - 1 = 1
    BY <1>1 DEF StockedWith, get_key_cur_use, cur_use
  <1>3. last_use_data(drop, spent) = only_use(drop)
    BY <1>1, LastUseIsOnly
  <1>4. only_use(drop).assets_metadata = <<only_metadata(drop)>>
    BY <1>1 DEF StockedWith
  <1> HIDE DEF drop, spent
  <1>5. get_asset_data_for_specific_use(drop.asset_data_for_uses, 1) = only_use(drop)
    BY <1>2, <1>3 DEF last_use_data
  <1> QED
    BY <1>2, <1>4, <1>5 DEF current_use_metadata, drop

\* A sum over the single entry of a use, where it is wanted.
LEMMA SumOfSingle ==
    ASSUME NEW f, NEW n \in Nat, DOMAIN f = {} \/ (DOMAIN f = {1} /\ f[1] = n)
    PROVE  SumFunction(f) = IF DOMAIN f = {} THEN 0 ELSE n
  <1>1. CASE DOMAIN f = {}
    BY <1>1, SumEmpty DEF SumFunction
  <1>2. CASE DOMAIN f = {1} /\ f[1] = n
    BY <1>2, SumOfOne
  <1> QED
    BY <1>1, <1>2

\* What the view shows of the only asset.
LEMMA ShownAsset ==
    ASSUME Stocked, NEW t, parse_token_id(t) \in DOMAIN drop_by_id,
           key_info_by_token_id[t].remaining_uses = 1
    PROVE  LET asset == asset_of(parse_token_id(t))
               metadata == only_metadata(drop_by_id[parse_token_id(t)])
               info == get_key_information(t)
           IN  /\ info.yoctonear = near_of_use(asset, metadata)
               /\ info.ft_list = fts_of_use(asset, metadata)
               /\ info.nft_list = nfts_of_use(asset)
  <1> DEFINE d == parse_token_id(t)
             assets == asset_by_id[d]
             asset == asset_of(d)
             m == only_metadata(drop_by_id[d])
             metadata == current_use_metadata(t)
             of_type(type) == {i \in DOMAIN metadata : assets[metadata[i].asset_id].type = type}
             near == [i \in of_type("near") |-> metadata[i].tokens_per_use]
             shown(i) == shown_nft(assets[metadata[i].asset_id].token_ids,
                                   Cardinality({j \in of_type("nft") : j < i}))
             nft(i) == {<<assets[metadata[i].asset_id].contract, token>> : token \in shown(i)}
             ft(i) == <<assets[metadata[i].asset_id].contract, metadata[i].tokens_per_use>>
  <1>1. DOMAIN metadata = {1} /\ metadata[1] = m /\ assets[m.asset_id] = asset
    BY CurrentUseIsOnly DEF asset_of, asset_id_of
  <1>2. AssetKept(asset, m)
    BY OnlyRecord
  <1>3. /\ get_key_information(t).yoctonear = SumFunction(near)
        /\ get_key_information(t).ft_list = {ft(i) : i \in of_type("ft")}
        /\ get_key_information(t).nft_list = UNION {nft(i) : i \in of_type("nft")}
    BY DEF get_key_information
  <1> HIDE DEF metadata, assets, asset, m
  <1>4. \A type : of_type(type) = IF asset.type = type THEN {1} ELSE {}
    BY <1>1
  <1> HIDE DEF of_type
  <1>5. SumFunction(near) = near_of_use(asset, m)
    <2>1. m.tokens_per_use \in Nat
      BY <1>2 DEF AssetKept
    <2>2. DOMAIN near = {} \/ (DOMAIN near = {1} /\ near[1] = m.tokens_per_use)
      BY <1>1, <1>4
    <2>3. DOMAIN near = {} <=> asset.type # "near"
      BY <1>4
    <2> HIDE DEF near
    <2> QED
      BY <2>1, <2>2, <2>3, SumOfSingle DEF near_of_use
  <1>6. {ft(i) : i \in of_type("ft")} = fts_of_use(asset, m)
    BY <1>1, <1>4 DEF fts_of_use
  <1>7. UNION {nft(i) : i \in of_type("nft")} = nfts_of_use(asset)
    <2>1. CASE asset.type # "nft"
      BY <1>4, <2>1 DEF nfts_of_use
    <2>2. CASE asset.type = "nft"
      <3>1. Cardinality({j \in of_type("nft") : j < 1}) = 0
        <4>1. {j \in of_type("nft") : j < 1} = {}
          BY <1>4
        <4> QED
          BY <4>1, FS_EmptySet
      <3>2. asset.token_ids \in Seq(NftTokens)
        BY <1>2 DEF AssetKept
      <3>3. shown(1) = IF asset.token_ids # << >> THEN {Last(asset.token_ids)} ELSE {}
        <4>1. shown(1) = shown_nft(asset.token_ids, 0)
          BY <1>1, <3>1
        <4>2. Len(asset.token_ids) \in Nat /\ (Len(asset.token_ids) = 0 <=> asset.token_ids = << >>)
          BY <3>2
        <4> QED
          BY <4>1, <4>2 DEF shown_nft, Some, None, Last
      <3> HIDE DEF shown
      <3>4. UNION {nft(i) : i \in of_type("nft")} = nft(1)
        BY <1>4, <2>2
      <3> QED
        BY <1>1, <2>2, <3>3, <3>4 DEF nfts_of_use
    <2> QED
      BY <2>1, <2>2
  <1> QED
    BY <1>3, <1>5, <1>6, <1>7 DEF asset, m, d

\* A claim of a NEAR asset always has its promise, which carries the NEAR of the use.
LEMMA NearIsPromised ==
    ASSUME NEW asset, asset.type = "near", NEW n \in Nat, NEW args
    PROVE  LET c == claim_asset(asset, n, args)
           IN  c.promise # None /\ near_of(unwrap(c.promise)) = n
  <1> DEFINE p == Promise(asset, 0, NoToken, n)
  <1>1. claim_asset(asset, n, args).promise = Some(p)
    BY DEF claim_asset
  <1>2. Some(p) # None /\ unwrap(Some(p)) = p
    BY DEF Some, None, unwrap
  <1>3. p.deposits = <<n>>
    BY DEF Promise
  <1>4. SumFunction(<<n>>) = n
    <2>1. DOMAIN <<n>> = {1} /\ <<n>>[1] = n
      OBVIOUS
    <2> QED
      BY <2>1, SumOfOne
  <1> HIDE DEF p
  <1>5. near_of(p) = n
    BY <1>3, <1>4 DEF near_of, near_back, SumFunction
  <1> QED
    BY <1>1, <1>2, <1>5

\* What a claim of the last use hands out.
LEMMA DeliveredAsset ==
    ASSUME Stocked, NEW t, parse_token_id(t) \in DOMAIN drop_by_id, NEW keys,
           keys[t].remaining_uses = 0
    PROVE  LET asset == asset_of(parse_token_id(t))
               metadata == only_metadata(drop_by_id[parse_token_id(t)])
               fired == fired_promises(assets_of_last_use(t, keys, None))
               promised(type) == {i \in DOMAIN fired : fired[i].type = type}
           IN  /\ SumFunction([i \in promised("near") |-> near_of(fired[i])]) = near_of_use(asset, metadata)
               /\ {<<fired[i].contract, fired[i].token>> : i \in promised("nft")} = nfts_of_use(asset)
               /\ {<<fired[i].contract, fired[i].amount>> : i \in promised("ft")} =
                     {ft \in fts_of_use(asset, metadata) : enough_balance(asset, ft[2])}
  <1> DEFINE d == parse_token_id(t)
             asset == asset_of(d)
             m == only_metadata(drop_by_id[d])
             claimed == assets_of_last_use(t, keys, None)
             fired == fired_promises(claimed)
             promised(type) == {i \in DOMAIN fired : fired[i].type = type}
             near == [i \in promised("near") |-> near_of(fired[i])]
  <1>1. PICK c : ClaimedAsset(d, claimed, c)
    BY ClaimOfOne
  <1>2. AssetKept(asset, m) /\ m.tokens_per_use \in Nat
    BY OnlyRecord DEF AssetKept
  <1>3. ClaimTakes(asset, m, c)
    BY <1>1 DEF ClaimedAsset
  <1>4. asset.type = "near" => c.promise # None /\ near_of(unwrap(c.promise)) = m.tokens_per_use
    BY <1>1, <1>2, NearIsPromised DEF ClaimedAsset
  <1>5. /\ c.promise # None => DOMAIN fired = {1} /\ fired[1] = unwrap(c.promise)
        /\ c.promise = None => DOMAIN fired = {}
    <2>1. claimed.promises = <<c.promise>>
      BY <1>1 DEF ClaimedAsset
    <2>2. /\ c.promise # None => fired_promises(claimed) = <<unwrap(c.promise)>>
          /\ c.promise = None => fired_promises(claimed) = << >>
      BY <2>1, OnePromise
    <2> QED
      BY <2>2
  <1> HIDE DEF d, asset, m, claimed, fired
  <1>6. CASE c.promise = None
    <2>1. DOMAIN fired = {} /\ Lacks(asset, m) /\ asset.type # "near"
      BY <1>3, <1>4, <1>5, <1>6 DEF ClaimTakes
    <2>2. near_of_use(asset, m) = 0 /\ nfts_of_use(asset) = {}
      BY <2>1 DEF near_of_use, nfts_of_use, Lacks
    <2>3. {ft \in fts_of_use(asset, m) : enough_balance(asset, ft[2])} = {}
      BY <2>1 DEF fts_of_use, Lacks
    <2>4. SumFunction(near) = 0
      <3>1. DOMAIN near = {}
        BY <2>1
      <3> HIDE DEF near
      <3> QED
        BY <3>1, SumEmpty DEF SumFunction
    <2>5. /\ {<<fired[i].contract, fired[i].token>> : i \in promised("nft")} = {}
          /\ {<<fired[i].contract, fired[i].amount>> : i \in promised("ft")} = {}
      BY <2>1
    <2> QED
      BY <2>2, <2>3, <2>4, <2>5 DEF fired, claimed, asset, m, d
  <1>7. CASE c.promise # None
    <2> DEFINE q == unwrap(c.promise)
    <2>1. /\ q.type = asset.type /\ q.contract = asset.contract
          /\ asset.type = "ft" => q.amount = m.tokens_per_use /\ enough_balance(asset, m.tokens_per_use)
          /\ asset.type = "nft" => asset.token_ids # << >> /\ q.token = Last(asset.token_ids)
          /\ asset.type = "near" => near_of(q) = m.tokens_per_use
          /\ DOMAIN fired = {1} /\ fired[1] = q
      BY <1>3, <1>4, <1>5, <1>7 DEF ClaimTakes
    <2> HIDE DEF q
    <2>2. \A type : promised(type) = IF asset.type = type THEN {1} ELSE {}
      BY <2>1
    <2>3. SumFunction(near) = near_of_use(asset, m)
      <3>1. CASE asset.type = "near"
        <4>1. DOMAIN near = {1} /\ near[1] = m.tokens_per_use
          BY <2>1, <2>2, <3>1
        <4> HIDE DEF near
        <4> QED
          BY <1>2, <3>1, <4>1, SumOfOne DEF near_of_use
      <3>2. CASE asset.type # "near"
        <4>1. DOMAIN near = {}
          BY <2>2, <3>2
        <4> HIDE DEF near
        <4> QED
          BY <3>2, <4>1, SumEmpty DEF near_of_use, SumFunction
      <3> QED
        BY <3>1, <3>2
    <2> HIDE DEF promised
    <2>4. {<<fired[i].contract, fired[i].token>> : i \in promised("nft")} = nfts_of_use(asset)
      BY <2>1, <2>2 DEF nfts_of_use
    <2>5. {<<fired[i].contract, fired[i].amount>> : i \in promised("ft")} =
             {ft \in fts_of_use(asset, m) : enough_balance(asset, ft[2])}
      BY <2>1, <2>2 DEF fts_of_use
    <2> QED
      BY <2>3, <2>4, <2>5 DEF promised, fired, claimed, asset, m, d
  <1> QED
    BY <1>6, <1>7

\* The key of a public key that is looked up has its only use, and its drop is there.
LEMMA ListedKeyHasItsUse ==
    ASSUME Kept, NEW pk \in DOMAIN token_id_by_pk
    PROVE  LET t == token_id_by_pk[pk]
           IN  /\ parse_token_id(t) \in DOMAIN drop_by_id
               /\ key_info_by_token_id[t].remaining_uses = 1
               /\ keys_after_claim(pk)[t].remaining_uses = 0
  <1> DEFINE t == token_id_by_pk[pk]
             key == key_info_by_token_id[t]
  <1>1. t \in DOMAIN key_info_by_token_id /\ key.remaining_uses > 0
    BY DEF Kept, Inv, Current, Registry, Linked
  <1>2. /\ parse_token_id(t) \in DOMAIN drop_by_id
        /\ key.remaining_uses <= drop_by_id[parse_token_id(t)].max_key_uses
    BY <1>1 DEF Kept, Inv, Current, Registry, Housed
  <1>3. key.remaining_uses = 1
    <2>1. key.remaining_uses \in Nat
      BY <1>1, KeysTyped DEF Kept, KeyInfo
    <2>2. drop_by_id[parse_token_id(t)].max_key_uses = 1
      BY <1>2 DEF Kept, OneUseEach
    <2> QED
      BY <1>1, <1>2, <2>1, <2>2
  <1>4. keys_after_claim(pk)[t].remaining_uses = 0
    <2>1. key \in KeyInfo
      BY <1>1, KeysTyped DEF Kept
    <2>2. keys_after_claim(pk)[t] = spend_use(key)
      BY <1>1 DEF keys_after_claim
    <2>3. spend_use(key).remaining_uses = key.remaining_uses - 1
      BY <2>1 DEF spend_use, verify_signature, KeyInfo
    <2> QED
      BY <1>3, <2>2, <2>3
  <1> QED
    BY <1>2, <1>3, <1>4

\* The view of every key that is looked up and its claim agree.
LEMMA KeptMatchesPreview == Kept => PreviewMatchesClaim
  <1> SUFFICES ASSUME Kept, NEW pk \in DOMAIN token_id_by_pk
               PROVE  LET t == token_id_by_pk[pk]
                      IN  Delivers(fired_promises(assets_of_last_use(t, keys_after_claim(pk), None)),
                                   get_key_information(t), asset_by_id[parse_token_id(t)])
    BY DEF PreviewMatchesClaim
  <1> DEFINE t == token_id_by_pk[pk]
             d == parse_token_id(t)
             m == only_metadata(drop_by_id[d])
             asset == asset_of(d)
             info == get_key_information(t)
             fired == fired_promises(assets_of_last_use(t, keys_after_claim(pk), None))
             promised(type) == {i \in DOMAIN fired : fired[i].type = type}
  <1>1. /\ d \in DOMAIN drop_by_id /\ key_info_by_token_id[t].remaining_uses = 1
        /\ keys_after_claim(pk)[t].remaining_uses = 0
    BY ListedKeyHasItsUse
  <1>2. Stocked
    BY DEF Kept
  <1>3. /\ info.yoctonear = near_of_use(asset, m)
        /\ info.ft_list = fts_of_use(asset, m)
        /\ info.nft_list = nfts_of_use(asset)
    BY <1>1, <1>2, ShownAsset
  <1>4. /\ SumFunction([i \in promised("near") |-> near_of(fired[i])]) = near_of_use(asset, m)
        /\ {<<fired[i].contract, fired[i].token>> : i \in promised("nft")} = nfts_of_use(asset)
        /\ {<<fired[i].contract, fired[i].amount>> : i \in promised("ft")} =
              {ft \in fts_of_use(asset, m) : enough_balance(asset, ft[2])}
    BY <1>1, <1>2, DeliveredAsset
  <1>5. \A ft \in fts_of_use(asset, m) : asset_by_id[d][contract_asset_id(ft[1])] = asset
    <2>1. AssetKept(asset, m)
      BY <1>1, <1>2, OnlyRecord
    <2>2. ASSUME asset.type = "ft" PROVE asset_by_id[d][contract_asset_id(asset.contract)] = asset
      BY <2>1, <2>2 DEF AssetKept, asset_of, asset_id_of
    <2> QED
      BY <2>2 DEF fts_of_use
  <1> HIDE DEF t, d, m, asset, info, fired
  <1>6. {ft \in info.ft_list : enough_balance(asset_by_id[d][contract_asset_id(ft[1])], ft[2])} =
           {ft \in fts_of_use(asset, m) : enough_balance(asset, ft[2])}
    BY <1>3, <1>5
  <1>7. Delivers(fired, info, asset_by_id[d])
    BY <1>3, <1>4, <1>6 DEF Delivers
  <1> QED
    BY <1>7 DEF fired, info, d, t

\* What get_key_information and its siblings show of a key is what a claim of it hands out now: all
\* the NEAR, the very NFT, and the FTs unless the drop is short of them.
THEOREM PreviewMatchesClaimHolds == ASSUME OneAsset PROVE Spec => []PreviewMatchesClaim
  <1>1. Kept /\ [Next]_vars => Kept'
    BY NextKept
  <1> QED
    BY <1>1, InitKept, KeptMatchesPreview, PTL DEF Spec
=============================================================================
