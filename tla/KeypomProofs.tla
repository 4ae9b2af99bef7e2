---------------------------- MODULE KeypomProofs ----------------------------
(***************************************************************************)
(* The registry of drops, keys, public keys, owners and funders stays      *)
(* consistent, for every instance of the contract.                         *)
(*                                                                         *)
(* An operation may change the registry in two stages (claim spends a use  *)
(* and may then clean the key up), so the invariant is stated over the     *)
(* five maps as parameters and each stage has a lemma of its own, which is *)
(* about maps only.  The proofs about actions combine the stages.          *)
(***************************************************************************)
EXTENDS KeypomProperties, SequenceTheorems, TLAPS

Linked(keys, by_pk) ==
    /\ \A pk \in DOMAIN by_pk :
          /\ by_pk[pk] \in DOMAIN keys
          /\ keys[by_pk[pk]].pub_key = pk
          /\ keys[by_pk[pk]].remaining_uses > 0
    /\ \A t \in DOMAIN keys :
          keys[t].remaining_uses > 0 =>
              keys[t].pub_key \in DOMAIN by_pk /\ by_pk[keys[t].pub_key] = t

Owned(keys, per_owner) ==
    \A a \in Accounts :
        per_owner[a] = {t \in DOMAIN keys : keys[t].remaining_uses > 0 /\ keys[t].owner_id = Some(a)}

Housed(drops, keys) ==
    \A t \in DOMAIN keys :
        /\ parse_token_id(t) \in DOMAIN drops
        /\ t[2] < drops[parse_token_id(t)].next_key_id
        /\ keys[t].remaining_uses <= drops[parse_token_id(t)].max_key_uses

Funded(drops, by_funder) ==
    \A a \in Accounts : by_funder[a] = {d \in DOMAIN drops : drops[d].funder_id = a}

Typed(drops, keys, by_pk, per_owner, by_funder) ==
    /\ IsMap(drops, DropIds, Drop)
    /\ IsMap(keys, TokenIds, KeyInfo)
    /\ IsMap(by_pk, PublicKeys, TokenIds)
    /\ per_owner \in [Accounts -> SUBSET TokenIds]
    /\ by_funder \in [Accounts -> SUBSET DropIds]

Registry(drops, keys, by_pk, per_owner, by_funder) ==
    /\ Typed(drops, keys, by_pk, per_owner, by_funder)
    /\ Linked(keys, by_pk)
    /\ Owned(keys, per_owner)
    /\ Housed(drops, keys)
    /\ Funded(drops, by_funder)

Current == Registry(drop_by_id, key_info_by_token_id, token_id_by_pk, tokens_per_owner,
                    drop_ids_by_funder)

\* The maps after a stage.
KeysAdded(keys, new, data, uses) ==
    [t \in DOMAIN keys \cup new |-> IF t \in new THEN NewKeyInfo(data[t], uses) ELSE keys[t]]
PksAdded(by_pk, new, data) ==
    [pk \in DOMAIN by_pk \cup {data[t].public_key : t \in new} |->
        IF pk \in DOMAIN by_pk THEN by_pk[pk] ELSE CHOOSE t \in new : data[t].public_key = pk]
OwnersAdded(per_owner, new, data) ==
    [a \in Accounts |-> per_owner[a] \cup {t \in new : data[t].key_owner = Some(a)}]
OwnersWithout(per_owner, tokens) == [a \in Accounts |-> per_owner[a] \ tokens]
OwnersMoved(per_owner, t, owner_id) ==
    [a \in Accounts |-> IF owner_id = Some(a) THEN per_owner[a] \cup {t} ELSE per_owner[a] \ {t}]
NewTokens(d, first, n) == {<<d, k>> : k \in first .. first + n - 1}

Inv ==
    /\ Current
    /\ DOMAIN asset_by_id = DOMAIN drop_by_id
    /\ now \in 0 .. MaxTime

-----------------------------------------------------------------------------
(* Maps.                                                                   *)

\* A drop or a key written over the one of its name leaves a map: the insert of an UnorderedMap.
LEMMA WithIsMap ==
    ASSUME NEW map, NEW ids, NEW values, IsMap(map, ids, values),
           NEW id \in ids, NEW value \in values
    PROVE  IsMap(With(map, id, value), ids, values)
  BY DEF IsMap, With

\* Removing an entry leaves a map: the remove of an UnorderedMap.
LEMMA WithoutIsMap ==
    ASSUME NEW map, NEW ids, NEW values, IsMap(map, ids, values), NEW gone
    PROVE  IsMap(Without(map, gone), ids, values)
  BY DEF IsMap, Without, Restrict

\* Updating the value of an entry leaves the map's keys as they were.
LEMMA ExceptIsMap ==
    ASSUME NEW map, NEW ids, NEW values, IsMap(map, ids, values),
           NEW id \in DOMAIN map, NEW value \in values
    PROVE  IsMap([map EXCEPT ![id] = value], ids, values)
  BY DEF IsMap

\* The approvals of a new or a transferred key: a map of no account.
LEMMA EmptyApprovals ==
    EmptyMap \in UNION {[S -> 0 .. MaxApprovals] : S \in SUBSET Accounts}
  <1>1. EmptyMap \in [{} -> 0 .. MaxApprovals]
    BY DEF EmptyMap
  <1>2. {} \in SUBSET Accounts
    OBVIOUS
  <1> QED
    BY <1>1, <1>2

-----------------------------------------------------------------------------
(* The stages of the operations.                                           *)

\* A drop without keys.
LEMMA NewDrop ==
    ASSUME NEW drops, NEW keys, NEW by_pk, NEW per_owner, NEW by_funder,
           Registry(drops, keys, by_pk, per_owner, by_funder),
           NEW d \in DropIds, d \notin DOMAIN drops, NEW drop \in Drop
    PROVE  Registry(With(drops, d, drop), keys, by_pk, per_owner,
                    [by_funder EXCEPT ![drop.funder_id] = @ \cup {d}])
  <1> DEFINE drops2 == With(drops, d, drop)
             by_funder2 == [by_funder EXCEPT ![drop.funder_id] = @ \cup {d}]
  <1>1. drop.funder_id \in Accounts
    BY DEF Drop
  <1>2. Typed(drops2, keys, by_pk, per_owner, by_funder2)
    BY <1>1, WithIsMap DEF Registry, Typed
  <1>3. Linked(keys, by_pk) /\ Owned(keys, per_owner)
    BY DEF Registry
  <1>4. Housed(drops2, keys)
    BY DEF Registry, Housed, With
  <1>5. Funded(drops2, by_funder2)
    BY <1>1 DEF Registry, Typed, Funded, With
  <1> QED
    BY <1>2, <1>3, <1>4, <1>5 DEF Registry

\* The drops of a batch, which come without keys.
LEMMA NewDrops ==
    ASSUME NEW drops, NEW keys, NEW by_pk, NEW per_owner, NEW by_funder,
           Registry(drops, keys, by_pk, per_owner, by_funder),
           NEW ids \in SUBSET DropIds, ids \cap DOMAIN drops = {}, NEW caller \in Accounts,
           NEW drops2, drops2 = [d \in DOMAIN drops \cup ids |-> drops2[d]],
           \A d \in ids : drops2[d] \in Drop /\ drops2[d].funder_id = caller,
           \A d \in DOMAIN drops : drops2[d] = drops[d]
    PROVE  Registry(drops2, keys, by_pk, per_owner, [by_funder EXCEPT ![caller] = @ \cup ids])
  <1> DEFINE by_funder2 == [by_funder EXCEPT ![caller] = @ \cup ids]
  <1>1. DOMAIN drops2 = DOMAIN drops \cup ids /\ \A d \in ids : d \notin DOMAIN drops
    OBVIOUS
  <1>2. IsMap(drops2, DropIds, Drop)
    BY DEF Registry, Typed, IsMap
  <1>3. Typed(drops2, keys, by_pk, per_owner, by_funder2)
    BY <1>2 DEF Registry, Typed
  <1>4. Housed(drops2, keys)
    BY <1>1 DEF Registry, Housed
  <1>5. Funded(drops2, by_funder2)
    BY <1>1 DEF Registry, Typed, Funded
  <1> QED
    BY <1>3, <1>4, <1>5 DEF Registry

\* internal_add_keys_to_account: the keys new of drop d, numbered from its
\* next key ID on.
LEMMA NewKeys ==
    ASSUME NEW drops, NEW keys, NEW by_pk, NEW per_owner, NEW by_funder,
           Registry(drops, keys, by_pk, per_owner, by_funder),
           NEW d \in DOMAIN drops, NEW n \in Nat,
           drops[d].next_key_id + n <= MaxKeyId,
           NEW new, new = NewTokens(d, drops[d].next_key_id, n),
           NEW data \in [new -> [public_key : PublicKeys, key_owner : KeyOwners]],
           \A t \in new : data[t].public_key \notin DOMAIN by_pk,
           \A t, u \in new : data[t].public_key = data[u].public_key => t = u
    PROVE  Registry([drops EXCEPT ![d].next_key_id = @ + n],
                    KeysAdded(keys, new, data, drops[d].max_key_uses), PksAdded(by_pk, new, data),
                    OwnersAdded(per_owner, new, data), by_funder)
  <1> DEFINE drops2 == [drops EXCEPT ![d].next_key_id = @ + n]
             keys2 == KeysAdded(keys, new, data, drops[d].max_key_uses)
             by_pk2 == PksAdded(by_pk, new, data)
             per_owner2 == OwnersAdded(per_owner, new, data)
  <1>1. /\ d \in DropIds /\ drops[d] \in Drop
        /\ drops[d].next_key_id \in Nat /\ drops[d].max_key_uses \in Nat \ {0}
        /\ MaxKeyId \in Nat
    BY StorageAssumption DEF Registry, Typed, IsMap, Drop
  <1>2. ASSUME NEW t \in new
        PROVE  /\ t \in TokenIds /\ t \notin DOMAIN keys /\ parse_token_id(t) = d
               /\ t[2] < drops[d].next_key_id + n
    <2>1. PICK k \in drops[d].next_key_id .. drops[d].next_key_id + n - 1 : t = <<d, k>>
      BY DEF NewTokens
    <2>2. k \in 0 .. MaxKeyId - 1 /\ ~(k < drops[d].next_key_id) /\ k < drops[d].next_key_id + n
      BY <1>1
    <2>3. t \notin DOMAIN keys
      BY <2>1, <2>2 DEF Registry, Housed, parse_token_id
    <2> QED
      BY <1>1, <2>1, <2>2, <2>3 DEF TokenIds, parse_token_id
  <1>3. ASSUME NEW t \in new
        PROVE  /\ keys2[t] = NewKeyInfo(data[t], drops[d].max_key_uses)
               /\ keys2[t] \in KeyInfo
               /\ keys2[t].pub_key = data[t].public_key
               /\ keys2[t].owner_id = data[t].key_owner
               /\ keys2[t].remaining_uses = drops[d].max_key_uses
    <2>1. /\ data[t].public_key \in PublicKeys
          /\ data[t].key_owner \in AccountOptions
      BY AccountsAssumption DEF AccountOptions
    <2>2. EmptyMap \in UNION {[S -> 0 .. MaxApprovals] : S \in SUBSET Accounts}
      BY EmptyApprovals
    <2> QED
      BY <1>1, <2>1, <2>2 DEF KeyInfo, NewKeyInfo, KeysAdded
  <1>4. \A t \in DOMAIN keys : t \notin new /\ keys2[t] = keys[t]
    BY <1>2 DEF KeysAdded
  <1>5. ASSUME NEW t \in new
        PROVE  by_pk2[data[t].public_key] = t
    BY DEF PksAdded
  <1>6. \A pk \in DOMAIN by_pk : by_pk2[pk] = by_pk[pk]
    BY DEF PksAdded
  <1>12. /\ DOMAIN keys2 = DOMAIN keys \cup new
         /\ DOMAIN by_pk2 = DOMAIN by_pk \cup {data[t].public_key : t \in new}
        /\ keys2 = [t \in DOMAIN keys2 |-> keys2[t]]
        /\ by_pk2 = [pk \in DOMAIN by_pk2 |-> by_pk2[pk]]
    BY DEF KeysAdded, PksAdded
  <1>13. /\ per_owner2 = [a \in Accounts |-> per_owner2[a]]
         /\ \A a \in Accounts :
               per_owner2[a] = per_owner[a] \cup {t \in new : data[t].key_owner = Some(a)}
    BY DEF OwnersAdded
  <1> HIDE DEF keys2, by_pk2, per_owner2
  <1>7. Typed(drops2, keys2, by_pk2, per_owner2, by_funder)
    <2>1. IsMap(drops2, DropIds, Drop)
      <3>1. [drops[d] EXCEPT !.next_key_id = @ + n] \in Drop
        BY <1>1 DEF Drop
      <3> QED
        BY <3>1, ExceptIsMap DEF Registry, Typed
    <2>2. IsMap(keys2, TokenIds, KeyInfo)
      BY <1>2, <1>3, <1>4, <1>12 DEF Registry, Typed, IsMap
    <2>3. IsMap(by_pk2, PublicKeys, TokenIds)
      <3>1. DOMAIN by_pk2 \subseteq PublicKeys
        BY <1>12 DEF Registry, Typed, IsMap
      <3>2. \A pk \in DOMAIN by_pk2 : by_pk2[pk] \in TokenIds
        BY <1>2, <1>5, <1>6, <1>12 DEF Registry, Typed, IsMap
      <3> QED
        BY <3>1, <3>2, <1>12 DEF IsMap
    <2>4. per_owner2 \in [Accounts -> SUBSET TokenIds]
      BY <1>2, <1>13 DEF Registry, Typed
    <2> QED
      BY <2>1, <2>2, <2>3, <2>4 DEF Registry, Typed
  <1> HIDE DEF drops2
  <1>8. Linked(keys2, by_pk2)
    <2>1. ASSUME NEW pk \in DOMAIN by_pk2
          PROVE  /\ by_pk2[pk] \in DOMAIN keys2
                 /\ keys2[by_pk2[pk]].pub_key = pk
                 /\ keys2[by_pk2[pk]].remaining_uses > 0
      <3>1. CASE pk \in DOMAIN by_pk
        BY <3>1, <1>4, <1>6, <1>12 DEF Registry, Linked
      <3>2. CASE pk \notin DOMAIN by_pk
        <4>1. PICK t \in new : pk = data[t].public_key
          BY <3>2, <1>12
        <4>2. by_pk2[pk] = t /\ keys2[t].pub_key = pk /\ t \in DOMAIN keys2
          BY <4>1, <1>3, <1>5, <1>12
        <4>3. keys2[t].remaining_uses > 0
          BY <4>1, <1>1, <1>3
        <4> QED
          BY <4>2, <4>3
      <3> QED
        BY <3>1, <3>2
    <2>2. ASSUME NEW t \in DOMAIN keys2, keys2[t].remaining_uses > 0
          PROVE  keys2[t].pub_key \in DOMAIN by_pk2 /\ by_pk2[keys2[t].pub_key] = t
      <3>1. CASE t \in new
        BY <3>1, <1>3, <1>5, <1>12
      <3>2. CASE t \in DOMAIN keys
        BY <2>2, <3>2, <1>4, <1>6, <1>12 DEF Registry, Linked
      <3> QED
        BY <3>1, <3>2, <1>12
    <2> QED
      BY <2>1, <2>2 DEF Linked
  <1>9. Owned(keys2, per_owner2)
    <2>1. ASSUME NEW a \in Accounts, NEW t
          PROVE  t \in per_owner2[a] <=>
                    /\ t \in DOMAIN keys2 /\ keys2[t].remaining_uses > 0
                    /\ keys2[t].owner_id = Some(a)
      <3>1. CASE t \in new
        <4>1. t \notin per_owner[a]
          BY <3>1, <1>2 DEF Registry, Owned
        <4> QED
          BY <3>1, <4>1, <1>1, <1>3, <1>12, <1>13
      <3>2. CASE t \notin new
        BY <3>2, <1>4, <1>12, <1>13 DEF Registry, Owned
      <3> QED
        BY <3>1, <3>2
    <2> QED
      BY <2>1 DEF Owned
  <1>10. Housed(drops2, keys2)
    <2>1. /\ DOMAIN drops2 = DOMAIN drops
          /\ \A e \in DOMAIN drops : drops2[e].max_key_uses = drops[e].max_key_uses
      BY <1>1 DEF Registry, Typed, IsMap, Drop, drops2
    <2>2. /\ drops2[d].next_key_id = drops[d].next_key_id + n
          /\ \A e \in DOMAIN drops : e # d => drops2[e].next_key_id = drops[e].next_key_id
      BY <1>1 DEF Registry, Typed, IsMap, Drop, drops2
    <2>3. ASSUME NEW t \in DOMAIN keys2
          PROVE  /\ parse_token_id(t) \in DOMAIN drops2
                 /\ t[2] < drops2[parse_token_id(t)].next_key_id
                 /\ keys2[t].remaining_uses <= drops2[parse_token_id(t)].max_key_uses
      <3>1. CASE t \in new
        <4>1. parse_token_id(t) = d /\ t[2] < drops[d].next_key_id + n
          BY <3>1, <1>2
        <4>2. keys2[t].remaining_uses <= drops[d].max_key_uses
          BY <3>1, <1>1, <1>3
        <4> QED
          BY <4>1, <4>2, <2>1, <2>2
      <3>2. CASE t \in DOMAIN keys
        <4>1. t[2] \in Nat /\ drops[parse_token_id(t)].next_key_id \in Nat
          BY <3>2 DEF Registry, Housed, Typed, IsMap, TokenIds, Drop
        <4> QED
          BY <3>2, <4>1, <1>1, <1>4, <2>1, <2>2 DEF Registry, Housed
      <3> QED
        BY <3>1, <3>2, <1>12
    <2> QED
      BY <2>3 DEF Housed
  <1>11. Funded(drops2, by_funder)
    BY <1>1 DEF Registry, Funded, Typed, IsMap, Drop, drops2
  <1> QED
    BY <1>7, <1>8, <1>9, <1>10, <1>11 DEF Registry, drops2, keys2, by_pk2, per_owner2

\* The new info of a key that keeps its public key, owner and uses.
LEMMA UpdateKey ==
    ASSUME NEW drops, NEW keys, NEW by_pk, NEW per_owner, NEW by_funder,
           Registry(drops, keys, by_pk, per_owner, by_funder),
           NEW t \in DOMAIN keys, NEW key \in KeyInfo,
           key.pub_key = keys[t].pub_key, key.owner_id = keys[t].owner_id,
           key.remaining_uses = keys[t].remaining_uses
    PROVE  Registry(drops, [keys EXCEPT ![t] = key], by_pk, per_owner, by_funder)
  <1> DEFINE keys2 == [keys EXCEPT ![t] = key]
  <1>1. /\ DOMAIN keys2 = DOMAIN keys
        /\ \A u \in DOMAIN keys : /\ keys2[u].pub_key = keys[u].pub_key
                                  /\ keys2[u].owner_id = keys[u].owner_id
                                  /\ keys2[u].remaining_uses = keys[u].remaining_uses
    BY DEF Registry, Typed, IsMap
  <1>2. Typed(drops, keys2, by_pk, per_owner, by_funder)
    BY ExceptIsMap DEF Registry, Typed
  <1> HIDE DEF keys2
  <1>3. Linked(keys2, by_pk)
    BY <1>1 DEF Registry, Linked
  <1>4. Owned(keys2, per_owner)
    BY <1>1 DEF Registry, Owned
  <1>5. Housed(drops, keys2)
    BY <1>1 DEF Registry, Housed
  <1> QED
    BY <1>2, <1>3, <1>4, <1>5 DEF Registry, keys2

\* unlink_depleted_key: the key of pk has one use less, and is no longer
\* found when that was its last.
LEMMA SpendUse ==
    ASSUME NEW drops, NEW keys, NEW by_pk, NEW per_owner, NEW by_funder,
           Registry(drops, keys, by_pk, per_owner, by_funder),
           NEW pk \in DOMAIN by_pk, NEW t, t = by_pk[pk], NEW key \in KeyInfo,
           key.pub_key = keys[t].pub_key, key.owner_id = keys[t].owner_id,
           key.remaining_uses = keys[t].remaining_uses - 1
    PROVE  /\ key.remaining_uses # 0 =>
                 Registry(drops, [keys EXCEPT ![t] = key], by_pk, per_owner, by_funder)
           /\ key.remaining_uses = 0 =>
                 Registry(drops, [keys EXCEPT ![t] = key], Without(by_pk, {pk}),
                          OwnersWithout(per_owner, {t}), by_funder)
  <1> DEFINE keys2 == [keys EXCEPT ![t] = key]
             by_pk2 == Without(by_pk, {pk})
             per_owner2 == OwnersWithout(per_owner, {t})
  <1>1. /\ t \in DOMAIN keys /\ t \in TokenIds
        /\ keys[t].pub_key = pk /\ keys[t].remaining_uses > 0
        /\ keys[t].remaining_uses \in Nat /\ key.remaining_uses \in Nat
    BY DEF Registry, Typed, Linked, IsMap, KeyInfo
  <1>2. /\ DOMAIN keys2 = DOMAIN keys /\ keys2[t] = key
        /\ \A u \in DOMAIN keys : u # t => keys2[u] = keys[u]
    BY <1>1
  <1>3. /\ DOMAIN by_pk2 = DOMAIN by_pk \ {pk}
        /\ \A x \in DOMAIN by_pk2 : by_pk2[x] = by_pk[x]
    BY DEF Without, Restrict
  <1>4. IsMap(keys2, TokenIds, KeyInfo)
    BY <1>1, ExceptIsMap DEF Registry, Typed
  <1>5. IsMap(by_pk2, PublicKeys, TokenIds)
    BY WithoutIsMap DEF Registry, Typed
  <1>6. per_owner2 \in [Accounts -> SUBSET TokenIds]
    BY DEF Registry, Typed, OwnersWithout
  <1> HIDE DEF keys2, by_pk2
  <1>7. Housed(drops, keys2)
    <2>1. keys2[t].remaining_uses <= drops[parse_token_id(t)].max_key_uses
      <3>1. drops[parse_token_id(t)].max_key_uses \in Nat
        BY <1>1 DEF Registry, Typed, Housed, IsMap, Drop
      <3> QED
        BY <3>1, <1>1, <1>2 DEF Registry, Housed
    <2> QED
      BY <2>1, <1>2 DEF Registry, Housed
  <1>8. CASE key.remaining_uses # 0
    <2>1. Linked(keys2, by_pk)
      BY <1>8, <1>1, <1>2 DEF Registry, Linked
    <2>2. Owned(keys2, per_owner)
      BY <1>8, <1>1, <1>2 DEF Registry, Owned
    <2>3. Registry(drops, keys2, by_pk, per_owner, by_funder)
      BY <1>4, <1>7, <2>1, <2>2 DEF Registry, Typed
    <2> QED
      BY <2>3, <1>8 DEF keys2
  <1>9. CASE key.remaining_uses = 0
    <2>1. Linked(keys2, by_pk2)
      BY <1>9, <1>1, <1>2, <1>3 DEF Registry, Linked
    <2>2. Owned(keys2, per_owner2)
      BY <1>9, <1>1, <1>2 DEF Registry, Owned, OwnersWithout
    <2>3. Registry(drops, keys2, by_pk2, per_owner2, by_funder)
      BY <1>4, <1>5, <1>6, <1>7, <2>1, <2>2 DEF Registry, Typed
    <2> QED
      BY <2>3, <1>9 DEF keys2, by_pk2
  <1> QED
    BY <1>8, <1>9

\* A depleted key is removed.
LEMMA RemoveDepletedKey ==
    ASSUME NEW drops, NEW keys, NEW by_pk, NEW per_owner, NEW by_funder,
           Registry(drops, keys, by_pk, per_owner, by_funder),
           NEW t \in DOMAIN keys, keys[t].remaining_uses = 0
    PROVE  Registry(drops, Without(keys, {t}), by_pk, per_owner, by_funder)
  <1> DEFINE keys2 == Without(keys, {t})
  <1>1. /\ DOMAIN keys2 = DOMAIN keys \ {t}
        /\ \A u \in DOMAIN keys2 : keys2[u] = keys[u]
    BY DEF Without, Restrict
  <1>2. Typed(drops, keys2, by_pk, per_owner, by_funder)
    BY WithoutIsMap DEF Registry, Typed
  <1> HIDE DEF keys2
  <1>3. Linked(keys2, by_pk)
    BY <1>1 DEF Registry, Linked
  <1>4. Owned(keys2, per_owner)
    BY <1>1 DEF Registry, Owned
  <1>5. Housed(drops, keys2)
    BY <1>1 DEF Registry, Housed
  <1> QED
    BY <1>2, <1>3, <1>4, <1>5 DEF Registry, keys2

\* A drop without keys is removed.
LEMMA RemoveDrop ==
    ASSUME NEW drops, NEW keys, NEW by_pk, NEW per_owner, NEW by_funder,
           Registry(drops, keys, by_pk, per_owner, by_funder),
           NEW d \in DOMAIN drops, KeysOf(keys, d) = {}
    PROVE  Registry(Without(drops, {d}), keys, by_pk, per_owner,
                    [by_funder EXCEPT ![drops[d].funder_id] = @ \ {d}])
  <1> DEFINE drops2 == Without(drops, {d})
             by_funder2 == [by_funder EXCEPT ![drops[d].funder_id] = @ \ {d}]
  <1>1. /\ DOMAIN drops2 = DOMAIN drops \ {d}
        /\ \A e \in DOMAIN drops2 : drops2[e] = drops[e]
    BY DEF Without, Restrict
  <1>2. drops[d].funder_id \in Accounts
    BY DEF Registry, Typed, IsMap, Drop
  <1>3. IsMap(drops2, DropIds, Drop)
    BY WithoutIsMap DEF Registry, Typed
  <1> HIDE DEF drops2
  <1>4. Typed(drops2, keys, by_pk, per_owner, by_funder2)
    BY <1>2, <1>3 DEF Registry, Typed
  <1>5. Housed(drops2, keys)
    BY <1>1 DEF Registry, Housed, KeysOf
  <1>6. Funded(drops2, by_funder2)
    BY <1>1, <1>2 DEF Registry, Typed, Funded
  <1> QED
    BY <1>4, <1>5, <1>6 DEF Registry, drops2

\* delete_keys: the usable keys of the public keys pks are removed.
LEMMA RemoveKeys ==
    ASSUME NEW drops, NEW keys, NEW by_pk, NEW per_owner, NEW by_funder,
           Registry(drops, keys, by_pk, per_owner, by_funder),
           NEW pks \in SUBSET DOMAIN by_pk, NEW tokens, tokens = {by_pk[pk] : pk \in pks}
    PROVE  Registry(drops, Without(keys, tokens), Without(by_pk, pks),
                    OwnersWithout(per_owner, tokens), by_funder)
  <1> DEFINE keys2 == Without(keys, tokens)
             by_pk2 == Without(by_pk, pks)
             per_owner2 == OwnersWithout(per_owner, tokens)
  <1>1. /\ DOMAIN keys2 = DOMAIN keys \ tokens
        /\ \A u \in DOMAIN keys2 : keys2[u] = keys[u]
    BY DEF Without, Restrict
  <1>2. /\ DOMAIN by_pk2 = DOMAIN by_pk \ pks
        /\ \A pk \in DOMAIN by_pk2 : by_pk2[pk] = by_pk[pk]
    BY DEF Without, Restrict
  <1>3. Typed(drops, keys2, by_pk2, per_owner2, by_funder)
    BY WithoutIsMap DEF Registry, Typed, OwnersWithout
  <1> HIDE DEF keys2, by_pk2
  <1>4. \A pk \in DOMAIN by_pk : by_pk[pk] \in tokens <=> pk \in pks
    BY DEF Registry, Linked
  <1>5. Linked(keys2, by_pk2)
    BY <1>1, <1>2, <1>4 DEF Registry, Linked
  <1>6. Owned(keys2, per_owner2)
    BY <1>1 DEF Registry, Owned, OwnersWithout
  <1>7. Housed(drops, keys2)
    BY <1>1 DEF Registry, Housed
  <1> QED
    BY <1>3, <1>5, <1>6, <1>7 DEF Registry, keys2, by_pk2

\* internal_transfer: the key of pk gets a new public key and owner.
LEMMA MoveKey ==
    ASSUME NEW drops, NEW keys, NEW by_pk, NEW per_owner, NEW by_funder,
           Registry(drops, keys, by_pk, per_owner, by_funder),
           NEW pk \in DOMAIN by_pk, NEW t, t = by_pk[pk], NEW key \in KeyInfo,
           key.remaining_uses = keys[t].remaining_uses,
           key.pub_key \notin DOMAIN by_pk \ {pk}
    PROVE  Registry(drops, [keys EXCEPT ![t] = key],
                    With(Without(by_pk, {pk}), key.pub_key, t),
                    OwnersMoved(per_owner, t, key.owner_id), by_funder)
  <1> DEFINE keys2 == [keys EXCEPT ![t] = key]
             by_pk2 == With(Without(by_pk, {pk}), key.pub_key, t)
             per_owner2 == OwnersMoved(per_owner, t, key.owner_id)
  <1>1. /\ t \in DOMAIN keys /\ t \in TokenIds
        /\ keys[t].pub_key = pk /\ keys[t].remaining_uses > 0
        /\ key.pub_key \in PublicKeys
    BY DEF Registry, Typed, Linked, IsMap, KeyInfo
  <1>2. /\ DOMAIN keys2 = DOMAIN keys /\ keys2[t] = key
        /\ \A u \in DOMAIN keys : u # t => keys2[u] = keys[u]
    BY <1>1
  <1>3. /\ DOMAIN by_pk2 = (DOMAIN by_pk \ {pk}) \cup {key.pub_key}
        /\ by_pk2[key.pub_key] = t
        /\ \A x \in DOMAIN by_pk \ {pk} : by_pk2[x] = by_pk[x]
    BY DEF With, Without, Restrict
  <1>4. IsMap(keys2, TokenIds, KeyInfo)
    BY <1>1, ExceptIsMap DEF Registry, Typed
  <1>5. IsMap(by_pk2, PublicKeys, TokenIds)
    <2>1. IsMap(Without(by_pk, {pk}), PublicKeys, TokenIds)
      BY WithoutIsMap DEF Registry, Typed
    <2> QED
      BY <1>1, <2>1, WithIsMap
  <1>6. per_owner2 \in [Accounts -> SUBSET TokenIds]
    BY <1>1 DEF Registry, Typed, OwnersMoved
  <1> HIDE DEF keys2, by_pk2
  <1>7. Linked(keys2, by_pk2)
    <2>1. \A x \in DOMAIN by_pk \ {pk} : by_pk[x] # t
      BY <1>1 DEF Registry, Linked
    <2> QED
      BY <1>1, <1>2, <1>3, <2>1 DEF Registry, Linked
  <1>8. Owned(keys2, per_owner2)
    BY <1>1, <1>2 DEF Registry, Owned, OwnersMoved
  <1>9. Housed(drops, keys2)
    BY <1>1, <1>2 DEF Registry, Housed
  <1>10. Registry(drops, keys2, by_pk2, per_owner2, by_funder)
    BY <1>4, <1>5, <1>6, <1>7, <1>8, <1>9 DEF Registry, Typed
  <1> QED
    BY <1>10 DEF keys2, by_pk2

-----------------------------------------------------------------------------
(* The stages as the operations take them.                                 *)

\* internal_add_keys_to_account gives every new key an entry in the key map and its token to its owner.
LEMMA AddedKeys ==
    ASSUME NEW drops, NEW d \in DOMAIN drops, NEW k, NEW uses, NEW by_funder,
           NEW key_data \in KeyData,
           Registry(drops, key_info_by_token_id, token_id_by_pk, tokens_per_owner, by_funder),
           drops[d].next_key_id = k, drops[d].max_key_uses = uses,
           internal_add_keys_to_account(d, k, uses, key_data)
    PROVE  Registry([drops EXCEPT ![d].next_key_id = @ + Len(key_data)],
                    key_info_by_token_id', token_id_by_pk', tokens_per_owner', by_funder)
  <1> DEFINE n == Len(key_data)
             new == NewTokens(d, k, n)
             data == [t \in new |-> key_data[t[2] - k + 1]]
  <1>1. /\ n \in Nat /\ key_data \in [1 .. n -> [public_key : PublicKeys, key_owner : KeyOwners]]
    BY AccountsAssumption DEF KeyData
  <1>2. k \in Nat
    BY StorageAssumption DEF Registry, Typed, IsMap, Drop
  <1>3. data \in [new -> [public_key : PublicKeys, key_owner : KeyOwners]]
    <2>1. ASSUME NEW t \in new
          PROVE  t[2] - k + 1 \in 1 .. n
      BY <1>1, <1>2 DEF NewTokens
    <2> QED
      BY <2>1, <1>1
  <1>4. /\ k + n <= MaxKeyId
        /\ \A t \in new : data[t].public_key \notin DOMAIN token_id_by_pk
        /\ \A t, u \in new : data[t].public_key = data[u].public_key => t = u
        /\ token_id_by_pk' = PksAdded(token_id_by_pk, new, data)
        /\ key_info_by_token_id' = KeysAdded(key_info_by_token_id, new, data, uses)
        /\ tokens_per_owner' = OwnersAdded(tokens_per_owner, new, data)
    BY DEF internal_add_keys_to_account, owners_of_added_keys, NewTokens, PksAdded, KeysAdded,
           OwnersAdded
  <1>5. new = NewTokens(d, drops[d].next_key_id, n)
    OBVIOUS
  <1> HIDE DEF n, new, data
  <1>6. Registry([drops EXCEPT ![d].next_key_id = @ + n],
                 KeysAdded(key_info_by_token_id, new, data, drops[d].max_key_uses),
                 PksAdded(token_id_by_pk, new, data), OwnersAdded(tokens_per_owner, new, data),
                 by_funder)
    BY <1>1, <1>3, <1>4, <1>5, NewKeys
  <1> QED
    BY <1>4, <1>6 DEF n

\* before_claim_logic keeps the registry whole: the use is spent, and a depleted key leaves its
\* owner's set.
LEMMA SpentUse ==
    ASSUME Inv, NEW pk \in DOMAIN token_id_by_pk, unlink_depleted_key(pk)
    PROVE  /\ token_id_by_pk[pk] \in DOMAIN keys_after_claim(pk)
           /\ Registry(drop_by_id, keys_after_claim(pk), token_id_by_pk', tokens_per_owner',
                       drop_ids_by_funder)
  <1> DEFINE t == token_id_by_pk[pk]
             key == spend_use(key_info_by_token_id[t])
             keys == [key_info_by_token_id EXCEPT ![t] = key]
  <1>1. /\ t \in DOMAIN key_info_by_token_id
        /\ key_info_by_token_id[t] \in KeyInfo
        /\ key_info_by_token_id[t].remaining_uses > 0
    BY DEF Inv, Current, Registry, Linked, Typed, IsMap
  <1>2. now \in Nat
    BY StorageAssumption DEF Inv
  <1>3. /\ key \in KeyInfo
        /\ key.pub_key = key_info_by_token_id[t].pub_key
        /\ key.owner_id = key_info_by_token_id[t].owner_id
        /\ key.remaining_uses = key_info_by_token_id[t].remaining_uses - 1
    <2> DEFINE old == key_info_by_token_id[t]
    <2>1. /\ verify_signature(old) \in KeyInfo
          /\ verify_signature(old).pub_key = old.pub_key
          /\ verify_signature(old).owner_id = old.owner_id
          /\ verify_signature(old).remaining_uses = old.remaining_uses
      BY <1>1 DEF KeyInfo, verify_signature
    <2>2. old.remaining_uses - 1 \in Nat
      BY <1>1 DEF KeyInfo
    <2> QED
      BY <1>2, <2>1, <2>2 DEF KeyInfo, spend_use
  <1>4. keys_after_claim(pk) = keys /\ keys[t] = key /\ DOMAIN keys = DOMAIN key_info_by_token_id
    BY <1>1 DEF keys_after_claim
  <1>5. /\ key.remaining_uses = 0 => /\ token_id_by_pk' = Without(token_id_by_pk, {pk})
                                     /\ tokens_per_owner' = OwnersWithout(tokens_per_owner, {t})
        /\ key.remaining_uses # 0 => UNCHANGED <<token_id_by_pk, tokens_per_owner>>
    BY <1>4 DEF unlink_depleted_key, internal_remove_tokens_from_owners, OwnersWithout
  <1>6. Registry(drop_by_id, key_info_by_token_id, token_id_by_pk, tokens_per_owner,
                 drop_ids_by_funder)
    BY DEF Inv, Current
  <1> HIDE DEF t, key
  <1>7. t = token_id_by_pk[pk]
    BY DEF t
  <1>8. /\ key.remaining_uses # 0 =>
              Registry(drop_by_id, keys, token_id_by_pk, tokens_per_owner, drop_ids_by_funder)
        /\ key.remaining_uses = 0 =>
              Registry(drop_by_id, keys, Without(token_id_by_pk, {pk}),
                       OwnersWithout(tokens_per_owner, {t}), drop_ids_by_funder)
    BY <1>3, <1>6, <1>7, SpendUse
  <1> QED
    BY <1>1, <1>4, <1>5, <1>7, <1>8

\* handle_key_cleanup keeps the registry whole, whether it removes the key, or the drop, or nothing.
LEMMA CleanedUp ==
    ASSUME NEW t, NEW keys, NEW by_pk, NEW per_owner, t \in DOMAIN keys,
           Registry(drop_by_id, keys, by_pk, per_owner, drop_ids_by_funder),
           DOMAIN asset_by_id = DOMAIN drop_by_id,
           NEW assets, NEW assets_withdrawn, NEW refund, NEW added,
           handle_key_cleanup(t, keys, assets, assets_withdrawn, refund, added)
    PROVE  /\ Registry(drop_by_id', key_info_by_token_id', by_pk, per_owner, drop_ids_by_funder')
           /\ DOMAIN asset_by_id' = DOMAIN drop_by_id'
  <1> DEFINE d == parse_token_id(t)
             depleted == keys[t].remaining_uses = 0
             finished == drop_is_finished(drop_by_id[d], KeysOf(keys, d) \ {t}, assets_withdrawn)
             keys2 == IF depleted THEN Without(keys, {t}) ELSE keys
  <1>1. key_info_by_token_id' = keys2
    BY DEF handle_key_cleanup
  <1>2. /\ depleted /\ finished =>
              /\ drop_by_id' = Without(drop_by_id, {d})
              /\ asset_by_id' = Without(asset_by_id, {d})
              /\ drop_ids_by_funder' =
                    [drop_ids_by_funder EXCEPT ![drop_by_id[d].funder_id] = @ \ {d}]
        /\ ~(depleted /\ finished) =>
              /\ asset_by_id' = [asset_by_id EXCEPT ![d] = assets]
              /\ UNCHANGED <<drop_by_id, drop_ids_by_funder>>
    BY DEF handle_key_cleanup, internal_remove_drop_for_funder
  <1>3. d \in DOMAIN drop_by_id
    BY DEF Registry, Housed
  <1>4. Registry(drop_by_id, keys2, by_pk, per_owner, drop_ids_by_funder)
    BY RemoveDepletedKey
  <1>5. CASE depleted /\ finished
    <2>1. KeysOf(keys2, d) = {}
      BY <1>5 DEF KeysOf, drop_is_finished, Without, Restrict
    <2>2. DOMAIN asset_by_id' = DOMAIN drop_by_id'
      BY <1>2, <1>5 DEF Without, Restrict
    <2> HIDE DEF keys2
    <2> QED
      BY <1>1, <1>2, <1>3, <1>4, <1>5, <2>1, <2>2, RemoveDrop
  <1>6. CASE ~(depleted /\ finished)
    BY <1>1, <1>2, <1>4, <1>6
  <1> QED
    BY <1>5, <1>6

\* internal_claim_assets keeps the registry whole when the asset promises are fired.
LEMMA ClaimedAssets ==
    ASSUME NEW t, NEW keys, NEW by_pk, NEW per_owner, t \in DOMAIN keys,
           Registry(drop_by_id, keys, by_pk, per_owner, drop_ids_by_funder),
           DOMAIN asset_by_id = DOMAIN drop_by_id,
           NEW claimed, NEW results, NEW lost,
           internal_claim_assets(t, keys, claimed, results, lost)
    PROVE  /\ Registry(drop_by_id', key_info_by_token_id', by_pk, per_owner, drop_ids_by_funder')
           /\ DOMAIN asset_by_id' = DOMAIN drop_by_id'
  <1>1. CASE is_awaited(claimed)
    BY <1>1 DEF internal_claim_assets
  <1>2. CASE ~is_awaited(claimed)
    <2>1. on_assets_claimed(t, keys, claimed.assets, claimed.token_ids, results)
      BY <1>2 DEF internal_claim_assets
    <2> QED
      BY <2>1, CleanedUp DEF on_assets_claimed
  <1> QED
    BY <1>1, <1>2

-----------------------------------------------------------------------------
(* The operations.                                                         *)

\* A step that writes neither drops, keys nor owners keeps the invariant.
LEMMA SameRegistry ==
    ASSUME Inv, UNCHANGED registry, DOMAIN asset_by_id' = DOMAIN asset_by_id,
           now' \in 0 .. MaxTime
    PROVE  Inv'
  BY DEF Inv, Current, registry

\* The contract starts (lib.rs new) with an empty registry.
LEMMA InitInv == Init => Inv
  <1> SUFFICES ASSUME Init PROVE Inv
    OBVIOUS
  <1>1. Typed(drop_by_id, key_info_by_token_id, token_id_by_pk, tokens_per_owner,
              drop_ids_by_funder)
    BY DEF Init, Typed, IsMap, EmptyMap
  <1>2. /\ Linked(key_info_by_token_id, token_id_by_pk)
        /\ Owned(key_info_by_token_id, tokens_per_owner)
        /\ Housed(drop_by_id, key_info_by_token_id)
        /\ Funded(drop_by_id, drop_ids_by_funder)
    BY DEF Init, Linked, Owned, Housed, Funded, EmptyMap
  <1>3. now \in 0 .. MaxTime /\ DOMAIN asset_by_id = DOMAIN drop_by_id
    BY StorageAssumption DEF Init, EmptyMap
  <1> QED
    BY <1>1, <1>2, <1>3 DEF Inv, Current, Registry

\* create_drop adds the drop, its keys and their tokens together.
LEMMA CreateDropInv ==
    ASSUME Inv, NEW caller \in Accounts, NEW d \in DropIds, NEW shape \in Shapes,
           NEW key_data \in KeyData, NEW deposit, NEW keep,
           CreateDrop(caller, d, shape, key_data, deposit, keep)
    PROVE  Inv'
  <1> DEFINE uses == max_key_uses(shape.asset_data)
             n == Len(key_data)
             drop(k) == [funder_id |-> caller, max_key_uses |-> uses,
                         asset_data_for_uses |-> asset_data_for_uses(shape), next_key_id |-> k,
                         config |-> shape.config]
             drops == With(drop_by_id, d, drop(0))
             by_funder == [drop_ids_by_funder EXCEPT ![caller] = @ \cup {d}]
  <1>1. /\ d \notin DOMAIN drop_by_id
        /\ internal_add_keys_to_account(d, 0, uses, key_data)
        /\ drop_by_id' = With(drop_by_id, d, drop(n))
        /\ drop_ids_by_funder' = by_funder
        /\ DOMAIN asset_by_id' = DOMAIN asset_by_id \cup {d}
        /\ now' = now
    BY DEF CreateDrop, NewDropOf, With
  <1>2. drop(0) \in Drop
    BY ShapesAssumption, StorageAssumption DEF Drop
  <1>3. Registry(drops, key_info_by_token_id, token_id_by_pk, tokens_per_owner, by_funder)
    <2>1. drop(0).funder_id = caller
      OBVIOUS
    <2> HIDE DEF drop
    <2> QED
      BY <1>1, <1>2, <2>1, NewDrop DEF Inv, Current
  <1>4. /\ d \in DOMAIN drops
        /\ drops[d].next_key_id = 0 /\ drops[d].max_key_uses = uses
        /\ [drops EXCEPT ![d].next_key_id = @ + n] = With(drop_by_id, d, drop(n))
    <2>1. d \in DOMAIN drops /\ drops[d] = drop(0)
      BY DEF With
    <2>2. n \in Nat
      BY AccountsAssumption DEF KeyData
    <2>3. [drop(0) EXCEPT !.next_key_id = @ + n] = drop(n)
      BY <2>2
    <2>4. [drops EXCEPT ![d] = drop(n)] = With(drop_by_id, d, drop(n))
      BY DEF With
    <2>5. drop(0).next_key_id = 0 /\ drop(0).max_key_uses = uses
      OBVIOUS
    <2> HIDE DEF drop, drops
    <2>6. [drops EXCEPT ![d].next_key_id = @ + n]
              = [drops EXCEPT ![d] = [drops[d] EXCEPT !.next_key_id = @ + n]]
      OBVIOUS
    <2> QED
      BY <2>1, <2>3, <2>4, <2>5, <2>6
  <1> HIDE DEF drop, drops, by_funder, uses
  <1>5. Registry([drops EXCEPT ![d].next_key_id = @ + n], key_info_by_token_id',
                 token_id_by_pk', tokens_per_owner', by_funder)
    BY <1>1, <1>3, <1>4, AddedKeys
  <1>6. DOMAIN drop_by_id' = DOMAIN drop_by_id \cup {d}
    BY <1>1 DEF With
  <1> QED
    BY <1>1, <1>4, <1>5, <1>6 DEF Inv, Current

\* add_keys adds keys to a drop that exists.
LEMMA AddKeysInv ==
    ASSUME Inv, NEW caller, NEW d, NEW key_data \in KeyData, NEW deposit, NEW keep,
           AddKeys(caller, d, key_data, deposit, keep)
    PROVE  Inv'
  <1>1. /\ d \in DOMAIN drop_by_id
        /\ internal_add_keys_to_account(d, drop_by_id[d].next_key_id, drop_by_id[d].max_key_uses,
                                        key_data)
        /\ drop_by_id' = [drop_by_id EXCEPT ![d].next_key_id = @ + Len(key_data)]
        /\ UNCHANGED <<asset_by_id, drop_ids_by_funder, now>>
    BY DEF AddKeys
  <1>2. Registry([drop_by_id EXCEPT ![d].next_key_id = @ + Len(key_data)], key_info_by_token_id',
                 token_id_by_pk', tokens_per_owner', drop_ids_by_funder)
    BY <1>1, AddedKeys DEF Inv, Current
  <1> QED
    BY <1>1, <1>2 DEF Inv, Current

\* What create_drop_batch is called with: drop IDs and shapes.
LEMMA BatchEntries ==
    ASSUME NEW batch \in Batches
    PROVE  \A i \in DOMAIN batch : batch[i].drop_id \in DropIds /\ batch[i].shape \in Shapes
  <1> DEFINE Entry == [drop_id : DropIds, shape : Shapes]
  <1>1. \A entry \in Entry : entry.drop_id \in DropIds /\ entry.shape \in Shapes
    OBVIOUS
  <1>2. batch \in Seq(Entry)
    BY BatchesAssumption
  <1> HIDE DEF Entry
  <1>3. \A i \in DOMAIN batch : batch[i] \in Entry
    BY <1>2, LenProperties, ElementOfSeq
  <1> QED
    BY <1>1, <1>3

\* create_drop_batch adds its drops and lists them for their funder.
LEMMA CreateDropBatchInv ==
    ASSUME Inv, NEW caller \in Accounts, NEW batch \in Batches, NEW deposit, NEW keep,
           NEW metadata, NEW on_success, NEW call_fails,
           CreateDropBatch(caller, batch, deposit, keep, metadata, on_success, call_fails)
    PROVE  Inv'
  <1> DEFINE ids == {batch[i].drop_id : i \in DOMAIN batch}
             shape == [d \in ids |-> batch[CHOOSE i \in DOMAIN batch : batch[i].drop_id = d].shape]
             new_drop == [d \in ids |-> NewDropOf(caller, shape[d], 0)]
             drops == [d \in DOMAIN drop_by_id \cup ids |->
                          IF d \in ids THEN new_drop[d] ELSE drop_by_id[d]]
  <1>1. /\ ids \cap DOMAIN drop_by_id = {}
        /\ drop_by_id' = drops
        /\ drop_ids_by_funder' = [drop_ids_by_funder EXCEPT ![caller] = @ \cup ids]
        /\ DOMAIN asset_by_id' = DOMAIN asset_by_id \cup ids
        /\ UNCHANGED <<key_info_by_token_id, token_id_by_pk, tokens_per_owner, now>>
    BY DEF CreateDropBatch
  <1>2. /\ ids \in SUBSET DropIds
        /\ \A d \in ids : shape[d] \in Shapes
    BY BatchEntries
  <1> HIDE DEF ids, shape
  <1>3. ASSUME NEW d \in ids
        PROVE  new_drop[d] \in Drop /\ new_drop[d].funder_id = caller
    BY <1>2, ShapesAssumption, StorageAssumption DEF Drop, NewDropOf
  <1> HIDE DEF new_drop
  <1>6. Current
    BY DEF Inv
  <1>7. ids \in SUBSET DropIds /\ ids \cap DOMAIN drop_by_id = {}
    BY <1>1, <1>2
  <1>8. /\ drops = [d \in DOMAIN drop_by_id \cup ids |-> drops[d]]
        /\ \A d \in ids : drops[d] \in Drop /\ drops[d].funder_id = caller
        /\ \A d \in DOMAIN drop_by_id : drops[d] = drop_by_id[d]
    BY <1>3, <1>7
  <1> HIDE DEF drops
  <1>4. Registry(drops, key_info_by_token_id, token_id_by_pk, tokens_per_owner,
                 [drop_ids_by_funder EXCEPT ![caller] = @ \cup ids])
    BY <1>6, <1>7, <1>8, NewDrops DEF Current
  <1>5. DOMAIN asset_by_id' = DOMAIN drop_by_id'
    BY <1>1, <1>8 DEF Inv
  <1> QED
    BY <1>1, <1>4, <1>5 DEF Inv, Current

\* delete_keys takes the keys from the map and their tokens from the owners, then the drop if it is
\* empty.
LEMMA DeleteKeysInv ==
    ASSUME Inv, NEW caller, NEW d, NEW pks \in SUBSET DOMAIN token_id_by_pk, NEW keep_empty_drop,
           DeleteKeys(caller, d, pks, keep_empty_drop)
    PROVE  Inv'
  <1> DEFINE tokens == {token_id_by_pk[pk] : pk \in pks}
             keys == Without(key_info_by_token_id, tokens)
             remove_drop == KeysOf(key_info_by_token_id, d) \subseteq tokens /\ ~keep_empty_drop
  <1>1. /\ d \in DOMAIN drop_by_id /\ drop_by_id[d].funder_id = caller
        /\ token_id_by_pk' = Without(token_id_by_pk, pks)
        /\ key_info_by_token_id' = keys
        /\ tokens_per_owner' = OwnersWithout(tokens_per_owner, tokens)
        /\ now' = now
    BY DEF DeleteKeys, deleted_tokens, internal_remove_tokens_from_owners, OwnersWithout
  <1>2. /\ remove_drop =>
              /\ drop_by_id' = Without(drop_by_id, {d})
              /\ asset_by_id' = Without(asset_by_id, {d})
              /\ drop_ids_by_funder' = [drop_ids_by_funder EXCEPT ![caller] = @ \ {d}]
        /\ ~remove_drop => UNCHANGED <<drop_by_id, asset_by_id, drop_ids_by_funder>>
    BY DEF DeleteKeys, deleted_tokens, internal_remove_drop_for_funder
  <1>3. remove_drop => KeysOf(keys, d) = {}
    BY DEF KeysOf, Without, Restrict
  <1> HIDE DEF tokens
  <1>4. Registry(drop_by_id, keys, Without(token_id_by_pk, pks),
                 OwnersWithout(tokens_per_owner, tokens), drop_ids_by_funder)
    BY RemoveKeys DEF Inv, Current, tokens
  <1>5. CASE remove_drop
    <2>1. DOMAIN asset_by_id' = DOMAIN drop_by_id'
      BY <1>2, <1>5 DEF Inv, Without, Restrict
    <2> HIDE DEF keys, remove_drop
    <2>2. Registry(Without(drop_by_id, {d}), keys, Without(token_id_by_pk, pks),
                   OwnersWithout(tokens_per_owner, tokens),
                   [drop_ids_by_funder EXCEPT ![caller] = @ \ {d}])
      BY <1>1, <1>3, <1>4, <1>5, RemoveDrop
    <2> QED
      BY <1>1, <1>2, <1>5, <2>1, <2>2 DEF Inv, Current
  <1>6. CASE ~remove_drop
    BY <1>1, <1>2, <1>4, <1>6 DEF Inv, Current
  <1> QED
    BY <1>5, <1>6

\* claim spends a use of a key.
LEMMA ClaimInv ==
    ASSUME Inv, NEW pk \in DOMAIN token_id_by_pk, NEW fc_args, NEW lost,
           Claim(pk, fc_args, lost)
    PROVE  Inv'
  <1> DEFINE t == token_id_by_pk[pk]
             keys == keys_after_claim(pk)
  <1>1. /\ unlink_depleted_key(pk)
        /\ internal_claim_assets(t, keys, assets_of_last_use(t, keys, fc_args), << >>, lost)
        /\ now' = now
    BY DEF Claim, claim_of
  <1>2. /\ t \in DOMAIN keys
        /\ Registry(drop_by_id, keys, token_id_by_pk', tokens_per_owner', drop_ids_by_funder)
    BY <1>1, SpentUse
  <1> HIDE DEF keys
  <1> QED
    BY <1>1, <1>2, ClaimedAssets DEF Inv, Current

\* create_account_and_claim spends a use of a key before the account exists.
LEMMA CreateAccountAndClaimInv ==
    ASSUME Inv, NEW pk \in DOMAIN token_id_by_pk, NEW fc_args,
           CreateAccountAndClaim(pk, fc_args)
    PROVE  Inv'
  <1>1. /\ unlink_depleted_key(pk)
        /\ key_info_by_token_id' = keys_after_claim(pk)
        /\ UNCHANGED <<drop_by_id, asset_by_id, drop_ids_by_funder, now>>
    BY DEF CreateAccountAndClaim
  <1> QED
    BY <1>1, SpentUse DEF Inv, Current

\* on_new_account_created claims the assets once the account exists.
LEMMA OnNewAccountCreatedInv ==
    ASSUME Inv, NEW r, NEW lost, OnNewAccountCreated(r, lost)
    PROVE  Inv'
  <1> DEFINE t == receipts[r].token_id
  <1>1. /\ t \in DOMAIN key_info_by_token_id
        /\ internal_claim_assets(t, key_info_by_token_id, assets_for(receipts[r]), <<TRUE>>, lost)
        /\ UNCHANGED <<token_id_by_pk, tokens_per_owner, now>>
    BY DEF OnNewAccountCreated, callback_finds_key, hand_out
  <1> QED
    BY <1>1, ClaimedAssets DEF Inv, Current

\* on_new_account_created refunds the assets when the account could not be created.
LEMMA OnAccountCreationFailedInv ==
    ASSUME Inv, NEW r, OnAccountCreationFailed(r)
    PROVE  Inv'
  <1> DEFINE t == receipts[r].token_id
             d == parse_token_id(t)
             metadata == last_use_data(drop_by_id[d], key_info_by_token_id[t]).assets_metadata
  <1>1. /\ t \in DOMAIN key_info_by_token_id
        /\ handle_key_cleanup(t, key_info_by_token_id, asset_by_id[d],
               all_assets_empty(asset_by_id[d]), cost_of_use(asset_by_id[d], metadata), 0)
        /\ UNCHANGED <<token_id_by_pk, tokens_per_owner, now>>
    BY DEF OnAccountCreationFailed, callback_finds_key
  <1> QED
    BY <1>1, CleanedUp DEF Inv, Current

\* on_assets_claimed refunds what failed into the drop, then cleans up.
LEMMA OnAssetsClaimedInv ==
    ASSUME Inv, NEW r, NEW lost, OnAssetsClaimed(r, lost)
    PROVE  Inv'
  <1> DEFINE t == receipts[r].token_id
             succeeded == ~has_failed(receipts[r].promise, lost)
             found == on_assets_claimed_defined(t, receipts[r].token_ids, succeeded)
  <1>1. UNCHANGED <<token_id_by_pk, tokens_per_owner, now>>
    BY DEF OnAssetsClaimed
  <1>2. CASE found
    <2>1. /\ t \in DOMAIN key_info_by_token_id
          /\ on_assets_claimed(t, key_info_by_token_id, asset_by_id[parse_token_id(t)],
                               receipts[r].token_ids, <<succeeded>>)
      BY <1>2 DEF OnAssetsClaimed, on_assets_claimed_defined
    <2> QED
      BY <1>1, <2>1, CleanedUp DEF Inv, Current, on_assets_claimed
  <1>3. CASE ~found
    <2>1. UNCHANGED <<drop_by_id, asset_by_id, key_info_by_token_id, drop_ids_by_funder>>
      BY <1>3 DEF OnAssetsClaimed
    <2> QED
      BY <1>1, <2>1, SameRegistry DEF registry, Inv
  <1> QED
    BY <1>2, <1>3

\* internal_transfer, which nft_transfer and nft_transfer_payout make, moves a token between owners
\* and re-keys it.
LEMMA TransferInv ==
    ASSUME Inv, NEW sender, NEW pk \in DOMAIN token_id_by_pk, NEW receiver \in Receivers,
           NEW approval_id, NEW new_pk \in PublicKeys,
           internal_transfer(sender, pk, receiver, approval_id, new_pk)
    PROVE  Inv'
  <1> DEFINE t == token_id_by_pk[pk]
             key == transferred(key_info_by_token_id[t], receiver, new_pk)
  <1>1. /\ t \in DOMAIN key_info_by_token_id
        /\ key_info_by_token_id[t] \in KeyInfo
        /\ key_info_by_token_id[t].pub_key = pk
    BY DEF Inv, Current, Registry, Linked, Typed, IsMap
  <1>2. /\ new_pk \notin DOMAIN token_id_by_pk \ {pk}
        /\ tokens_per_owner' = OwnersMoved(tokens_per_owner, t, receiver)
        /\ token_id_by_pk' = With(Without(token_id_by_pk, {pk}), new_pk, t)
        /\ key_info_by_token_id' = [key_info_by_token_id EXCEPT ![t] = key]
        /\ UNCHANGED <<drop_by_id, asset_by_id, drop_ids_by_funder, now>>
    BY <1>1 DEF internal_transfer, OwnersMoved, relink_key
  <1>3. /\ key \in KeyInfo
        /\ key.pub_key = new_pk /\ key.owner_id = receiver
        /\ key.remaining_uses = key_info_by_token_id[t].remaining_uses
    <2>1. receiver \in AccountOptions
      BY TransfersAssumption DEF AccountOptions
    <2> QED
      BY <1>1, <2>1, EmptyApprovals DEF KeyInfo, transferred
  <1> HIDE DEF t, key
  <1>4. Registry(drop_by_id, [key_info_by_token_id EXCEPT ![t] = key],
                 With(Without(token_id_by_pk, {pk}), new_pk, t),
                 OwnersMoved(tokens_per_owner, t, receiver), drop_ids_by_funder)
    BY <1>2, <1>3, MoveKey DEF Inv, Current, t
  <1> QED
    BY <1>2, <1>4 DEF Inv, Current

\* nft_approve writes a live key's approvals only.
LEMMA NftApproveInv ==
    ASSUME Inv, NEW sender, NEW pk \in DOMAIN token_id_by_pk, NEW account \in Approvers,
           NftApprove(sender, pk, account)
    PROVE  Inv'
  <1> DEFINE t == token_id_by_pk[pk]
             old == key_info_by_token_id[t]
             key == approved(verify_signature(old), account)
  <1>1. t \in DOMAIN key_info_by_token_id /\ old \in KeyInfo
    BY DEF Inv, Current, Registry, Linked, Typed, IsMap
  <1>2. /\ old.next_approval_id < MaxApprovals
        /\ key_info_by_token_id' = [key_info_by_token_id EXCEPT ![t] = key]
        /\ UNCHANGED <<drop_by_id, asset_by_id, token_id_by_pk, tokens_per_owner,
                       drop_ids_by_funder, now>>
    BY <1>1 DEF NftApprove
  <1>3. With(old.approved_account_ids, account, old.next_approval_id)
            \in UNION {[S -> 0 .. MaxApprovals] : S \in SUBSET Accounts}
    <2> DEFINE ids == old.approved_account_ids
    <2>1. PICK S \in SUBSET Accounts : ids \in [S -> 0 .. MaxApprovals]
      BY <1>1 DEF KeyInfo
    <2>2. account \in Accounts /\ old.next_approval_id \in 0 .. MaxApprovals
      BY <1>1, <1>2, TransfersAssumption DEF KeyInfo
    <2>3. With(ids, account, old.next_approval_id) \in [S \cup {account} -> 0 .. MaxApprovals]
      BY <2>1, <2>2 DEF With
    <2>4. S \cup {account} \in SUBSET Accounts
      BY <2>2
    <2> QED
      BY <2>3, <2>4
  <1>4. /\ key \in KeyInfo
        /\ key.pub_key = old.pub_key /\ key.owner_id = old.owner_id
        /\ key.remaining_uses = old.remaining_uses
    <2>1. /\ verify_signature(old) \in KeyInfo
          /\ verify_signature(old).pub_key = old.pub_key
          /\ verify_signature(old).owner_id = old.owner_id
          /\ verify_signature(old).remaining_uses = old.remaining_uses
          /\ verify_signature(old).approved_account_ids = old.approved_account_ids
      BY <1>1 DEF KeyInfo, verify_signature
    <2> DEFINE signed == verify_signature(old)
    <2>2. signed.next_approval_id = old.next_approval_id
      BY <1>1 DEF KeyInfo, verify_signature
    <2> HIDE DEF signed
    <2>3. /\ signed.next_approval_id + 1 \in Nat
          /\ With(signed.approved_account_ids, account, signed.next_approval_id)
                \in UNION {[S -> 0 .. MaxApprovals] : S \in SUBSET Accounts}
      BY <1>1, <1>3, <2>1, <2>2 DEF KeyInfo, signed
    <2>4. /\ approved(signed, account) \in KeyInfo
          /\ approved(signed, account).pub_key = signed.pub_key
          /\ approved(signed, account).owner_id = signed.owner_id
          /\ approved(signed, account).remaining_uses = signed.remaining_uses
      BY <2>1, <2>3 DEF KeyInfo, approved, signed
    <2> QED
      BY <2>1, <2>4 DEF signed
  <1> HIDE DEF t, key
  <1>5. Registry(drop_by_id, [key_info_by_token_id EXCEPT ![t] = key], token_id_by_pk,
                 tokens_per_owner, drop_ids_by_funder)
    BY <1>1, <1>4, UpdateKey DEF Inv, Current
  <1> QED
    BY <1>2, <1>5 DEF Inv, Current

-----------------------------------------------------------------------------
(* The invariant and what follows from it.                                 *)

\* Operations that touch no drop and no key.
SettingsStep ==
    \/ FreezeContract \/ UnfreezeContract
    \/ \E account : SetRootAccount(account)
    \/ \E drop_fee, key_fee \in FeeChoices : SetFees(drop_fee, key_fee)
    \/ \E account : \E drop_fee, key_fee \in UserFees : SetFeesPerUser(account, drop_fee, key_fee)
    \/ \E account : AddSigningAdmin(account)
    \/ \E caller, public_keys : AddSigningPks(caller, public_keys)
    \/ \E caller, public_keys : RemoveSigningPks(caller, public_keys)

BalanceStep ==
    \/ \E caller, deposit : AddToBalance(caller, deposit)
    \/ \E caller, amount : WithdrawFromBalance(caller, amount)
    \/ \E caller, metadata, deposit : SetFunderMetadata(caller, metadata, deposit)
    \/ WithdrawFees
    \/ \E r, succeeded : OnWithdrawFees(r, succeeded)

TokensMoved ==
    \/ \E c \in FtContracts, amount \in FtAmounts : \E d : FtOnTransfer(c, amount, d)
    \/ \E c \in FtContracts, amount \in FtAmounts : \E caller, d :
          WithdrawFtBalance(caller, d, c, amount)
    \/ \E c \in NftContracts, token \in NftTokens : \E sender, d :
          NftOnTransfer(c, token, sender, d)
    \/ \E caller, d, c, tokens : WithdrawNftTokens(caller, d, c, tokens)
    \/ \E r, succeeded : FtResolveRefund(r, succeeded)
    \/ \E r, succeeded : ResolveNftRefund(r, succeeded)

\* The settings, the balances and the tokens that come and go leave the registry alone (owner.rs,
\* funder_info.rs, lib.rs and the assets' handlers), and so does a callback that panics.
LEMMA RegistryUntouched ==
    ASSUME SettingsStep \/ BalanceStep \/ TokensMoved \/ Tick
           \/ \E r : OnNewAccountCreatedPanics(r)
    PROVE  UNCHANGED registry
  <1>1. CASE SettingsStep
    BY <1>1 DEF SettingsStep, FreezeContract, UnfreezeContract, SetRootAccount, SetFees,
                SetFeesPerUser, AddSigningAdmin, AddSigningPks, RemoveSigningPks, besides_signing,
                besides_settings
  <1>2. CASE BalanceStep
    BY <1>2 DEF BalanceStep, AddToBalance, WithdrawFromBalance, SetFunderMetadata, WithdrawFees,
                OnWithdrawFees
  <1>3. CASE TokensMoved
    BY <1>3 DEF TokensMoved, FtOnTransfer, WithdrawFtBalance, NftOnTransfer, WithdrawNftTokens,
                FtResolveRefund, ResolveNftRefund
  <1>4. CASE Tick
    BY <1>4 DEF Tick
  <1>5. ASSUME NEW r, OnNewAccountCreatedPanics(r)
        PROVE  UNCHANGED registry
    BY <1>5 DEF OnNewAccountCreatedPanics, CallbackPanics
  <1> QED
    BY <1>1, <1>2, <1>3, <1>4, <1>5

\* They keep the invariant.
LEMMA OtherOperationsInv ==
    ASSUME Inv, SettingsStep \/ BalanceStep \/ TokensMoved \/ Tick
                \/ \E r : OnNewAccountCreatedPanics(r)
    PROVE  Inv'
  <1>1. now \in 0 .. MaxTime
    BY DEF Inv
  <1>2. UNCHANGED registry
    BY RegistryUntouched
  <1>3. CASE SettingsStep
    <2>1. UNCHANGED <<asset_by_id, now>>
      BY <1>3 DEF SettingsStep, FreezeContract, UnfreezeContract, SetRootAccount, SetFees,
                  SetFeesPerUser, AddSigningAdmin, AddSigningPks, RemoveSigningPks,
                  besides_signing, besides_settings
    <2> QED
      BY <1>1, <1>2, <2>1, SameRegistry
  <1>4. CASE BalanceStep
    <2>1. UNCHANGED <<asset_by_id, now>>
      BY <1>4 DEF BalanceStep, AddToBalance, WithdrawFromBalance, SetFunderMetadata, WithdrawFees,
                  OnWithdrawFees
    <2> QED
      BY <1>1, <1>2, <2>1, SameRegistry
  <1>5. CASE TokensMoved
    <2>1. DOMAIN asset_by_id' = DOMAIN asset_by_id /\ now' = now
      BY <1>5 DEF TokensMoved, FtOnTransfer, WithdrawFtBalance, NftOnTransfer, WithdrawNftTokens,
                  FtResolveRefund, ResolveNftRefund
    <2> QED
      BY <1>1, <1>2, <2>1, SameRegistry
  <1>6. CASE Tick
    <2>1. now' \in 0 .. MaxTime /\ asset_by_id' = asset_by_id
      BY <1>1, <1>6, StorageAssumption DEF Tick
    <2> QED
      BY <1>2, <2>1, SameRegistry
  <1>7. ASSUME NEW r, OnNewAccountCreatedPanics(r)
        PROVE  Inv'
    BY <1>1, <1>7, SameRegistry DEF OnNewAccountCreatedPanics, CallbackPanics
  <1> QED
    BY <1>3, <1>4, <1>5, <1>6, <1>7

\* The operations that change the registry, each with what it is called with.
SomeDropCreated ==
    \E caller \in Accounts, d \in DropIds, shape \in Shapes, key_data \in KeyData :
        \E deposit, keep : CreateDrop(caller, d, shape, key_data, deposit, keep)
SomeKeysAdded ==
    \E caller \in Accounts, key_data \in KeyData :
        \E d, deposit, keep : AddKeys(caller, d, key_data, deposit, keep)
SomeKeysDeleted ==
    \E caller \in Accounts, pks \in SUBSET DOMAIN token_id_by_pk :
        \E d, keep_empty_drop : DeleteKeys(caller, d, pks, keep_empty_drop)
SomeBatchCreated ==
    \E caller \in Accounts, batch \in Batches :
        \E deposit, keep, metadata, on_success, call_fails :
            CreateDropBatch(caller, batch, deposit, keep, metadata, on_success, call_fails)
SomeClaim == \E pk \in DOMAIN token_id_by_pk : \E fc_args, lost : Claim(pk, fc_args, lost)
SomeAccountClaim ==
    \E pk \in DOMAIN token_id_by_pk : \E fc_args : CreateAccountAndClaim(pk, fc_args)
SomeTransfer ==
    \E pk \in DOMAIN token_id_by_pk, receiver \in Receivers, new_pk \in PublicKeys :
        \E sender, approval_id : internal_transfer(sender, pk, receiver, approval_id, new_pk)
SomeApproval == \E sender \in Senders, pk \in DOMAIN token_id_by_pk, account \in Approvers :
        NftApprove(sender, pk, account)
SomeClaimCallback ==
    \/ \E r, lost : OnNewAccountCreated(r, lost)
    \/ \E r : OnAccountCreationFailed(r)
    \/ \E r, lost : OnAssetsClaimed(r, lost)

RegistryStep ==
    \/ SomeDropCreated \/ SomeKeysAdded \/ SomeKeysDeleted \/ SomeBatchCreated
    \/ SomeClaim \/ SomeAccountClaim \/ SomeClaimCallback \/ SomeTransfer \/ SomeApproval

\* Every step is one of these.
LEMMA StepsByKind ==
    ASSUME Next
    PROVE  \/ RegistryStep \/ SettingsStep \/ BalanceStep \/ TokensMoved \/ Tick
           \/ \E r : OnNewAccountCreatedPanics(r)
  <1>1. CASE FunderStep
    <2>1. PICK caller \in Accounts : DropCall(caller) \/ BalanceCall(caller)
      BY <1>1 DEF FunderStep
    <2>2. CASE DropCall(caller)
      <3>1. ASSUME NEW d \in DropIds, NEW shape \in Shapes, NEW key_data \in KeyData,
                   NEW deposit, NEW keep, CreateDrop(caller, d, shape, key_data, deposit, keep)
            PROVE  SomeDropCreated
        BY <3>1 DEF SomeDropCreated
      <3>2. ASSUME NEW d, NEW key_data \in KeyData, NEW deposit, NEW keep,
                   AddKeys(caller, d, key_data, deposit, keep)
            PROVE  SomeKeysAdded
        BY <3>2 DEF SomeKeysAdded
      <3>3. ASSUME NEW d, NEW keep_empty_drop, NEW pks \in SUBSET DOMAIN token_id_by_pk,
                   DeleteKeys(caller, d, pks, keep_empty_drop)
            PROVE  SomeKeysDeleted
        BY <3>3 DEF SomeKeysDeleted
      <3>4. ASSUME NEW batch \in Batches, NEW deposit, NEW keep, NEW metadata, NEW on_success,
                   NEW call_fails,
                   CreateDropBatch(caller, batch, deposit, keep, metadata, on_success, call_fails)
            PROVE  SomeBatchCreated
        BY <3>4 DEF SomeBatchCreated
      <3> QED
        BY <2>2, <3>1, <3>2, <3>3, <3>4 DEF DropCall, RegistryStep
    <2>3. CASE BalanceCall(caller)
      BY <2>3 DEF BalanceCall, BalanceStep
    <2> QED
      BY <2>1, <2>2, <2>3
  <1>2. CASE ClaimStep
    BY <1>2 DEF ClaimStep, RegistryStep, SomeClaim, SomeAccountClaim
  <1>3. CASE TokenStep
    BY <1>3 DEF TokenStep, TokensMoved
  <1>4. CASE KeyStep
    BY <1>4 DEF KeyStep, RegistryStep, SomeTransfer, SomeApproval, NftTransfer, NftTransferPayout
  <1>5. CASE \E r \in DOMAIN receipts : Callback(r)
    BY <1>5 DEF Callback, RegistryStep, SomeClaimCallback, TokensMoved, BalanceStep
  <1>6. CASE OwnerStep
    BY <1>6 DEF OwnerStep, SettingsStep, BalanceStep
  <1>7. CASE AdminStep
    BY <1>7 DEF AdminStep, SettingsStep
  <1> QED
    BY <1>1, <1>2, <1>3, <1>4, <1>5, <1>6, <1>7 DEF Next

\* Every step keeps the invariant: one case for each kind of operation.
LEMMA NextInv == Inv /\ [Next]_vars => Inv'
  <1> SUFFICES ASSUME Inv, [Next]_vars PROVE Inv'
    OBVIOUS
  <1>1. CASE SomeDropCreated
    BY <1>1, CreateDropInv DEF SomeDropCreated
  <1>2. CASE SomeKeysAdded
    BY <1>2, AddKeysInv DEF SomeKeysAdded
  <1>3. CASE SomeKeysDeleted
    BY <1>3, DeleteKeysInv DEF SomeKeysDeleted
  <1>4. CASE SomeBatchCreated
    BY <1>4, CreateDropBatchInv DEF SomeBatchCreated
  <1>5. CASE SomeClaim \/ SomeAccountClaim
    BY <1>5, ClaimInv, CreateAccountAndClaimInv DEF SomeClaim, SomeAccountClaim
  <1>6. CASE SomeClaimCallback
    BY <1>6, OnNewAccountCreatedInv, OnAccountCreationFailedInv, OnAssetsClaimedInv
       DEF SomeClaimCallback
  <1>7. CASE SomeTransfer \/ SomeApproval
    BY <1>7, TransferInv, NftApproveInv DEF SomeTransfer, SomeApproval
  <1>8. CASE \/ SettingsStep \/ BalanceStep \/ TokensMoved \/ Tick
             \/ \E r : OnNewAccountCreatedPanics(r)
    BY <1>8, OtherOperationsInv
  <1>9. CASE UNCHANGED vars
    BY <1>9, SameRegistry DEF vars, Inv
  <1> QED
    BY <1>1, <1>2, <1>3, <1>4, <1>5, <1>6, <1>7, <1>8, <1>9, StepsByKind DEF RegistryStep

\* Inv holds in every reachable state.
THEOREM InvAlways == Spec => []Inv
  BY InitInv, NextInv, PTL DEF Spec

\* The five maps of the registry and the drops' assets agree in every
\* reachable state (create_drop, add_keys, delete_keys, the claims and their
\* callbacks, nft_transfer, nft_approve), whatever the drops, keys and amounts.
THEOREM IndexConsistencyHolds == Spec => []IndexConsistency
  <1>1. Inv => IndexConsistency
    BY DEF Inv, Current, Registry, Linked, Owned, Housed, Funded, IndexConsistency,
           PublicKeyLeadsToKey, UsableKeyIsFound, OwnersHaveTheirKeys, KeysHaveTheirDrop,
           FundersHaveTheirDrops, usable
  <1> QED
    BY <1>1, InvAlways, PTL

\* The registry holds drops, keys and indices of their types.
THEOREM RegistryTyped == Spec => []RegistryTypeOK
  <1>1. Inv => RegistryTypeOK
    BY DEF Inv, Current, Registry, Typed, RegistryTypeOK
  <1> QED
    BY <1>1, InvAlways, PTL
=============================================================================
