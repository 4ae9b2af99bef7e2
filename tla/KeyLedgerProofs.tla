--------------------------- MODULE KeyLedgerProofs ---------------------------
(***************************************************************************)
(* What the ledger promises is sound: whatever is issued, used, claimed,   *)
(* transferred and revoked, a token is borne by one public key and on      *)
(* record as long as anything needs it.                                    *)
(***************************************************************************)
EXTENDS KeyLedger, TLAPS

\* The keys of LedgerSound, for any map.
SoundKeys(map) ==
    /\ map \in [DOMAIN map -> Key]
    /\ \A p, q \in DOMAIN map : map[p].token = map[q].token => p = q

\* A use leaves the others as they are and no token that was not there.
LEMMA UseIsSound ==
    ASSUME LedgerSound, NEW pk \in DOMAIN keys
    PROVE  /\ SoundKeys(keys_after_use(pk))
           /\ TokensOf(keys_after_use(pk)) \subseteq TokensOf(keys)
  <1>1. keys[pk] \in Key /\ keys[pk].uses \in Nat \ {0}
    BY DEF LedgerSound, Key
  <1>2. CASE keys[pk].uses = 1
    BY <1>2 DEF LedgerSound, SoundKeys, keys_after_use, keys_without, TokensOf
  <1>3. CASE keys[pk].uses # 1
    <2> DEFINE key == [keys[pk] EXCEPT !.uses = @ - 1]
    <2>1. keys[pk].uses - 1 \in Nat \ {0}
      BY <1>1, <1>3
    <2>2. key \in Key /\ key.token = keys[pk].token
      BY <1>1, <2>1 DEF Key
    <2>3. keys_after_use(pk) = [keys EXCEPT ![pk] = key]
      BY <1>3 DEF keys_after_use
    <2> HIDE DEF key
    <2>4. /\ DOMAIN keys_after_use(pk) = DOMAIN keys
          /\ \A p \in DOMAIN keys : keys_after_use(pk)[p] = IF p = pk THEN key ELSE keys[p]
      BY <2>3
    <2>5. \A p \in DOMAIN keys : keys_after_use(pk)[p].token = keys[p].token
      BY <2>2, <2>4
    <2>6. keys_after_use(pk) \in [DOMAIN keys -> Key]
      BY <2>2, <2>3 DEF LedgerSound
    <2> QED
      BY <2>4, <2>5, <2>6 DEF LedgerSound, SoundKeys, TokensOf
  <1> QED
    BY <1>2, <1>3

\* Nothing goes that is needed: the record may be cut by MayForget.
LEMMA ForgottenSoundly ==
    ASSUME LedgerSound, NEW t, MayForget(t), SoundKeys(keys'),
           TokensOf(keys') \cup OpenTokens(open') \subseteq on_record
    PROVE  LedgerSound'
  BY DEF LedgerSound, SoundKeys, MayForget

\* Every step keeps the ledger sound: one case for each operation.
LEMMA NextSound == LedgerSound /\ [Next]_ledger => LedgerSound'
  <1> SUFFICES ASSUME LedgerSound, [Next]_ledger PROVE LedgerSound'
    OBVIOUS
  <1>1. ASSUME NEW pks \in SUBSET PublicKeys, Issue(pks)
        PROVE  LedgerSound'
    <2>1. \A pk \in DOMAIN keys : keys[pk].token \in on_record /\ keys'[pk] = keys[pk]
      BY <1>1 DEF LedgerSound, TokensOf, Issue
    <2>2. \A pk \in pks : keys'[pk].token \notin on_record /\ keys'[pk].token \in on_record'
      BY <1>1 DEF Issue
    <2>3. DOMAIN keys' = DOMAIN keys \cup pks
      BY <1>1 DEF Issue
    <2>4. \A p, q \in DOMAIN keys' : keys'[p].token = keys'[q].token => p = q
      <3>1. \A p, q \in pks : keys'[p].token = keys'[q].token => p = q
        BY <1>1 DEF Issue
      <3> QED
        BY <2>1, <2>2, <2>3, <3>1 DEF LedgerSound
    <2>5. keys' \in [DOMAIN keys' -> Key]
      BY <1>1 DEF Issue, LedgerSound
    <2> QED
      BY <1>1, <2>1, <2>2, <2>3, <2>4, <2>5 DEF LedgerSound, Issue, TokensOf, OpenTokens
  <1>2. ASSUME NEW pk \in DOMAIN keys, UseAtOnce(pk)
        PROVE  LedgerSound'
    BY <1>2, UseIsSound, ForgottenSoundly DEF UseAtOnce, LedgerSound
  <1>3. ASSUME NEW pk \in DOMAIN keys, NEW c \in Claims, OpenClaim(pk, c)
        PROVE  LedgerSound'
    <2>1. keys[pk].token \in on_record
      BY DEF LedgerSound, TokensOf
    <2>2. OpenTokens(open') \subseteq OpenTokens(open) \cup {keys[pk].token}
      BY <1>3 DEF OpenClaim, OpenTokens
    <2> QED
      BY <1>3, <2>1, <2>2, UseIsSound DEF OpenClaim, LedgerSound, SoundKeys
  <1>4. ASSUME NEW pk \in DOMAIN keys, NEW new_pk, NEW owners \in SomeOwners,
               Transfer(pk, new_pk, owners)
        PROVE  LedgerSound'
    <2> DEFINE key == [keys[pk] EXCEPT !.owners = owners]
    <2>1. keys[pk] \in Key
      BY DEF LedgerSound
    <2>2. key \in Key /\ key.token = keys[pk].token
      BY <2>1 DEF Key
    <2> HIDE DEF key
    <2>3. /\ DOMAIN keys' = (DOMAIN keys \ {pk}) \cup {new_pk}
          /\ keys'[new_pk] = key
          /\ \A p \in DOMAIN keys \ {pk} : keys'[p] = keys[p]
          /\ keys' = [p \in DOMAIN keys' |-> keys'[p]]
          /\ UNCHANGED <<open, on_record>>
      BY <1>4 DEF Transfer, key
    <2>4. keys' \in [DOMAIN keys' -> Key]
      BY <2>2, <2>3 DEF LedgerSound
    <2>5. \A p, q \in DOMAIN keys' : keys'[p].token = keys'[q].token => p = q
      BY <2>2, <2>3 DEF LedgerSound
    <2>6. TokensOf(keys') \subseteq TokensOf(keys)
      BY <2>2, <2>3 DEF TokensOf
    <2> QED
      BY <2>3, <2>4, <2>5, <2>6 DEF LedgerSound
  <1>5. ASSUME NEW c \in DOMAIN open, CloseClaim(c)
        PROVE  LedgerSound'
    <2>1. OpenTokens(open') \subseteq OpenTokens(open)
      BY <1>5 DEF CloseClaim, OpenTokens
    <2> QED
      BY <1>5, <2>1, ForgottenSoundly DEF CloseClaim, LedgerSound, SoundKeys
  <1>6. ASSUME NEW pks \in SUBSET DOMAIN keys, Revoke(pks)
        PROVE  LedgerSound'
    <2> DEFINE revoked == TokensOf([pk \in pks |-> keys[pk]])
    <2>1. revoked = {keys[pk].token : pk \in pks}
      BY DEF TokensOf
    <2>2. TokensOf(keys') = {keys[pk].token : pk \in DOMAIN keys \ pks}
      BY <1>6 DEF Revoke, keys_without, TokensOf
    <2>3. TokensOf(keys') \cap revoked = {}
      BY <2>1, <2>2 DEF LedgerSound
    <2>4. SoundKeys(keys')
      BY <1>6 DEF Revoke, keys_without, LedgerSound, SoundKeys
    <2>5. TokensOf(keys') \subseteq TokensOf(keys)
      BY <2>2 DEF TokensOf
    <2> HIDE DEF revoked
    <2>6. /\ on_record' = on_record \ revoked /\ UNCHANGED open
          /\ revoked \cap OpenTokens(open) = {}
      BY <1>6 DEF Revoke, revoked
    <2> QED
      BY <2>3, <2>4, <2>5, <2>6 DEF LedgerSound, SoundKeys
  <1>7. CASE UNCHANGED ledger
    BY <1>7 DEF ledger, LedgerSound, TokensOf, OpenTokens
  <1> QED
    BY <1>1, <1>2, <1>3, <1>4, <1>5, <1>6, <1>7 DEF Next

\* A ledger that starts empty stays sound: no two public keys bear one token,
\* and what can still be used or is being claimed is on record.
THEOREM LedgerSoundHolds == Spec => []LedgerSound
  <1>1. Init => LedgerSound
    BY DEF Init, LedgerSound, TokensOf, OpenTokens
  <1> QED
    BY <1>1, NextSound, PTL DEF Spec
=============================================================================
