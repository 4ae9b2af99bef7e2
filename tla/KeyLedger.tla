------------------------------ MODULE KeyLedger ------------------------------
(***************************************************************************)
(* What the contract promises of its keys, as if it kept them in one map.  *)
(* The bearer of a public key has a number of uses; a use is taken by a    *)
(* claim, which is done at once or stays open until it is closed, and what *)
(* is on record of a key stays as long as the key has a use left or a      *)
(* claim of it is open.                                                    *)
(***************************************************************************)
EXTENDS Naturals

CONSTANTS PublicKeys, Tokens, Accounts, Claims

VARIABLES
    keys,       \* public key -> the token it bears, its uses left, its owners (one at most)
    open,       \* claim -> token
    on_record   \* the tokens something is kept of

ledger == <<keys, open, on_record>>

SomeOwners == {{}} \cup {{a} : a \in Accounts}
Key == [token : Tokens, uses : Nat \ {0}, owners : SomeOwners]

TokensOf(some_keys) == {some_keys[pk].token : pk \in DOMAIN some_keys}
OpenTokens(claims) == {claims[c] : c \in DOMAIN claims}

Init ==
    /\ keys = [pk \in {} |-> {}]
    /\ open = [c \in {} |-> {}]
    /\ on_record = {}

-----------------------------------------------------------------------------

\* The given public keys bear new tokens.
Issue(pks) ==
    /\ pks \cap DOMAIN keys = {}
    /\ keys' \in [DOMAIN keys \cup pks -> Key]
    /\ \A pk \in DOMAIN keys : keys'[pk] = keys[pk]
    /\ \A pk \in pks : keys'[pk].token \notin on_record
    /\ \A p, q \in pks : keys'[p].token = keys'[q].token => p = q
    /\ on_record' = on_record \cup {keys'[pk].token : pk \in pks}
    /\ UNCHANGED open

keys_without(pks) == [pk \in DOMAIN keys \ pks |-> keys[pk]]

\* The keys with one use of pk's taken.
keys_after_use(pk) ==
    IF keys[pk].uses = 1 THEN keys_without({pk}) ELSE [keys EXCEPT ![pk].uses = @ - 1]

\* What is on record of a token may go when nothing needs it any longer.
MayForget(t) ==
    /\ on_record' \in {on_record, on_record \ {t}}
    /\ t \notin on_record' => t \notin TokensOf(keys') \cup OpenTokens(open')

UseAtOnce(pk) ==
    /\ keys' = keys_after_use(pk)
    /\ MayForget(keys[pk].token)
    /\ UNCHANGED open

OpenClaim(pk, c) ==
    /\ c \notin DOMAIN open
    /\ keys' = keys_after_use(pk)
    /\ open' = [d \in DOMAIN open \cup {c} |-> IF d = c THEN keys[pk].token ELSE open[d]]
    /\ UNCHANGED on_record

CloseClaim(c) ==
    /\ open' = [d \in DOMAIN open \ {c} |-> open[d]]
    /\ MayForget(open[c])
    /\ UNCHANGED keys

\* Another public key, and another owner, for the same token.
Transfer(pk, new_pk, owners) ==
    /\ new_pk \notin DOMAIN keys \ {pk}
    /\ keys' = [p \in (DOMAIN keys \ {pk}) \cup {new_pk} |->
                   IF p = new_pk THEN [keys[pk] EXCEPT !.owners = owners] ELSE keys[p]]
    /\ UNCHANGED <<open, on_record>>

\* Keys are revoked while no claim of them is open.
Revoke(pks) ==
    /\ TokensOf([pk \in pks |-> keys[pk]]) \cap OpenTokens(open) = {}
    /\ keys' = keys_without(pks)
    /\ on_record' = on_record \ TokensOf([pk \in pks |-> keys[pk]])
    /\ UNCHANGED open

Next ==
    \/ \E pks \in SUBSET PublicKeys : Issue(pks)
    \/ \E pk \in DOMAIN keys :
          \/ UseAtOnce(pk)
          \/ \E c \in Claims : OpenClaim(pk, c)
          \/ \E new_pk \in PublicKeys, owners \in SomeOwners : Transfer(pk, new_pk, owners)
    \/ \E c \in DOMAIN open : CloseClaim(c)
    \/ \E pks \in SUBSET DOMAIN keys : Revoke(pks)

Spec == Init /\ [][Next]_ledger

-----------------------------------------------------------------------------

\* No two public keys bear one token, and all that can still be used or is
\* being claimed is on record.
LedgerSound ==
    /\ keys \in [DOMAIN keys -> Key]
    /\ \A p, q \in DOMAIN keys : keys[p].token = keys[q].token => p = q
    /\ TokensOf(keys) \cup OpenTokens(open) \subseteq on_record
=============================================================================
