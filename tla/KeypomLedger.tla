---------------------------- MODULE KeypomLedger ----------------------------
(***************************************************************************)
(* The contract keeps its keys as KeyLedger promises.  One key of the      *)
(* ledger is spread over three of the contract's maps: the lookup by       *)
(* public key, the key infos and the tokens of the owners.                 *)
(***************************************************************************)
EXTENDS KeypomProperties

ledger_key(pk) ==
    LET t == token_id_by_pk[pk]
    IN  [token |-> t, uses |-> key_info_by_token_id[t].remaining_uses,
         owners |-> {a \in Accounts : t \in tokens_per_owner[a]}]

ledger_keys == [pk \in DOMAIN token_id_by_pk |-> ledger_key(pk)]

open_claims == {r \in DOMAIN receipts : is_claim(receipts[r])}
ledger_open == [r \in open_claims |-> receipts[r].token_id]

Ledger == INSTANCE KeyLedger WITH
              Tokens <- TokenIds, Claims <- ReceiptIds,
              keys <- ledger_keys, open <- ledger_open, on_record <- DOMAIN key_info_by_token_id

\* Whatever the contract does, its maps change together as the one map of
\* the ledger does: a key is found by one public key and belongs to its
\* owner alone, a use that is taken is gone from all of them, and the record
\* of a key outlives every claim of it.  (For keys with one use: of keys with
\* several it is not true, see overlapping_claims.)
ImplementsLedger == Ledger!Spec
=============================================================================
