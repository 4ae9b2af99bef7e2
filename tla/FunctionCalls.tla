---------------------------- MODULE FunctionCalls ----------------------------
(***************************************************************************)
(* What a claim calls for a function-call asset, and with which arguments: *)
(* the funder's, the claimer's where the funder allows them, and those the *)
(* contract injects.  An Option of the source is a set with at most one    *)
(* element.                                                                *)
(*                                                                         *)
(* A JSON value is the map from the path of each of its leaves to the      *)
(* leaf; one that is no object is a leaf with the empty path.  A leaf is a *)
(* string, another value (a number, a Boolean, null, an array) or, in the  *)
(* funder's arguments, a marker: the name of a field of the claimer's      *)
(* arguments in capitals.  A text is an Option of JSON, None when it is no *)
(* JSON.                                                                   *)
(***************************************************************************)
EXTENDS Integers, Sequences, FiniteSets, FiniteSetsExt, SequencesExt

None == {}
Some(v) == {v}
unwrap(opt) == CHOOSE v \in opt : TRUE
unwrap_or(opt, default) == IF opt = None THEN default ELSE unwrap(opt)

Value(v) == <<"value", v>>
Other(v) == <<"other", v>>
Marker(field) == <<"marker", field>>

\* MethodData: args is a text, long when it is above 4096 bytes; keypom_args
\* has the fields that are set, in order, each with what goes into it.  The
\* receiver may be a name that is no account; claimers are not the contract
\* itself.
Method(deposit, args, rule, keypom_args) ==
    [receiver_valid |-> TRUE, attached_deposit |-> deposit, args |-> args, long |-> FALSE,
     user_args_rule |-> rule, keypom_args |-> keypom_args]
KeypomArg(field, value) == [field |-> field, value |-> value]

-----------------------------------------------------------------------------

is_object(json) == << >> \notin DOMAIN json

meets(path, paths) == \E q \in paths : IsPrefix(q, path) \/ IsPrefix(path, q)

\* The leaves of b, and those of a that are not in their way.
merged(a, b) ==
    [path \in DOMAIN b \cup {q \in DOMAIN a : ~meets(q, DOMAIN b)} |->
        IF path \in DOMAIN b THEN b[path] ELSE a[path]]

\* The bug of a merge that keeps what it should overwrite.
merge_json_keeping(a, b) == IF is_object(a) /\ is_object(b) THEN merged(b, a) ELSE b

\* Objects are merged, b overwriting a; anything else is replaced by b.
merge_json(a, b) == IF is_object(a) /\ is_object(b) THEN merged(a, b) ELSE b

\* A leaf that names a field of the claimer becomes that field's value, if
\* that is a string or an object.  The claimer's own leaves are taken to be
\* no markers.
set_user_markers(output_args, user_args) ==
    LET insertable == {q \in DOMAIN user_args :
                          is_object(user_args) /\ (Len(q) = 1 => user_args[q][1] = "value")}
        fields(path) == {q \in insertable : output_args[path] = Marker(Head(q))}
        marked == {path \in DOMAIN output_args : fields(path) # {}}
        replaced == UNION {{<<path \o Tail(q), user_args[q]>> : q \in fields(path)} : path \in marked}
        leaves == replaced \cup {<<path, output_args[path]>> : path \in DOMAIN output_args \ marked}
    IN  [path \in {leaf[1] : leaf \in leaves} |-> (CHOOSE leaf \in leaves : leaf[1] = path)[2]]

\* given: the claimer's arguments for a method, an Option of a text.
is_consulted(method, given) == method.user_args_rule # None /\ given # None
rule_of(method) == unwrap(method.user_args_rule)
sets_markers(method, given) == is_consulted(method, given) /\ rule_of(method) = "UserPreferred"

\* The errors of handle_fc_args.  Long arguments are not looked at before the
\* markers are set.
user_args_defined(method, given) ==
    /\ ~method.long => method.args # None /\ (is_consulted(method, given) => unwrap(given) # None)
    /\ sets_markers(method, given) => unwrap(given) # None

\* handle_user_args_rules, which long arguments skip.
merged_args(method, given) ==
    LET funder_args == unwrap(method.args)
        user_args == unwrap(unwrap(given))
    IN  IF method.long \/ ~is_consulted(method, given) THEN method.args
        ELSE Some(CASE rule_of(method) = "AllUser"         -> user_args
                    [] rule_of(method) = "FunderPreferred" -> merge_json(user_args, funder_args)
                    [] rule_of(method) = "UserPreferred"   -> merge_json(funder_args, user_args))

\* The text before the contract adds to it.
handle_user_args(method, given) ==
    IF sets_markers(method, given)
    THEN {set_user_markers(args, unwrap(unwrap(given))) : args \in merged_args(method, given)}
    ELSE merged_args(method, given)

\* The text contains the field, as a name or a value.  One that is no JSON
\* is taken not to.
contains(text, field) ==
    \E args \in text : \E path \in DOMAIN args : field \in ToSet(path) \/ args[path][2] = field

may_add_keypom_args(text, keypom_args) ==
    /\ ~contains(text, "keypom_args")
    /\ \A i \in DOMAIN keypom_args : ~contains(text, keypom_args[i].field)
    /\ \A i, j \in DOMAIN keypom_args : keypom_args[i].field = keypom_args[j].field => i = j

\* What is added goes before the last character, after a comma unless it is
\* the first field of an empty object.  What comes out is JSON if that was
\* the end of an object with something in it.  (The list of the injected
\* fields that always comes last, under keypom_args, is left out.)
takes_fields(json, keypom_args) ==
    is_object(json) /\ (DOMAIN json # {} \/ keypom_args # << >>)

add_keypom_args(text, keypom_args) ==
    LET added(path) == {i \in DOMAIN keypom_args : <<keypom_args[i].field>> = path}
        paths == {<<keypom_args[i].field>> : i \in DOMAIN keypom_args}
    IN  {[path \in DOMAIN args \cup paths |->
             IF path \in paths THEN Value(keypom_args[CHOOSE i \in added(path) : TRUE].value)
                               ELSE args[path]] :
            args \in {json \in text : takes_fields(json, keypom_args)}}

-----------------------------------------------------------------------------

is_called(method, given) ==
    /\ user_args_defined(method, given)
    /\ may_add_keypom_args(handle_user_args(method, given), method.keypom_args)
    /\ method.receiver_valid

\* The calls of one claim, one after the other.  Methods whose arguments
\* cannot be made are skipped; arguments for another number of methods are
\* ignored.
claim_fc_asset(methods, fc_args) ==
    LET ignored == fc_args = None \/ Len(unwrap(fc_args)) # Len(methods)
        given(i) == IF ignored THEN None ELSE unwrap(fc_args)[i]
        call(i) == [method |-> i, attached_deposit |-> methods[i].attached_deposit,
                    args |-> add_keypom_args(handle_user_args(methods[i], given(i)),
                                             methods[i].keypom_args)]
    IN  FoldLeft(LAMBDA calls, i : IF is_called(methods[i], given(i)) THEN Append(calls, call(i))
                                                                      ELSE calls,
                 << >>, [i \in DOMAIN methods |-> i])

\* What the calls of all methods attach: what a use costs.
deposits_of(methods) == SumFunction([i \in DOMAIN methods |-> methods[i].attached_deposit])
=============================================================================
