----------------------------- MODULE MCMergeLaws -----------------------------
(* Two universes: stores over two aliases with four kinds of credential,    *)
(* and over three aliases with one kind, where incoming may have any flags. *)
EXTENDS MergeLaws

Token(s, t) == [type |-> "oauth", expires_at |-> t, secret |-> s]
Password(s) == [type |-> "basic", expires_at |-> 0, secret |-> s]

MCStores(aliases, creds) ==
  {s \in [Alias -> {NoEntry} \cup [creds : creds, isDefault : BOOLEAN]] : Keys(s) \subseteq aliases}

AtMostOneDefault(stores) == {s \in stores : Cardinality(Defaults(s)) <= 1}

MCFewAliases == AtMostOneDefault(MCStores({"a", "b"},
  {Token("s1", 1), Token("s1", 2), Token("s2", 2), Password("s1")}))

MCAnyDefaults == MCStores(Alias, {Token("s1", 1)})
MCManyAliases == AtMostOneDefault(MCAnyDefaults)

MCUniverses ==
  {[base |-> MCFewAliases, incoming |-> MCFewAliases, current |-> MCFewAliases],
   [base |-> MCManyAliases, incoming |-> MCAnyDefaults, current |-> MCManyAliases]}
==============================================================================
