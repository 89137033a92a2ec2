--------------------------- MODULE MCProxyRequest ---------------------------
(* A route of four lines: the primary, the same account with another model, *)
(* a second account and, through an adapter, a third.                       *)
EXTENDS ProxyRequest

FourLines ==
    <<[account |-> "a", model |-> "m", native |-> TRUE],
      [account |-> "a", model |-> "n", native |-> TRUE],
      [account |-> "b", model |-> "m", native |-> TRUE],
      [account |-> "c", model |-> "m", native |-> FALSE]>>

Unlimited == -1
=============================================================================
