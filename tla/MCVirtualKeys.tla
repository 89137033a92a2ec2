--------------------------- MODULE MCVirtualKeys ---------------------------
(* VirtualKeys for TLC: three key generations, two calls, two accounts.    *)
EXTENDS VirtualKeys, TLC

CONSTANTS k1, k2, k3, a1, a2, c1, c2, s1, s2, p1, p2, old, new, gpt, claude

Entry(v, key) == [version |-> v, key |-> key]

\* The first master key, a second one beside it, the second one alone, a
\* version that is not in the ring, and none.
MCEnvironments ==
  {[ring |-> <<>>, primary |-> Entry("v1", old), active |-> Unset],
   [ring |-> <<Entry("v1", old)>>, primary |-> Entry("v2", new), active |-> Unset],
   [ring |-> <<>>, primary |-> Entry("v2", new), active |-> "v3"]}

Option(overlap, expires, scopes) ==
  [overlap |-> overlap, expires |-> expires, allowed |-> Keep, scopes |-> scopes]

\* No overlap, with the catalogue scope only; an overlap that outlasts the
\* successor's expiry, with the default scope; and two that are refused.
MCRotations == {Option(0, Keep, {ModelsRead}), Option(2, 1, {}),
                Option(0, Keep, {"admin"}), Option(3, Keep, Keep)}

\* Keys created here are for another model than the one requests name.
MCAllowlists == {{claude}}

\* Keys and accounts share nothing but the keyring: accounts move only while
\* the keys stand still, and keys only until an account has moved.
KeysOrAccounts ==
  /\ UNCHANGED <<accounts, sealed>> \/ (now = 0 /\ \A c \in Calls : calls[c] = Idle
                                        /\ \A k \in Keys : k \in LegacyKeys <=> rows[k] # NoRow)
  /\ UNCHANGED <<now, keyVars>> \/ (sealed = {} /\ \A a \in Accounts :
                                      accounts[a].source = s1 /\ accounts[a].cipher = Unset)

\* k1 is the key of an earlier release; the others are alike.
Symmetry == Permutations(Calls) \cup Permutations({k2, k3})

=============================================================================
