------------------------- MODULE VirtualKeysProofs -------------------------
(***************************************************************************)
(* Proofs about virtual keys and stored credentials, for every number of   *)
(* keys, calls, accounts and master keys, every set of rotation options    *)
(* and every length of the overlap window: VirtualKeys implements the      *)
(* abstract promise KeyValidity, and a sealed secret comes back only to    *)
(* its owner.                                                              *)
(*                                                                         *)
(* The refinement needs two facts about the transactions in flight: a      *)
(* rotation or a request that has read its row holds the row's lock, and   *)
(* the row a rotation has read is still unreplaced.  The secrets need that *)
(* every stored envelope was sealed for its owner, which rests on the      *)
(* master key still being there when a rotation commits.                   *)
(***************************************************************************)
EXTENDS VirtualKeys, TLAPS

RotateBegun == [op : {"rotate"}, key : Keys, at : {"begun"}, options : Rotations]
RotateLocked == [op : {"rotate"}, key : Keys, at : {"locked"}, options : Rotations,
                 overlap : Nat]
AuthCall == [op : {"auth"}, key : Keys, at : {"begun", "locked", "accepted", "refused"},
             model : Models, start : Nat]
AccountRows == [source : Sources, env : {Failed, Unset}, cipher : Envelopes \cup {Unset}]

\* Every variable keeps its type: rows are typed columns, a call in flight is
\* a rotation or a request, the keyring is one some environment gives.
TypeOK ==
  /\ now \in Nat
  /\ rows \in [Keys -> Rows \cup {NoRow}]
  /\ lock \in [Keys -> Calls \cup {Free}]
  /\ calls \in [Calls -> {Idle} \cup RotateBegun \cup RotateLocked \cup AuthCall]
  /\ ring \in Rings
  /\ accounts \in [Accounts -> AccountRows]
  /\ sealed \subseteq Envelopes

Rotating(c) == calls[c].op = "rotate"
HoldsRow(c) == calls[c].op \in {"rotate", "auth"} /\ calls[c].at = "locked"

\* A transaction that has read its row holds the row's lock until it ends, and
\* a rotation finds the row as it read it: not replaced by another key.
LockInv ==
  \A c \in Calls : HoldsRow(c) =>
    /\ lock[calls[c].key] = c
    /\ rows[calls[c].key] # NoRow
    /\ Rotating(c) => rows[calls[c].key].replaced = NoRow

\* A rotation in flight carries options the checks let through, and the
\* process still has the master key it checked for.
RotationInv ==
  \A c \in Calls : Rotating(c) =>
    /\ HasMasterKey(ring)
    /\ calls[c].options.scopes # Keep => calls[c].options.scopes \subseteq Scopes

\* The recovery copy of a key is the key itself, bound to its own prefix.
RecoveryInv ==
  \A k \in Keys : rows[k] # NoRow /\ rows[k].cipher # Unset =>
    /\ rows[k].cipher.aad = VirtualKeyAad(k)
    /\ rows[k].cipher.plaintext = k

\* The envelope of an account, however often it was re-encrypted, has the
\* owner and the plaintext of an envelope the encrypt endpoint handed out.
CredentialInv ==
  \A a \in Accounts : accounts[a].cipher # Unset =>
    \E e \in sealed : /\ e.aad = accounts[a].cipher.aad
                      /\ e.plaintext = accounts[a].cipher.plaintext

IInv == TypeOK /\ LockInv /\ RotationInv /\ RecoveryInv /\ CredentialInv

-----------------------------------------------------------------------------
(* The keyring and the envelopes. *)

\* A keyring that has a master key has the key of its active version: the
\* startup code refuses a ring that does not.
LEMMA ActiveKeyPresent ==
  ASSUME NEW r \in Rings, HasMasterKey(r)
  PROVE  r.active \in DOMAIN r.keys
<1>1. PICK env \in Environments : r = RingAtStartup(env)
  BY DEF Rings
<1>2. r # EmptyRing
  BY DEF HasMasterKey, EmptyRing
<1>3. r = FromEnv(env) /\ r # Failed
  BY <1>1, <1>2 DEF RingAtStartup
<1> DEFINE entries == env.ring \o (IF env.primary = Unset THEN <<>> ELSE <<env.primary>>)
           active == IF env.active = Unset THEN entries[Len(entries)].version ELSE env.active
<1>4. r = FromKeyring(active, entries)
  BY <1>2, <1>3 DEF FromEnv
<1> HIDE DEF entries, active
<1>5. r = [active |-> active, keys |-> KeyMap(entries)]
      /\ (KeyMap(entries) = <<>> \/ active \in DOMAIN KeyMap(entries))
  BY <1>3, <1>4 DEF FromKeyring
<1> QED
  BY <1>5 DEF HasMasterKey

\* What Encrypt returns under a keyring with a master key.
LEMMA Sealing ==
  ASSUME NEW r \in Rings, HasMasterKey(r),
         NEW p \in Plaintexts \cup Keys,
         NEW aad \in {AccountAad(s, a) : s \in Sources, a \in Accounts}
                        \cup {VirtualKeyAad(k) : k \in Keys}
  PROVE  /\ Encrypt(r, p, aad) \in Envelopes
         /\ Encrypt(r, p, aad).aad = aad
         /\ Encrypt(r, p, aad).plaintext = p
<1>1. r.active \in DOMAIN r.keys
  BY ActiveKeyPresent
<1>2. Encrypt(r, p, aad) = [version |-> r.active, key |-> r.keys[r.active],
                            aad |-> aad, plaintext |-> p]
  BY <1>1 DEF Encrypt
<1>3. /\ r.active \in UNION {DOMAIN q.keys : q \in Rings}
      /\ r.keys[r.active] \in UNION {{q.keys[v] : v \in DOMAIN q.keys} : q \in Rings}
  BY <1>1
<1> QED
  BY <1>2, <1>3 DEF Envelopes

\* Only the owner opens an envelope, and gets what was sealed.
LEMMA Opening ==
  ASSUME NEW r, NEW e, NEW aad, Decrypt(r, e, aad) # Failed
  PROVE  e.aad = aad /\ Decrypt(r, e, aad) = e.plaintext /\ HasMasterKey(r)
<1>1. /\ e.version \in DOMAIN r.keys
      /\ e.aad = aad
      /\ Decrypt(r, e, aad) = e.plaintext
  BY DEF Decrypt
<1>2. DOMAIN << >> = {}
  OBVIOUS
<1> QED
  BY <1>1, <1>2 DEF HasMasterKey

AllowedSets == Allowlists \cup {{}} \cup {o.allowed : o \in Rotations}

\* A row as an INSERT writes it.
LEMMA InsertedRow ==
  ASSUME ring \in Rings, HasMasterKey(ring), NEW k \in Keys,
         NEW origin \in {"created", "rotated"}, NEW allowed \in AllowedSets,
         NEW scopes \in SUBSET Scopes, NEW expires \in 0..Forever
  PROVE  LET row == NewRow(k, origin, allowed, scopes, expires)
         IN /\ row \in Rows
            /\ row.cipher.aad = VirtualKeyAad(k) /\ row.cipher.plaintext = k
<1>1. /\ EncryptedMaterial(k) \in Envelopes
      /\ EncryptedMaterial(k).aad = VirtualKeyAad(k)
      /\ EncryptedMaterial(k).plaintext = k
  BY Sealing DEF EncryptedMaterial
<1>2. ScopesJson(scopes) \in SUBSET Scopes
  BY DEF ScopesJson, Scopes
<1> QED
  BY <1>1, <1>2 DEF NewRow, Rows, AllowedSets

-----------------------------------------------------------------------------
(* The inductive invariant. *)

LEMMA InitIInv == Init => IInv
<1> SUFFICES ASSUME Init PROVE IInv
  OBVIOUS
<1>1. LegacyRow \in Rows
  BY TimeAssumption DEF LegacyRow, Rows, Scopes
<1>2. TypeOK
  <2>1. rows \in [Keys -> Rows \cup {NoRow}]
    BY <1>1 DEF Init
  <2>2. calls \in [Calls -> {Idle} \cup RotateBegun \cup RotateLocked \cup AuthCall]
    BY DEF Init
  <2>3. ring \in Rings
    BY DEF Init, Rings
  <2>4. accounts \in [Accounts -> AccountRows]
    BY DEF Init, AccountRows
  <2> QED
    BY <2>1, <2>2, <2>3, <2>4 DEF Init, TypeOK
<1>3. \A c \in Calls : ~Rotating(c) /\ ~HoldsRow(c)
  BY DEF Init, Idle, Rotating, HoldsRow
<1>4. RecoveryInv
  <2>1. \A k \in Keys : rows[k] = LegacyRow \/ rows[k] = NoRow
    BY DEF Init
  <2>2. LegacyRow.cipher = Unset
    BY DEF LegacyRow
  <2> QED
    BY <2>1, <2>2 DEF RecoveryInv
<1>5. CredentialInv
  BY DEF Init, CredentialInv
<1> QED
  BY <1>2, <1>3, <1>4, <1>5 DEF IInv, LockInv, RotationInv

\* Steps that touch neither keys nor calls, only the clock.
LEMMA TickIInv == ASSUME IInv, Tick PROVE IInv'
<1>1. TypeOK'
  BY DEF IInv, TypeOK, Tick
<1> QED
  BY <1>1 DEF IInv, LockInv, RotationInv, RecoveryInv, CredentialInv, Rotating, HoldsRow, Tick

\* A restart has no transactions: nothing is left to hold a lock.
LEMMA RestartIInv == ASSUME IInv, Restart PROVE IInv'
<1>1. TypeOK'
  <2>1. ring' \in Rings
    BY DEF Restart, Rings
  <2> QED
    BY <2>1 DEF IInv, TypeOK, Restart
<1>2. \A c \in Calls : ~Rotating(c)' /\ ~HoldsRow(c)'
  BY DEF Restart, Idle, Rotating, HoldsRow
<1>3. RecoveryInv' /\ CredentialInv'
  BY DEF IInv, Restart, RecoveryInv, CredentialInv
<1> QED
  BY <1>1, <1>2, <1>3 DEF IInv, LockInv, RotationInv

LEMMA CreateIInv ==
  ASSUME IInv, NEW k \in Keys, NEW m \in Allowlists, CreateKey(k, m)
  PROVE  IInv'
<1> DEFINE row == NewRow(k, "created", m, {Invoke}, Forever)
<1>1. row \in Rows /\ row.cipher.aad = VirtualKeyAad(k) /\ row.cipher.plaintext = k
  <2>1. {Invoke} \in SUBSET Scopes /\ m \in AllowedSets /\ Forever \in 0..Forever
    BY TimeAssumption DEF Scopes, AllowedSets
  <2> QED
    BY <2>1, InsertedRow DEF IInv, TypeOK, CreateKey
<1>2. rows' = [rows EXCEPT ![k] = row] /\ rows[k] = NoRow
  BY DEF CreateKey
<1> HIDE DEF row
<1>3. rows' \in [Keys -> Rows \cup {NoRow}]
      /\ rows'[k] = row /\ \A j \in Keys \ {k} : rows'[j] = rows[j]
  BY <1>1, <1>2 DEF IInv, TypeOK
<1>4. TypeOK'
  BY <1>3 DEF IInv, TypeOK, CreateKey
<1>5. LockInv'
  <2>1. ASSUME NEW c \in Calls, HoldsRow(c)
        PROVE  calls[c].key \in Keys \ {k}
    BY <1>2, <2>1 DEF IInv, TypeOK, LockInv, HoldsRow, Idle, RotateBegun, RotateLocked, AuthCall
  <2> QED
    BY <1>3, <2>1 DEF IInv, LockInv, CreateKey, HoldsRow, Rotating
<1>6. RotationInv' /\ CredentialInv'
  BY DEF IInv, RotationInv, Rotating, CredentialInv, CreateKey
<1>7. RecoveryInv'
  BY <1>1, <1>3 DEF IInv, RecoveryInv
<1> QED
  BY <1>4, <1>5, <1>6, <1>7 DEF IInv

LEMMA RevokeIInv ==
  ASSUME IInv, NEW k \in Keys, RevokeVirtualKey(k)
  PROVE  IInv'
<1> DEFINE row == [rows[k] EXCEPT !.enabled = FALSE, !.revoked = TRUE]
<1>0. rows[k] \in Rows
  BY DEF IInv, TypeOK, RevokeVirtualKey
<1>1. row \in Rows /\ row.cipher = rows[k].cipher /\ row.replaced = rows[k].replaced
  BY <1>0 DEF Rows
<1>2. rows' = [rows EXCEPT ![k] = row] /\ rows[k] # NoRow
  BY DEF RevokeVirtualKey
<1> HIDE DEF row
<1>3. rows' \in [Keys -> Rows \cup {NoRow}]
      /\ rows'[k] = row /\ \A j \in Keys \ {k} : rows'[j] = rows[j]
  BY <1>1, <1>2 DEF IInv, TypeOK
<1>4. TypeOK'
  BY <1>3 DEF IInv, TypeOK, RevokeVirtualKey
<1>5. LockInv'
  <2>1. ASSUME NEW c \in Calls, HoldsRow(c)
        PROVE  calls[c].key \in Keys \ {k}
    <3>1. calls[c].key \in Keys
      BY <2>1 DEF IInv, TypeOK, HoldsRow, Idle, RotateBegun, RotateLocked, AuthCall
    <3>2. lock[calls[c].key] = c
      BY <2>1 DEF IInv, LockInv
    <3> QED
      BY <3>1, <3>2, MarkersAssumption DEF RevokeVirtualKey
  <2> QED
    BY <1>3, <2>1 DEF IInv, LockInv, RevokeVirtualKey, HoldsRow, Rotating
<1>6. RotationInv' /\ CredentialInv'
  BY DEF IInv, RotationInv, Rotating, CredentialInv, RevokeVirtualKey
<1>7. RecoveryInv'
  BY <1>1, <1>2, <1>3 DEF IInv, RecoveryInv
<1> QED
  BY <1>4, <1>5, <1>6, <1>7 DEF IInv

LEMMA RotateIInv ==
  ASSUME IInv, NEW c \in Calls, NEW k \in Keys, NEW o \in Rotations, RotateKey(c, k, o)
  PROVE  IInv'
<1> DEFINE call == [op |-> "rotate", key |-> k, at |-> "begun", options |-> o]
<1>1. call \in RotateBegun /\ call.op = "rotate" /\ call.at = "begun" /\ call.options = o
  BY DEF RotateBegun
<1>2. calls' = [calls EXCEPT ![c] = call]
  BY DEF RotateKey
<1> HIDE DEF call
<1>3. calls' \in [Calls -> {Idle} \cup RotateBegun \cup RotateLocked \cup AuthCall]
      /\ calls'[c] = call /\ \A d \in Calls \ {c} : calls'[d] = calls[d]
  BY <1>1, <1>2 DEF IInv, TypeOK
<1>4. TypeOK'
  BY <1>3 DEF IInv, TypeOK, RotateKey
<1>5. LockInv'
  BY <1>1, <1>3 DEF IInv, LockInv, HoldsRow, Rotating, RotateKey
<1>6. RotationInv'
  BY <1>1, <1>3 DEF IInv, RotationInv, Rotating, RotateKey
<1>7. RecoveryInv' /\ CredentialInv'
  BY DEF IInv, RecoveryInv, CredentialInv, RotateKey
<1> QED
  BY <1>4, <1>5, <1>6, <1>7 DEF IInv

\* A call that holds its row has a key, and no other call holds that row.
LEMMA OneHolder ==
  ASSUME IInv, NEW c \in Calls, HoldsRow(c)
  PROVE  /\ calls[c].key \in Keys
         /\ \A d \in Calls \ {c} : HoldsRow(d) => calls[d].key # calls[c].key
<1>1. calls[c].key \in Keys
  BY DEF IInv, TypeOK, HoldsRow, Idle, RotateBegun, RotateLocked, AuthCall
<1>2. \A d \in Calls : HoldsRow(d) => lock[calls[d].key] = d
  BY DEF IInv, LockInv
<1> QED
  BY <1>1, <1>2

\* A call that ends, or never took its row, leaves the others holding theirs.
LEMMA CallEnds ==
  ASSUME IInv, NEW c \in Calls,
         calls' \in [Calls -> {Idle} \cup RotateBegun \cup RotateLocked \cup AuthCall],
         lock' \in [Keys -> Calls \cup {Free}],
         \A d \in Calls \ {c} : calls'[d] = calls[d],
         ~HoldsRow(c)', ~Rotating(c)',
         \A k \in Keys : lock[k] # c => lock'[k] = lock[k],
         UNCHANGED <<now, rows, ring, accounts, sealed>>
  PROVE  IInv'
<1>1. TypeOK'
  BY DEF IInv, TypeOK
<1>2. ASSUME NEW d \in Calls, HoldsRow(d)'
      PROVE  /\ lock'[calls'[d].key] = d
             /\ rows'[calls'[d].key] # NoRow
             /\ Rotating(d)' => rows'[calls'[d].key].replaced = NoRow
  <2>1. d # c /\ calls'[d] = calls[d] /\ HoldsRow(d)
    BY <1>2 DEF HoldsRow
  <2>2. lock[calls[d].key] = d /\ calls[d].key \in Keys
    BY <2>1, OneHolder DEF IInv, LockInv
  <2>3. rows[calls[d].key] # NoRow /\ (Rotating(d) => rows[calls[d].key].replaced = NoRow)
    BY <2>1 DEF IInv, LockInv
  <2> QED
    BY <2>1, <2>2, <2>3 DEF Rotating
<1>3. LockInv'
  BY <1>2 DEF LockInv
<1>4. RotationInv'
  BY DEF IInv, RotationInv, Rotating
<1>5. RecoveryInv' /\ CredentialInv'
  BY DEF IInv, RecoveryInv, CredentialInv
<1> QED
  BY <1>1, <1>3, <1>4, <1>5 DEF IInv

LEMMA IdleCall ==
  ASSUME NEW c, calls'[c] = Idle
  PROVE  ~HoldsRow(c)' /\ ~Rotating(c)'
BY DEF Idle, HoldsRow, Rotating

LEMMA LockForRotationIInv ==
  ASSUME IInv, NEW c \in Calls, LockForRotation(c)
  PROVE  IInv'
<1> DEFINE k == calls[c].key
<1>1. calls[c] \in RotateBegun
  BY DEF IInv, TypeOK, LockForRotation, Idle, RotateBegun, RotateLocked, AuthCall
<1>2. k \in Keys /\ calls[c].options \in Rotations
  BY <1>1 DEF RotateBegun
<1>3. CASE /\ calls' = [calls EXCEPT ![c] = Idle] /\ UNCHANGED lock
           /\ UNCHANGED <<now, rows, ring, accounts, sealed>>
  <2>1. /\ calls' \in [Calls -> {Idle} \cup RotateBegun \cup RotateLocked \cup AuthCall]
        /\ calls'[c] = Idle /\ \A d \in Calls \ {c} : calls'[d] = calls[d]
    BY <1>3 DEF IInv, TypeOK
  <2> QED
    BY <1>3, <2>1, IdleCall, CallEnds DEF IInv, TypeOK
<1> DEFINE call == [op |-> "rotate", key |-> k, at |-> "locked",
                    options |-> calls[c].options, overlap |-> OverlapUntil(calls[c].options)]
<1>4. CASE /\ rows[k] # NoRow /\ lock[k] = Free /\ Rotatable(rows[k])
           /\ lock' = [lock EXCEPT ![k] = c]
           /\ calls' = [calls EXCEPT ![c] = call]
           /\ UNCHANGED <<now, rows, ring, accounts, sealed>>
  <2>1. OverlapUntil(calls[c].options) \in Nat
    BY <1>2, RotationsAssumption DEF OverlapUntil, IInv, TypeOK
  <2>2. call \in RotateLocked /\ call.key = k /\ call.options = calls[c].options
    BY <1>2, <2>1 DEF RotateLocked
  <2> HIDE DEF call
  <2>3. calls' \in [Calls -> {Idle} \cup RotateBegun \cup RotateLocked \cup AuthCall]
        /\ calls'[c] = call /\ \A d \in Calls \ {c} : calls'[d] = calls[d]
    BY <1>4, <2>2 DEF IInv, TypeOK
  <2>4. lock' \in [Keys -> Calls \cup {Free}]
        /\ lock'[k] = c /\ \A j \in Keys \ {k} : lock'[j] = lock[j]
    BY <1>2, <1>4 DEF IInv, TypeOK
  <2>5. TypeOK'
    BY <1>4, <2>3, <2>4 DEF IInv, TypeOK
  <2>6. LockInv'
    <3>1. ASSUME NEW d \in Calls \ {c}, HoldsRow(d)
          PROVE  calls[d].key \in Keys \ {k}
      <4>1. calls[d].key \in Keys /\ lock[calls[d].key] = d
        BY <3>1, OneHolder DEF IInv, LockInv
      <4> QED
        BY <1>4, <4>1, MarkersAssumption
    <3>2. rows[k].replaced = NoRow
      BY <1>4 DEF Rotatable
    <3>3. ASSUME NEW d \in Calls, HoldsRow(d)'
          PROVE  /\ lock'[calls'[d].key] = d
                 /\ rows'[calls'[d].key] # NoRow
                 /\ Rotating(d)' => rows'[calls'[d].key].replaced = NoRow
      <4>1. CASE d = c
        BY <1>4, <2>2, <2>3, <2>4, <3>2, <4>1
      <4>2. CASE d # c
        <5>1. calls'[d] = calls[d] /\ HoldsRow(d)
          BY <2>3, <3>3, <4>2 DEF HoldsRow
        <5>2. /\ lock[calls[d].key] = d /\ rows[calls[d].key] # NoRow
              /\ Rotating(d) => rows[calls[d].key].replaced = NoRow
          BY <5>1 DEF IInv, LockInv
        <5> QED
          BY <1>4, <2>4, <3>1, <4>2, <5>1, <5>2 DEF Rotating
      <4> QED
        BY <4>1, <4>2
    <3> QED
      BY <3>3 DEF LockInv
  <2>7. RotationInv'
    <3>1. Rotating(c)
      BY DEF LockForRotation, Rotating
    <3> QED
      BY <1>4, <2>2, <2>3, <3>1 DEF IInv, RotationInv, Rotating
  <2>8. RecoveryInv' /\ CredentialInv'
    BY <1>4 DEF IInv, RecoveryInv, CredentialInv
  <2> QED
    BY <2>5, <2>6, <2>7, <2>8 DEF IInv
<1> QED
  BY <1>3, <1>4 DEF LockForRotation

LEMMA CommitRotationIInv ==
  ASSUME IInv, NEW c \in Calls, NEW n \in Keys, CommitRotation(c, n)
  PROVE  IInv'
<1> DEFINE k == calls[c].key
           o == calls[c].options
           new == Successor(n, rows[k], o)
           old == Replaced(rows[k], n, calls[c].overlap)
<1>1. calls[c] \in RotateLocked
  BY DEF IInv, TypeOK, CommitRotation, Idle, RotateBegun, RotateLocked, AuthCall
<1>2. k \in Keys /\ o \in Rotations /\ calls[c].overlap \in Nat
  BY <1>1 DEF RotateLocked
<1>3. HoldsRow(c) /\ Rotating(c)
  BY DEF CommitRotation, HoldsRow, Rotating
<1>4. lock[k] = c /\ rows[k] # NoRow /\ rows[k] \in Rows
  BY <1>2, <1>3 DEF IInv, LockInv, TypeOK
<1>5. n # k
  BY <1>4 DEF CommitRotation
<1>6. new \in Rows /\ new.cipher.aad = VirtualKeyAad(n) /\ new.cipher.plaintext = n
  <2> DEFINE allowed == IF o.allowed = Keep THEN rows[k].allowed ELSE o.allowed
             scopes == IF o.scopes = Keep THEN rows[k].scopes ELSE o.scopes
             expires == IF o.expires = Keep THEN rows[k].expires ELSE o.expires
  <2>1. allowed \in AllowedSets
    BY <1>2, <1>4 DEF Rows, AllowedSets
  <2>2. scopes \in SUBSET Scopes
    BY <1>3, <1>4 DEF Rows, IInv, RotationInv
  <2>3. expires \in 0..Forever
    BY <1>2, <1>4, RotationsAssumption, TimeAssumption DEF Rows
  <2>4. HasMasterKey(ring) /\ ring \in Rings
    BY <1>3 DEF IInv, RotationInv, TypeOK
  <2>5. new = NewRow(n, "rotated", allowed, scopes, expires)
    BY DEF Successor
  <2> HIDE DEF allowed, scopes, expires, new
  <2> QED
    BY <2>1, <2>2, <2>3, <2>4, <2>5, InsertedRow
<1>7. old \in Rows /\ old.cipher = rows[k].cipher
  BY <1>2, <1>4 DEF Rows, Replaced
<1>8. /\ rows' = [rows EXCEPT ![n] = new, ![k] = old]
      /\ lock' = [lock EXCEPT ![k] = Free]
      /\ calls' = [calls EXCEPT ![c] = Idle]
  BY DEF CommitRotation
<1> HIDE DEF new, old, k
<1>9. /\ rows' \in [Keys -> Rows \cup {NoRow}]
      /\ rows'[n] = new /\ rows'[k] = old
      /\ \A j \in Keys \ {n, k} : rows'[j] = rows[j]
  BY <1>2, <1>5, <1>6, <1>7, <1>8 DEF IInv, TypeOK
<1>10. /\ calls' \in [Calls -> {Idle} \cup RotateBegun \cup RotateLocked \cup AuthCall]
       /\ calls'[c] = Idle /\ \A d \in Calls \ {c} : calls'[d] = calls[d]
  BY <1>8 DEF IInv, TypeOK
<1>11. /\ lock' \in [Keys -> Calls \cup {Free}]
       /\ \A j \in Keys \ {k} : lock'[j] = lock[j]
  BY <1>2, <1>8 DEF IInv, TypeOK
<1>12. TypeOK'
  BY <1>9, <1>10, <1>11 DEF IInv, TypeOK, CommitRotation
<1>13. LockInv'
  <2>1. ASSUME NEW d \in Calls, HoldsRow(d)'
        PROVE  /\ lock'[calls'[d].key] = d
               /\ rows'[calls'[d].key] # NoRow
               /\ Rotating(d)' => rows'[calls'[d].key].replaced = NoRow
    <3>1. d # c /\ calls'[d] = calls[d] /\ HoldsRow(d)
      BY <1>10, <2>1, IdleCall DEF HoldsRow
    <3>2. /\ lock[calls[d].key] = d /\ rows[calls[d].key] # NoRow
          /\ Rotating(d) => rows[calls[d].key].replaced = NoRow
      BY <3>1 DEF IInv, LockInv
    <3>3. calls[d].key \in Keys \ {n, k}
      <4>1. calls[d].key \in Keys
        BY <3>1, OneHolder
      <4>2. rows[n] = NoRow
        BY DEF CommitRotation
      <4> QED
        BY <1>4, <3>1, <3>2, <4>1, <4>2
    <3> QED
      BY <1>9, <1>11, <3>1, <3>2, <3>3 DEF Rotating
  <2> QED
    BY <2>1 DEF LockInv
<1>14. RotationInv'
  BY <1>10, IdleCall DEF IInv, RotationInv, Rotating, CommitRotation
<1>15. RecoveryInv'
  BY <1>4, <1>6, <1>7, <1>9 DEF IInv, RecoveryInv
<1>16. CredentialInv'
  BY DEF IInv, CredentialInv, CommitRotation
<1> QED
  BY <1>12, <1>13, <1>14, <1>15, <1>16 DEF IInv

LEMMA AuthenticateIInv ==
  ASSUME IInv, NEW c \in Calls, NEW k \in Keys, NEW m \in Models, Authenticate(c, k, m)
  PROVE  IInv'
<1> DEFINE call == [op |-> "auth", key |-> k, at |-> "begun", model |-> m, start |-> now]
<1>1. call \in AuthCall /\ call.op = "auth" /\ call.at = "begun"
  BY DEF AuthCall, IInv, TypeOK
<1>2. calls' = [calls EXCEPT ![c] = call]
  BY DEF Authenticate
<1> HIDE DEF call
<1>3. calls' \in [Calls -> {Idle} \cup RotateBegun \cup RotateLocked \cup AuthCall]
      /\ calls'[c] = call /\ \A d \in Calls \ {c} : calls'[d] = calls[d]
  BY <1>1, <1>2 DEF IInv, TypeOK
<1>4. ~HoldsRow(c)' /\ ~Rotating(c)'
  BY <1>1, <1>3 DEF HoldsRow, Rotating
<1> QED
  BY <1>3, <1>4, CallEnds DEF Authenticate, IInv, TypeOK

\* The record of a request, and what moving it on leaves alone.
LEMMA AuthRecord ==
  ASSUME IInv, NEW c \in Calls, calls[c].op = "auth",
         NEW a \in {"begun", "locked", "accepted", "refused"}
  PROVE  /\ calls[c] \in AuthCall /\ calls[c].key \in Keys /\ calls[c].start \in Nat
         /\ [calls[c] EXCEPT !.at = a] \in AuthCall
         /\ [calls[c] EXCEPT !.at = a].op = "auth"
         /\ [calls[c] EXCEPT !.at = a].at = a
         /\ [calls[c] EXCEPT !.at = a].key = calls[c].key
         /\ [calls[c] EXCEPT !.at = a].start = calls[c].start
<1>1. calls[c] \in AuthCall
  BY DEF IInv, TypeOK, Idle, RotateBegun, RotateLocked, AuthCall
<1> QED
  BY <1>1 DEF AuthCall

\* A request that is answered.
LEMMA AnswerIInv ==
  ASSUME IInv, NEW c \in Calls, calls[c].op = "auth",
         NEW a \in {"accepted", "refused"},
         calls' = [calls EXCEPT ![c] = [calls[c] EXCEPT !.at = a]],
         lock' = Released(c) \/ lock' = lock,
         UNCHANGED <<now, rows, ring, accounts, sealed>>
  PROVE  IInv'
<1> DEFINE call == [calls[c] EXCEPT !.at = a]
<1>1. call \in AuthCall /\ call.op = "auth" /\ call.at = a
  BY AuthRecord
<1> HIDE DEF call
<1>2. calls' \in [Calls -> {Idle} \cup RotateBegun \cup RotateLocked \cup AuthCall]
      /\ calls'[c] = call /\ \A d \in Calls \ {c} : calls'[d] = calls[d]
  BY <1>1 DEF IInv, TypeOK, call
<1>3. ~HoldsRow(c)' /\ ~Rotating(c)'
  BY <1>1, <1>2 DEF HoldsRow, Rotating
<1>4. lock' \in [Keys -> Calls \cup {Free}] /\ \A k \in Keys : lock[k] # c => lock'[k] = lock[k]
  BY DEF Released, IInv, TypeOK
<1> QED
  BY <1>2, <1>3, <1>4, CallEnds

LEMMA FindKeyIInv ==
  ASSUME IInv, NEW c \in Calls, FindKey(c)
  PROVE  IInv'
<1> DEFINE k == calls[c].key
           call == [calls[c] EXCEPT !.at = "locked"]
<1>1. calls[c].op = "auth" /\ k \in Keys
  BY AuthRecord DEF FindKey
<1>2. CASE /\ calls' = [calls EXCEPT ![c].at = "refused"]
           /\ UNCHANGED <<lock, now, rows, ring, accounts, sealed>>
  BY <1>1, <1>2, AnswerIInv
<1>3. CASE /\ rows[k] # NoRow /\ lock[k] = Free
           /\ lock' = [lock EXCEPT ![k] = c]
           /\ calls' = [calls EXCEPT ![c].at = "locked"]
           /\ UNCHANGED <<now, rows, ring, accounts, sealed>>
  <2>1. call \in AuthCall /\ call.op = "auth" /\ call.key = k
    BY <1>1, AuthRecord
  <2>2. calls' = [calls EXCEPT ![c] = call]
    BY <1>3
  <2> HIDE DEF call
  <2>3. calls' \in [Calls -> {Idle} \cup RotateBegun \cup RotateLocked \cup AuthCall]
        /\ calls'[c] = call /\ \A d \in Calls \ {c} : calls'[d] = calls[d]
    BY <2>1, <2>2 DEF IInv, TypeOK
  <2>4. lock' \in [Keys -> Calls \cup {Free}]
        /\ lock'[k] = c /\ \A j \in Keys \ {k} : lock'[j] = lock[j]
    BY <1>1, <1>3 DEF IInv, TypeOK
  <2>5. TypeOK'
    BY <1>3, <2>3, <2>4 DEF IInv, TypeOK
  <2>6. LockInv'
    <3>1. ASSUME NEW d \in Calls, HoldsRow(d)'
          PROVE  /\ lock'[calls'[d].key] = d
                 /\ rows'[calls'[d].key] # NoRow
                 /\ Rotating(d)' => rows'[calls'[d].key].replaced = NoRow
      <4>1. CASE d = c
        BY <1>3, <2>1, <2>3, <2>4, <4>1 DEF Rotating
      <4>2. CASE d # c
        <5>1. calls'[d] = calls[d] /\ HoldsRow(d)
          BY <2>3, <3>1, <4>2 DEF HoldsRow
        <5>2. /\ lock[calls[d].key] = d /\ rows[calls[d].key] # NoRow
              /\ Rotating(d) => rows[calls[d].key].replaced = NoRow
          BY <5>1 DEF IInv, LockInv
        <5>3. calls[d].key \in Keys \ {k}
          BY <1>3, <5>1, <5>2, OneHolder, MarkersAssumption
        <5> QED
          BY <1>3, <2>4, <5>1, <5>2, <5>3 DEF Rotating
      <4> QED
        BY <4>1, <4>2
    <3> QED
      BY <3>1 DEF LockInv
  <2>7. RotationInv'
    BY <1>3, <2>1, <2>3 DEF IInv, RotationInv, Rotating
  <2>8. RecoveryInv' /\ CredentialInv'
    BY <1>3 DEF IInv, RecoveryInv, CredentialInv
  <2> QED
    BY <2>5, <2>6, <2>7, <2>8 DEF IInv
<1> QED
  BY <1>2, <1>3 DEF FindKey

LEMMA CommitRequestIInv ==
  ASSUME IInv, NEW c \in Calls, CommitRequest(c)
  PROVE  IInv'
<1>1. PICK a \in {"accepted", "refused"} : calls' = [calls EXCEPT ![c].at = a]
  BY DEF CommitRequest
<1> QED
  BY <1>1, AnswerIInv DEF CommitRequest

LEMMA CallFailsIInv ==
  ASSUME IInv, NEW c \in Calls, CallFails(c)
  PROVE  IInv'
<1>1. CASE calls[c].op = "auth" /\ calls[c].at \in {"begun", "locked"}
  <2>1. calls' = [calls EXCEPT ![c] = [calls[c] EXCEPT !.at = "refused"]]
    BY <1>1 DEF CallFails
  <2> QED
    BY <1>1, <2>1, AnswerIInv DEF CallFails
<1>2. CASE ~(calls[c].op = "auth" /\ calls[c].at \in {"begun", "locked"})
  <2>1. calls' = [calls EXCEPT ![c] = Idle]
    BY <1>2 DEF CallFails
  <2>2. /\ calls' \in [Calls -> {Idle} \cup RotateBegun \cup RotateLocked \cup AuthCall]
        /\ calls'[c] = Idle /\ \A d \in Calls \ {c} : calls'[d] = calls[d]
    BY <2>1 DEF IInv, TypeOK
  <2>3. lock' \in [Keys -> Calls \cup {Free}]
        /\ \A k \in Keys : lock[k] # c => lock'[k] = lock[k]
    BY DEF CallFails, Released, IInv, TypeOK
  <2> QED
    BY <2>2, <2>3, IdleCall, CallEnds DEF CallFails
<1> QED
  BY <1>1, <1>2

-----------------------------------------------------------------------------
(* The credential steps. *)

LEMMA EncryptIInv ==
  ASSUME IInv, NEW s \in Sources, NEW a \in Accounts, NEW p \in Plaintexts,
         EncryptCredential(s, a, p)
  PROVE  IInv'
<1>1. Encrypt(ring, p, AccountAad(s, a)) \in Envelopes
  BY Sealing DEF EncryptCredential, IInv, TypeOK
<1>2. TypeOK'
  BY <1>1 DEF IInv, TypeOK, EncryptCredential
<1>3. LockInv' /\ RotationInv' /\ RecoveryInv'
  BY DEF IInv, LockInv, RotationInv, RecoveryInv, HoldsRow, Rotating, EncryptCredential
<1>4. CredentialInv'
  BY DEF IInv, CredentialInv, EncryptCredential
<1> QED
  BY <1>2, <1>3, <1>4 DEF IInv

LEMMA AccountIInv ==
  ASSUME IInv, NEW a \in Accounts, NEW row \in AccountRows,
         row.cipher # Unset => \E e \in sealed : /\ e.aad = row.cipher.aad
                                                 /\ e.plaintext = row.cipher.plaintext,
         accounts' = [accounts EXCEPT ![a] = row],
         UNCHANGED <<now, rows, lock, calls, ring, sealed>>
  PROVE  IInv'
<1>1. accounts' \in [Accounts -> AccountRows]
      /\ accounts'[a] = row /\ \A b \in Accounts \ {a} : accounts'[b] = accounts[b]
  BY DEF IInv, TypeOK
<1>2. TypeOK'
  BY <1>1 DEF IInv, TypeOK
<1>3. LockInv' /\ RotationInv' /\ RecoveryInv'
  BY DEF IInv, LockInv, RotationInv, RecoveryInv, HoldsRow, Rotating
<1>4. CredentialInv'
  BY <1>1 DEF IInv, CredentialInv
<1> QED
  BY <1>2, <1>3, <1>4 DEF IInv

LEMMA UpdateAccountIInv ==
  ASSUME IInv, NEW a \in Accounts, NEW s \in Sources,
         \/ UpdateAccount(a, s, [env |-> Failed, cipher |-> Unset])
         \/ \E e \in sealed : UpdateAccount(a, s, [env |-> Unset, cipher |-> e])
  PROVE  IInv'
<1>1. CASE UpdateAccount(a, s, [env |-> Failed, cipher |-> Unset])
  <2> DEFINE row == [source |-> s, env |-> Failed, cipher |-> Unset]
  <2>1. row \in AccountRows /\ row.cipher = Unset
    BY DEF AccountRows
  <2>2. accounts' = [accounts EXCEPT ![a] = row]
    BY <1>1 DEF UpdateAccount
  <2>3. UNCHANGED <<now, rows, lock, calls, ring, sealed>>
    BY <1>1 DEF UpdateAccount
  <2> HIDE DEF row
  <2> QED
    BY <2>1, <2>2, <2>3, AccountIInv
<1>2. ASSUME NEW e \in sealed, UpdateAccount(a, s, [env |-> Unset, cipher |-> e])
      PROVE  IInv'
  <2> DEFINE row == [source |-> s, env |-> Unset, cipher |-> e]
  <2>1. row \in AccountRows /\ row.cipher = e
    BY DEF AccountRows, IInv, TypeOK
  <2>2. accounts' = [accounts EXCEPT ![a] = row]
    BY <1>2 DEF UpdateAccount
  <2>3. UNCHANGED <<now, rows, lock, calls, ring, sealed>>
    BY <1>2 DEF UpdateAccount
  <2> HIDE DEF row
  <2> QED
    BY <2>1, <2>2, <2>3, AccountIInv
<1> QED
  BY <1>1, <1>2

\* Re-encryption keeps the owner and the plaintext.
LEMMA RotateAccountIInv ==
  ASSUME IInv, NEW a \in Accounts, RotateAccountCredential(a)
  PROVE  IInv'
<1> DEFINE aad == AccountAad(accounts[a].source, a)
           old == accounts[a].cipher
           new == Rotate(ring, old, aad)
           row == [accounts[a] EXCEPT !.cipher = new]
<1>1. /\ accounts[a] \in AccountRows
      /\ accounts[a].source \in Sources /\ old \in Envelopes
  BY DEF IInv, TypeOK, AccountRows, RotateAccountCredential
<1>2. old.plaintext \in Plaintexts \cup Keys
  BY <1>1 DEF Envelopes
<1>3. old.aad = aad /\ Decrypt(ring, old, aad) = old.plaintext /\ HasMasterKey(ring)
  <2>1. Decrypt(ring, old, aad) # Failed
    BY DEF RotateAccountCredential, Rotate
  <2> QED
    BY <2>1, Opening
<1>4. new = Encrypt(ring, old.plaintext, aad)
  BY <1>3 DEF RotateAccountCredential, Rotate
<1>5. new \in Envelopes /\ new.aad = aad /\ new.plaintext = old.plaintext
  <2>1. ring \in Rings
    BY DEF IInv, TypeOK
  <2>2. aad \in {AccountAad(s, b) : s \in Sources, b \in Accounts}
                  \cup {VirtualKeyAad(k) : k \in Keys}
    BY <1>1
  <2> HIDE DEF aad, new, old
  <2> QED
    BY <1>2, <1>3, <1>4, <2>1, <2>2, Sealing
<1>6. accounts' = [accounts EXCEPT ![a] = row]
  BY DEF RotateAccountCredential
<1>7. row \in AccountRows /\ row.cipher = new
  BY <1>1, <1>5 DEF AccountRows
<1>8. \E e \in sealed : e.aad = old.aad /\ e.plaintext = old.plaintext
  BY DEF IInv, CredentialInv, RotateAccountCredential
<1>9. UNCHANGED <<now, rows, lock, calls, ring, sealed>>
  BY DEF RotateAccountCredential
<1> HIDE DEF aad, old, new, row
<1> QED
  BY <1>3, <1>5, <1>6, <1>7, <1>8, <1>9, AccountIInv

-----------------------------------------------------------------------------

LEMMA NextIInv == IInv /\ [Next]_vars => IInv'
<1> SUFFICES ASSUME IInv, [Next]_vars PROVE IInv'
  OBVIOUS
<1>1. CASE Tick
  BY <1>1, TickIInv
<1>2. CASE Restart
  BY <1>2, RestartIInv
<1>3. CASE \E k \in Keys : RevokeVirtualKey(k) \/ \E m \in Allowlists : CreateKey(k, m)
  BY <1>3, RevokeIInv, CreateIInv
<1>4. ASSUME NEW c \in Calls, CallStep(c) PROVE IInv'
  BY <1>4, RotateIInv, LockForRotationIInv, CommitRotationIInv, AuthenticateIInv,
     FindKeyIInv, CommitRequestIInv, CallFailsIInv DEF CallStep
<1>5. CASE CredentialStep
  BY <1>5, EncryptIInv, UpdateAccountIInv, RotateAccountIInv DEF CredentialStep
<1>6. CASE UNCHANGED vars
  BY <1>6 DEF vars, IInv, TypeOK, LockInv, RotationInv, RecoveryInv, CredentialInv,
              HoldsRow, Rotating
<1> QED
  BY <1>1, <1>2, <1>3, <1>4, <1>5, <1>6 DEF Next

\* Every reachable state satisfies the inductive invariant.
THEOREM Invariance == Spec => []IInv
BY InitIInv, NextIInv, PTL DEF Spec

-----------------------------------------------------------------------------
(* Secrets. *)

LEMMA IInvSecrets == IInv => SecretsStayHome
<1> SUFFICES ASSUME IInv PROVE SecretsStayHome
  OBVIOUS
<1>1. ASSUME NEW a \in Accounts, accounts[a].env = Unset, AccountCredential(a) # Failed
      PROVE  \E e \in sealed : /\ e.aad = AccountAad(accounts[a].source, a)
                               /\ e.plaintext = AccountCredential(a)
  <2> DEFINE aad == AccountAad(accounts[a].source, a)
  <2>1. accounts[a].cipher # Unset
    BY <1>1 DEF AccountCredential, ResolveRefs
  <2>2. AccountCredential(a) = Decrypt(ring, accounts[a].cipher, aad)
    BY <1>1, <2>1 DEF AccountCredential, ResolveRefs
  <2>3. accounts[a].cipher.aad = aad /\ AccountCredential(a) = accounts[a].cipher.plaintext
    <3> HIDE DEF aad
    <3> QED
      BY <1>1, <2>2, Opening
  <2> QED
    BY <2>1, <2>3 DEF IInv, CredentialInv
<1>2. ASSUME NEW k \in Keys, rows[k] # NoRow, RevealedKey(k) # Failed
      PROVE  RevealedKey(k) = k
  <2> DEFINE refs == [env |-> Unset, cipher |-> rows[k].cipher]
  <2>1. refs.env = Unset /\ refs.cipher = rows[k].cipher
    OBVIOUS
  <2> HIDE DEF refs
  <2>2. RevealedKey(k) = ResolveRefs(ring, refs, VirtualKeyAad(k))
    BY DEF RevealedKey, refs
  <2>3. rows[k].cipher # Unset
    BY <1>2, <2>1, <2>2 DEF ResolveRefs
  <2>4. RevealedKey(k) = Decrypt(ring, rows[k].cipher, VirtualKeyAad(k))
    BY <2>1, <2>2, <2>3 DEF ResolveRefs
  <2>5. RevealedKey(k) = rows[k].cipher.plaintext
    BY <1>2, <2>4, Opening
  <2> QED
    BY <1>2, <2>3, <2>5 DEF IInv, RecoveryInv
<1> QED
  BY <1>1, <1>2 DEF SecretsStayHome

\* A stored secret comes back only to its owner: whatever is sealed, copied
\* between accounts, re-encrypted, moved to another source or met by another
\* keyring (resolve_refs, rotate_account_credential, reveal_key), an account
\* authenticates with a plaintext sealed for it, and a revealed key is its own.
THEOREM SecretsHold == Spec => []SecretsStayHome
BY Invariance, IInvSecrets, PTL

-----------------------------------------------------------------------------
(* The refinement of KeyValidity. *)

\* The moment a row is good until, whatever its columns hold.
LEMMA GoodUntilRange ==
  ASSUME NEW row \in Rows \cup {NoRow}
  PROVE  GoodUntil(row) \in 0..Forever
<1>1. CASE row = NoRow
  BY <1>1, TimeAssumption DEF GoodUntil
<1>2. CASE row \in Rows
  BY <1>2, TimeAssumption DEF GoodUntil, Rows
<1> QED
  BY <1>1, <1>2

\* The query's condition is the abstract one: a row is usable at t exactly
\* when t comes before the moment it is good until.
LEMMA UsableIsGood ==
  ASSUME NEW row \in Rows, NEW t \in Nat
  PROVE  Usable(row, t) <=> GoodUntil(row) > t
<1>1. /\ row # NoRow /\ row.expires \in Nat /\ row.overlap \in Nat
      /\ row.enabled \in BOOLEAN /\ row.revoked \in BOOLEAN
  BY NoRowAssumption, TimeAssumption DEF Rows
<1>2. CASE ~row.enabled \/ row.revoked
  BY <1>1, <1>2 DEF Usable, GoodUntil
<1>3. CASE row.enabled /\ ~row.revoked
  BY <1>1, <1>3 DEF Usable, GoodUntil
<1> QED
  BY <1>2, <1>3

\* The overlap window of a rotation only takes from the life of the old key.
LEMMA ReplacedLosesLife ==
  ASSUME NEW row \in Rows, row.replaced = NoRow, NEW n \in Keys, NEW overlap \in Nat
  PROVE  GoodUntil(Replaced(row, n, overlap)) <= GoodUntil(row)
<1> DEFINE new == Replaced(row, n, overlap)
<1>1. /\ new \in Rows /\ new.replaced = n /\ new.overlap = overlap /\ new.expires = row.expires
      /\ (new.enabled <=> overlap # 0 /\ row.enabled)
      /\ (new.revoked <=> overlap = 0 \/ row.revoked)
  BY DEF Replaced, Rows
<1>2. /\ row.expires \in Nat /\ n # NoRow /\ row # NoRow /\ new # NoRow
  BY <1>1, NoRowAssumption, TimeAssumption DEF Rows
<1> HIDE DEF new
<1>3. CASE overlap = 0 \/ ~row.enabled \/ row.revoked
  <2>1. GoodUntil(new) = 0
    BY <1>1, <1>3 DEF GoodUntil
  <2>2. GoodUntil(row) \in Nat
    BY <1>2 DEF GoodUntil
  <2> QED
    BY <2>1, <2>2 DEF new
<1>4. CASE overlap # 0 /\ row.enabled /\ ~row.revoked
  <2>1. GoodUntil(row) = row.expires
    BY <1>2, <1>4 DEF GoodUntil
  <2>2. GoodUntil(new) = IF overlap < row.expires THEN overlap ELSE row.expires
    BY <1>1, <1>2, <1>4 DEF GoodUntil
  <2> QED
    BY <1>2, <2>1, <2>2 DEF new
<1> QED
  BY <1>3, <1>4

AbsIssued == {k \in Keys : rows[k] # NoRow}
AbsUntil == [k \in Keys |-> GoodUntil(rows[k])]
AbsPending == [c \in Calls |-> PendingRequest(c)]

LEMMA RefinesInit == Init => KV!Init
<1> SUFFICES ASSUME Init PROVE KV!Init
  OBVIOUS
<1>1. now \in Nat
  BY DEF Init
<1>2. AbsUntil \in [Keys -> 0..Forever]
  BY InitIInv, GoodUntilRange DEF AbsUntil, IInv, TypeOK
<1>3. AbsPending = [c \in Calls |-> KV!None]
  BY DEF Init, Idle, PendingRequest, KV!None, AbsPending
<1> QED
  BY <1>1, <1>2, <1>3 DEF KV!Init, AbsUntil, AbsPending

\* A step that leaves the clock, the rows and what requests show unchanged.
LEMMA Stutters ==
  ASSUME UNCHANGED <<now, rows>>, \A c \in Calls : PendingRequest(c)' = PendingRequest(c)
  PROVE  UNCHANGED KV!vars
BY DEF KV!vars

\* A step of one call shows only in the request of that call.
LEMMA OtherRequests ==
  ASSUME NEW c \in Calls, \A d \in Calls \ {c} : calls'[d] = calls[d]
  PROVE  AbsPending' = [AbsPending EXCEPT ![c] = PendingRequest(c)']
BY DEF AbsPending, PendingRequest

\* Administration: rows change, and an issued key only loses.
LEMMA RowsManaged ==
  ASSUME IInv, IInv', now' = now,
         \A c \in Calls : PendingRequest(c)' = PendingRequest(c),
         \A k \in Keys : rows[k] # NoRow => rows'[k] # NoRow,
         \A k \in Keys : rows[k] # NoRow => GoodUntil(rows'[k]) <= GoodUntil(rows[k])
  PROVE  KV!Manage
<1>1. AbsIssued \subseteq AbsIssued' /\ AbsIssued' \subseteq Keys
  BY DEF AbsIssued
<1>2. AbsUntil' \in [Keys -> 0..Forever]
  <2>1. \A k \in Keys : GoodUntil(rows'[k]) \in 0..Forever
    <3>1. \A k \in Keys : rows'[k] \in Rows \cup {NoRow}
      BY DEF IInv, TypeOK
    <3> QED
      BY <3>1, GoodUntilRange
  <2>2. AbsUntil' = [k \in Keys |-> GoodUntil(rows'[k])]
    BY DEF AbsUntil, GoodUntil
  <2> QED
    BY <2>1, <2>2
<1>3. ASSUME NEW k \in Keys
      PROVE  \/ k \notin AbsIssued /\ k \in AbsIssued'
             \/ AbsUntil'[k] <= AbsUntil[k]
  <2>1. AbsUntil[k] = GoodUntil(rows[k]) /\ AbsUntil'[k] = GoodUntil(rows'[k])
    BY DEF AbsUntil, GoodUntil
  <2>2. CASE rows[k] # NoRow
    BY <2>1, <2>2
  <2>3. CASE rows[k] = NoRow /\ rows'[k] = NoRow
    BY <2>1, <2>3 DEF GoodUntil
  <2>4. CASE rows[k] = NoRow /\ rows'[k] # NoRow
    BY <2>4 DEF AbsIssued
  <2> QED
    BY <2>2, <2>3, <2>4
<1>4. now' = now /\ AbsPending' = AbsPending
  BY DEF AbsPending
<1> QED
  BY <1>1, <1>2, <1>3, <1>4 DEF KV!Manage, AbsIssued, AbsUntil, AbsPending

\* What a call that is not a request, and what a request, shows.
LEMMA Shown ==
  ASSUME NEW c
  PROVE  /\ calls[c].op # "auth" => PendingRequest(c) = KV!None
         /\ calls[c].op = "auth" => PendingRequest(c) # KV!None
<1>1. DOMAIN KV!None = {"key"}
  BY DEF KV!None
<1>2. ASSUME calls[c].op = "auth" PROVE "at" \in DOMAIN PendingRequest(c)
  BY <1>2 DEF PendingRequest
<1> QED
  BY <1>1, <1>2 DEF PendingRequest, KV!None

\* A request that is answered: waiting before, answered a afterwards.
LEMMA AnsweredStep ==
  ASSUME IInv, NEW c \in Calls, calls[c].op = "auth", calls[c].at \in {"begun", "locked"},
         NEW a \in {"accepted", "refused"},
         calls' = [calls EXCEPT ![c] = [calls[c] EXCEPT !.at = a]],
         UNCHANGED <<now, rows>>
  PROVE  KV!Answered(c, a)
<1> DEFINE call == [calls[c] EXCEPT !.at = a]
           was == [key |-> calls[c].key, at |-> calls[c].start, answer |-> "waiting"]
<1>1. call.op = "auth" /\ call.at = a /\ call.key = calls[c].key /\ call.start = calls[c].start
  BY AuthRecord
<1>2. calls'[c] = call /\ \A d \in Calls \ {c} : calls'[d] = calls[d]
  BY DEF IInv, TypeOK
<1> HIDE DEF call
<1>3. PendingRequest(c) = was
  BY DEF PendingRequest
<1>4. PendingRequest(c)' = [was EXCEPT !.answer = a]
  <2>1. PendingRequest(c)' = [key |-> calls[c].key, at |-> calls[c].start, answer |-> a]
    BY <1>1, <1>2 DEF PendingRequest
  <2> QED
    BY <2>1
<1>5. AbsPending[c] = was /\ AbsPending' = [AbsPending EXCEPT ![c] = [was EXCEPT !.answer = a]]
  <2>1. AbsPending' = [AbsPending EXCEPT ![c] = PendingRequest(c)']
    BY <1>2, OtherRequests
  <2>2. AbsPending[c] = was
    BY <1>3 DEF AbsPending
  <2> QED
    BY <1>4, <2>1, <2>2
<1>6. AbsPending[c] # KV!None /\ AbsPending[c].answer = "waiting"
  <2>1. PendingRequest(c) # KV!None
    BY Shown
  <2> QED
    BY <1>3, <1>5, <2>1
<1>7. AbsPending' = [AbsPending EXCEPT ![c].answer = a]
  BY <1>5
<1>8. UNCHANGED <<now, AbsIssued, AbsUntil>>
  BY DEF AbsIssued, AbsUntil, GoodUntil
<1> QED
  BY <1>6, <1>7, <1>8 DEF KV!Answered, KV!Waiting, AbsPending, AbsIssued, AbsUntil

LEMMA CreateRefines ==
  ASSUME IInv, IInv', NEW k \in Keys, NEW m \in Allowlists, CreateKey(k, m)
  PROVE  KV!Manage
<1>1. \A j \in Keys : rows[j] # NoRow => rows'[j] = rows[j]
  BY DEF CreateKey, IInv, TypeOK
<1>2. \A j \in Keys : GoodUntil(rows[j]) \in 0..Forever
  BY GoodUntilRange DEF IInv, TypeOK
<1>3. \A c \in Calls : PendingRequest(c)' = PendingRequest(c)
  BY DEF CreateKey, PendingRequest
<1>4. \A j \in Keys : rows[j] # NoRow => GoodUntil(rows'[j]) <= GoodUntil(rows[j])
  BY <1>1, <1>2
<1> QED
  BY <1>1, <1>3, <1>4, RowsManaged DEF CreateKey

LEMMA RevokeRefines ==
  ASSUME IInv, IInv', NEW k \in Keys, RevokeVirtualKey(k)
  PROVE  KV!Manage
<1>1. \A j \in Keys \ {k} : rows'[j] = rows[j]
  BY DEF RevokeVirtualKey, IInv, TypeOK
<1>2. rows'[k] \in Rows /\ rows'[k].revoked
  <2>1. rows[k] \in Rows
    BY DEF RevokeVirtualKey, IInv, TypeOK
  <2> QED
    BY <2>1 DEF RevokeVirtualKey, IInv, TypeOK, Rows
<1>3. \A j \in Keys : GoodUntil(rows[j]) \in 0..Forever
  BY GoodUntilRange DEF IInv, TypeOK
<1>4. GoodUntil(rows'[k]) = 0 /\ rows'[k] # NoRow
  BY <1>2, NoRowAssumption DEF GoodUntil
<1>5. \A c \in Calls : PendingRequest(c)' = PendingRequest(c)
  BY DEF RevokeVirtualKey, PendingRequest
<1>6. \A j \in Keys : rows[j] # NoRow => rows'[j] # NoRow
                        /\ GoodUntil(rows'[j]) <= GoodUntil(rows[j])
  BY <1>1, <1>3, <1>4
<1> QED
  BY <1>5, <1>6, RowsManaged DEF RevokeVirtualKey

\* The old key loses what lies beyond the overlap window; the lock is what
\* keeps a second rotation from granting it a later one.
LEMMA CommitRotationRefines ==
  ASSUME IInv, IInv', NEW c \in Calls, NEW n \in Keys, CommitRotation(c, n)
  PROVE  KV!Manage
<1> DEFINE k == calls[c].key
           old == Replaced(rows[k], n, calls[c].overlap)
<1>1. HoldsRow(c) /\ Rotating(c)
  BY DEF CommitRotation, HoldsRow, Rotating
<1>2. calls[c] \in RotateLocked
  BY DEF IInv, TypeOK, CommitRotation, Idle, RotateBegun, RotateLocked, AuthCall
<1>3. k \in Keys /\ calls[c].overlap \in Nat
  BY <1>2 DEF RotateLocked
<1>4. rows[k] \in Rows /\ rows[k] # NoRow /\ rows[k].replaced = NoRow
  BY <1>1, <1>3 DEF IInv, LockInv, TypeOK
<1>5. old # NoRow
  <2>1. old \in Rows
    BY <1>3, <1>4 DEF Rows, Replaced
  <2> QED
    BY <2>1, NoRowAssumption
<1>6. GoodUntil(old) <= GoodUntil(rows[k])
  BY <1>3, <1>4, ReplacedLosesLife
<1>7. rows'[k] = old /\ \A j \in Keys \ {n, k} : rows'[j] = rows[j]
  BY <1>3, <1>4 DEF CommitRotation, IInv, TypeOK
<1>8. rows[n] = NoRow /\ n # k
  BY <1>4 DEF CommitRotation
<1> HIDE DEF old, k
<1>9. \A j \in Keys : GoodUntil(rows[j]) \in 0..Forever
  BY GoodUntilRange DEF IInv, TypeOK
<1>10. \A j \in Keys : rows[j] # NoRow => rows'[j] # NoRow
                         /\ GoodUntil(rows'[j]) <= GoodUntil(rows[j])
  BY <1>5, <1>6, <1>7, <1>8, <1>9
<1>11. \A d \in Calls : PendingRequest(d)' = PendingRequest(d)
  <2>1. \A d \in Calls \ {c} : calls'[d] = calls[d]
    BY DEF CommitRotation, IInv, TypeOK
  <2>2. calls[c].op # "auth" /\ calls'[c].op # "auth"
    BY DEF CommitRotation, IInv, TypeOK, Idle
  <2> QED
    BY <2>1, <2>2 DEF PendingRequest
<1> QED
  BY <1>10, <1>11, RowsManaged DEF CommitRotation

LEMMA AuthenticateRefines ==
  ASSUME IInv, NEW c \in Calls, NEW k \in Keys, NEW m \in Models, Authenticate(c, k, m)
  PROVE  KV!Arrive(c)
<1> DEFINE call == [op |-> "auth", key |-> k, at |-> "begun", model |-> m, start |-> now]
<1>1. call.op = "auth" /\ call.at = "begun" /\ call.key = k /\ call.start = now
  OBVIOUS
<1>2. calls'[c] = call /\ \A d \in Calls \ {c} : calls'[d] = calls[d]
  BY DEF Authenticate, IInv, TypeOK
<1> HIDE DEF call
<1>3. PendingRequest(c)' = [key |-> k, at |-> now, answer |-> "waiting"]
  BY <1>1, <1>2 DEF PendingRequest
<1>4. AbsPending' = [AbsPending EXCEPT ![c] = [key |-> k, at |-> now, answer |-> "waiting"]]
  BY <1>2, <1>3, OtherRequests
<1>5. AbsPending[c] = KV!None
  <2>1. calls[c].op # "auth"
    BY DEF Authenticate, Idle
  <2> QED
    BY <2>1, Shown DEF AbsPending
<1>6. UNCHANGED <<now, AbsIssued, AbsUntil>>
  BY DEF Authenticate, AbsIssued, AbsUntil, GoodUntil
<1> QED
  BY <1>4, <1>5, <1>6 DEF KV!Arrive, AbsPending, AbsIssued, AbsUntil

LEMMA FindKeyRefines ==
  ASSUME IInv, NEW c \in Calls, FindKey(c)
  PROVE  KV!Refuse(c) \/ UNCHANGED KV!vars
<1>1. CASE calls' = [calls EXCEPT ![c].at = "refused"]
  BY <1>1, AnsweredStep DEF FindKey, KV!Refuse
<1>2. CASE calls' = [calls EXCEPT ![c].at = "locked"]
  <2> DEFINE call == [calls[c] EXCEPT !.at = "locked"]
  <2>1. call.op = "auth" /\ call.at = "locked" /\ call.key = calls[c].key
        /\ call.start = calls[c].start
    BY AuthRecord DEF FindKey
  <2>2. calls'[c] = call /\ \A d \in Calls \ {c} : calls'[d] = calls[d]
    BY <1>2 DEF IInv, TypeOK
  <2> HIDE DEF call
  <2>3. PendingRequest(c)' = PendingRequest(c)
    BY <2>1, <2>2 DEF PendingRequest, FindKey
  <2>4. \A d \in Calls : PendingRequest(d)' = PendingRequest(d)
    BY <2>2, <2>3 DEF PendingRequest
  <2> QED
    BY <2>4, Stutters DEF FindKey
<1> QED
  BY <1>1, <1>2 DEF FindKey

\* The commit repeats the whole condition under the lock, so the key that lets
\* a request in is issued and good at that moment.
LEMMA CommitRequestRefines ==
  ASSUME IInv, NEW c \in Calls, CommitRequest(c)
  PROVE  KV!Accept(c) \/ KV!Refuse(c)
<1> DEFINE k == calls[c].key
<1>1. HoldsRow(c) /\ calls[c].op = "auth"
  BY DEF CommitRequest, HoldsRow
<1>2. k \in Keys /\ calls[c].start \in Nat
  BY <1>1, AuthRecord
<1>3. rows[k] # NoRow /\ rows[k] \in Rows
  BY <1>1, <1>2 DEF IInv, LockInv, TypeOK
<1>4. CASE Usable(rows[k], calls[c].start)
  <2>1. calls' = [calls EXCEPT ![c] = [calls[c] EXCEPT !.at = "accepted"]]
    BY <1>4 DEF CommitRequest
  <2>2. KV!Answered(c, "accepted")
    BY <1>1, <2>1, AnsweredStep DEF CommitRequest
  <2>3. GoodUntil(rows[k]) > calls[c].start
    BY <1>2, <1>3, <1>4, UsableIsGood
  <2>4. AbsPending[c].key = k /\ AbsPending[c].at = calls[c].start
    BY <1>1 DEF AbsPending, PendingRequest
  <2>5. k \in AbsIssued /\ AbsUntil[k] = GoodUntil(rows[k])
    BY <1>2, <1>3 DEF AbsIssued, AbsUntil
  <2>6. AbsPending[c].key \in AbsIssued /\ AbsUntil[AbsPending[c].key] > AbsPending[c].at
    BY <2>3, <2>4, <2>5
  <2> QED
    BY <2>2, <2>6 DEF KV!Accept, AbsPending, AbsIssued, AbsUntil
<1>5. CASE ~Usable(rows[k], calls[c].start)
  <2>1. calls' = [calls EXCEPT ![c] = [calls[c] EXCEPT !.at = "refused"]]
    BY <1>5 DEF CommitRequest
  <2> QED
    BY <1>1, <2>1, AnsweredStep DEF CommitRequest, KV!Refuse
<1> QED
  BY <1>4, <1>5

LEMMA CallFailsRefines ==
  ASSUME IInv, NEW c \in Calls, CallFails(c)
  PROVE  KV!Refuse(c) \/ KV!Leave(c) \/ UNCHANGED KV!vars
<1>1. CASE calls[c].op = "auth" /\ calls[c].at \in {"begun", "locked"}
  <2>1. calls' = [calls EXCEPT ![c] = [calls[c] EXCEPT !.at = "refused"]]
    BY <1>1 DEF CallFails
  <2> QED
    BY <1>1, <2>1, AnsweredStep DEF CallFails, KV!Refuse
<1>2. ASSUME ~(calls[c].op = "auth" /\ calls[c].at \in {"begun", "locked"})
      PROVE  KV!Leave(c) \/ UNCHANGED KV!vars
  <2>1. calls'[c] = Idle /\ \A d \in Calls \ {c} : calls'[d] = calls[d]
    BY <1>2 DEF CallFails, IInv, TypeOK
  <2>2. PendingRequest(c)' = KV!None
    BY <2>1 DEF PendingRequest, Idle, KV!None
  <2>3. AbsPending' = [AbsPending EXCEPT ![c] = KV!None]
    BY <2>1, <2>2, OtherRequests
  <2>4. CASE calls[c].op = "auth"
    <3>1. AbsPending[c] # KV!None
      BY <2>4, Shown DEF AbsPending
    <3>2. UNCHANGED <<now, AbsIssued, AbsUntil>>
      BY DEF CallFails, AbsIssued, AbsUntil, GoodUntil
    <3> QED
      BY <2>3, <3>1, <3>2 DEF KV!Leave, AbsPending, AbsIssued, AbsUntil
  <2>5. CASE calls[c].op # "auth"
    <3>1. PendingRequest(c) = KV!None
      BY <2>5, Shown
    <3>2. \A d \in Calls : PendingRequest(d)' = PendingRequest(d)
      BY <2>1, <2>2, <3>1 DEF PendingRequest
    <3> QED
      BY <3>2, Stutters DEF CallFails
  <2> QED
    BY <2>4, <2>5
<1> QED
  BY <1>1, <1>2

\* A step of a rotation before its commit shows nothing.
LEMMA RotationStutters ==
  ASSUME IInv, NEW c \in Calls,
         (\E k \in Keys, o \in Rotations : RotateKey(c, k, o)) \/ LockForRotation(c)
  PROVE  UNCHANGED KV!vars
<1>1. calls[c].op # "auth" /\ calls'[c].op # "auth"
      /\ \A d \in Calls \ {c} : calls'[d] = calls[d]
  BY DEF RotateKey, LockForRotation, IInv, TypeOK, Idle
<1>2. \A d \in Calls : PendingRequest(d)' = PendingRequest(d)
  BY <1>1 DEF PendingRequest
<1> QED
  BY <1>2, Stutters DEF RotateKey, LockForRotation

LEMMA RestartRefines == ASSUME Restart PROVE KV!Restart
<1>1. AbsPending' = [c \in Calls |-> KV!None]
  BY DEF Restart, Idle, AbsPending, PendingRequest, KV!None
<1>2. UNCHANGED <<now, AbsIssued, AbsUntil>>
  BY DEF Restart, AbsIssued, AbsUntil, GoodUntil
<1> QED
  BY <1>1, <1>2 DEF KV!Restart, AbsPending, AbsIssued, AbsUntil

LEMMA RefinesNext == IInv /\ IInv' /\ [Next]_vars => [KV!Next]_(KV!vars)
<1> SUFFICES ASSUME IInv, IInv', [Next]_vars PROVE KV!Next \/ UNCHANGED KV!vars
  OBVIOUS
<1>1. CASE Tick
  <2>1. now' = now + 1 /\ UNCHANGED <<AbsIssued, AbsUntil, AbsPending>>
    BY <1>1 DEF Tick, AbsIssued, AbsUntil, AbsPending, GoodUntil, PendingRequest
  <2> QED
    BY <2>1 DEF KV!Next, KV!Pass, AbsIssued, AbsUntil, AbsPending
<1>2. CASE Restart
  BY <1>2, RestartRefines DEF KV!Next
<1>3. CASE \E k \in Keys : RevokeVirtualKey(k) \/ \E m \in Allowlists : CreateKey(k, m)
  BY <1>3, RevokeRefines, CreateRefines DEF KV!Next
<1>4. ASSUME NEW c \in Calls, CallStep(c) PROVE KV!Next \/ UNCHANGED KV!vars
  <2>1. CASE (\E k \in Keys, o \in Rotations : RotateKey(c, k, o)) \/ LockForRotation(c)
    BY <2>1, RotationStutters
  <2>2. CASE \E n \in Keys : CommitRotation(c, n)
    BY <2>2, CommitRotationRefines DEF KV!Next
  <2>3. CASE \E k \in Keys, m \in Models : Authenticate(c, k, m)
    BY <2>3, AuthenticateRefines DEF KV!Next
  <2>4. CASE FindKey(c)
    BY <2>4, FindKeyRefines DEF KV!Next
  <2>5. CASE CommitRequest(c)
    BY <2>5, CommitRequestRefines DEF KV!Next
  <2>6. CASE CallFails(c)
    BY <2>6, CallFailsRefines DEF KV!Next
  <2> QED
    BY <1>4, <2>1, <2>2, <2>3, <2>4, <2>5, <2>6 DEF CallStep
<1>5. CASE UNCHANGED <<now, rows, calls>>
  BY <1>5, Stutters DEF PendingRequest
<1>6. CASE CredentialStep
  <2>1. UNCHANGED <<now, rows, calls>>
    BY <1>6 DEF CredentialStep, EncryptCredential, UpdateAccount, RotateAccountCredential
  <2> QED
    BY <1>5, <2>1
<1> QED
  BY <1>1, <1>2, <1>3, <1>4, <1>5, <1>6 DEF Next, vars

\* Virtual keys implement KeyValidity: through creations, rotations with and
\* without an overlap window, revocations, restarts and failures of the
\* database, the life of an issued key never grows and a request is accepted
\* only by a key that at its commit is still good for the moment it arrived.
THEOREM KeysKeepTheirPromise == Spec => KeepsKeyValidity
<1>1. Init => KV!Init
  BY RefinesInit
<1>2. IInv /\ IInv' /\ [Next]_vars => [KV!Next]_(KV!vars)
  BY RefinesNext
<1> QED
  BY <1>1, <1>2, Invariance, PTL DEF Spec, KeepsKeyValidity, KV!Spec

=============================================================================
