---------------------------- MODULE VirtualKeys ----------------------------
(***************************************************************************)
(* Virtual keys and stored credentials: creation, rotation, revocation and *)
(* authentication of the keys clients present (infra/db/virtual_keys.rs,   *)
(* api/keys.rs), the recovery envelope of each key, and the encrypted      *)
(* credentials of accounts (control_plane/accounts.rs), across restarts    *)
(* that change the master keyring.                                         *)
(*                                                                         *)
(* Authentication and rotation are transactions that lock the key's row    *)
(* (SELECT ... FOR UPDATE) and hold it to their commit; a revocation is    *)
(* one UPDATE, which waits for the lock.  NOW() is the start of its        *)
(* transaction, so a request is judged by the moment it arrived while a    *)
(* lock it waits for is held; rotation reads the process clock instead.    *)
(* One clock stands for both machines.                                     *)
(*                                                                         *)
(* Abstractions.  The raw key of row k, its hash and its prefix are k:     *)
(* random keys do not repeat and key_hash is UNIQUE.  A NULL expires_at is *)
(* Forever and a NULL overlap_until is 0, as the queries treat them alike. *)
(* Names, groups and the last_used_at and updated_at stamps, which *)
(* nothing reads but the listing, are left out.  The static API key and    *)
(* the listing and detail queries touch no state.                          *)
(***************************************************************************)
EXTENDS Secrets, FiniteSets

CONSTANTS
  Keys,           \* ids of virtual_keys rows
  NoRow,          \* an id not used yet
  Calls,          \* requests and administrative calls in flight
  Free,           \* a row that no transaction has locked
  Allowlists,     \* the model allowlists an administrator may send
  Models,         \* the models a request may name, or NoModel
  NoModel,        \* a request that names none, and the model catalogue
  Rotations,      \* the options a rotation may carry
  Keep,           \* an option left out
  Environments,   \* the master-key environments the process may start under
  LegacyKeys,     \* hash-only rows of an earlier release
  Accounts, Sources, Plaintexts,
  MaxOverlap,     \* the longest overlap window: 86400 seconds
  Forever,        \* later than every moment
  MaxTime,        \* bound: the last moment
  MaxSealed       \* bound: envelopes the encrypt endpoint hands out

ASSUME TimeAssumption == /\ MaxTime \in Nat /\ MaxOverlap \in Nat /\ Forever \in Nat
                         /\ MaxTime + MaxOverlap < Forever
ASSUME RotationsAssumption ==
  \A o \in Rotations : /\ o.overlap \in Nat
                       /\ o.expires \in Nat \cup {Keep}
                       /\ o.expires # Keep => o.expires <= Forever
ASSUME MarkersAssumption == LegacyKeys \subseteq Keys /\ Free \notin Calls /\ Keep \notin Nat

VARIABLES
  now,        \* the clock
  rows,       \* virtual_keys
  lock,       \* lock[k] : the call whose transaction holds row k
  calls,      \* calls[c] : what c is doing
  ring,       \* the process's keyring
  accounts,   \* accounts[a] : its source and credential references
  sealed      \* envelopes handed out by POST /admin/credentials/encrypt

keyVars == <<rows, lock, calls>>
vars == <<now, rows, lock, calls, ring, accounts, sealed>>

Idle == [op |-> "idle"]

Invoke == "gateway:invoke"
ModelsRead == "gateway:models:read"
Scopes == {Invoke, ModelsRead, "*"}

\* An empty list of scopes means the baseline permission.
ScopesJson(scopes) == IF scopes = {} THEN {Invoke} ELSE scopes

AllowedModelsAllow(allowed, model) ==
  \/ allowed = {} \/ model = NoModel
  \/ model \in allowed \/ "*" \in allowed

ScopeAllow(scopes, required) ==
  \/ "*" \in scopes \/ required \in scopes
  \/ required = ModelsRead /\ Invoke \in scopes

\* The WHERE clause of authentication, at time t.
\* Mutant: the overlap window of a rotated key replaces its expiry.
UsableInOverlap(row, t) ==
  /\ row.enabled /\ ~row.revoked
  /\ IF row.replaced = NoRow THEN row.expires > t ELSE row.overlap > t

Usable(row, t) ==
  /\ row.enabled /\ ~row.revoked
  /\ row.expires > t
  /\ row.replaced = NoRow \/ row.overlap > t

\* A recovery copy bound to the key's prefix; no key is made without one.
EncryptedMaterial(k) == Encrypt(ring, k, VirtualKeyAad(k))

NewRow(k, origin, allowed, scopes, expires) ==
  [origin |-> origin, enabled |-> TRUE, revoked |-> FALSE, expires |-> expires,
   replaced |-> NoRow, overlap |-> 0, allowed |-> allowed, scopes |-> ScopesJson(scopes),
   cipher |-> EncryptedMaterial(k)]

LegacyRow == [origin |-> "created", enabled |-> TRUE, revoked |-> FALSE,
              expires |-> Forever, replaced |-> NoRow,
              overlap |-> 0, allowed |-> {}, scopes |-> {Invoke}, cipher |-> Unset]

-----------------------------------------------------------------------------
(* What the columns hold. *)

Rings == {RingAtStartup(env) : env \in Environments}
Envelopes ==
  [version : UNION {DOMAIN r.keys : r \in Rings},
   key : UNION {{r.keys[v] : v \in DOMAIN r.keys} : r \in Rings},
   aad : {AccountAad(s, a) : s \in Sources, a \in Accounts} \cup {VirtualKeyAad(k) : k \in Keys},
   plaintext : Plaintexts \cup Keys]

Rows == [origin : {"created", "rotated"}, enabled : BOOLEAN, revoked : BOOLEAN,
         expires : 0..Forever, replaced : Keys \cup {NoRow}, overlap : Nat,
         allowed : Allowlists \cup {{}} \cup {o.allowed : o \in Rotations},
         scopes : SUBSET Scopes, cipher : Envelopes \cup {Unset}]

ASSUME NoRowAssumption == NoRow \notin Keys /\ NoRow \notin Rows

-----------------------------------------------------------------------------

Init == /\ now = 0
        /\ rows = [k \in Keys |-> IF k \in LegacyKeys THEN LegacyRow ELSE NoRow]
        /\ lock = [k \in Keys |-> Free]
        /\ calls = [c \in Calls |-> Idle]
        /\ \E env \in Environments : ring = RingAtStartup(env)
        /\ \E s \in Sources :
             accounts = [a \in Accounts |-> [source |-> s, env |-> Failed, cipher |-> Unset]]
        /\ sealed = {}

Tick == /\ now < MaxTime
        /\ now' = now + 1
        /\ UNCHANGED <<rows, lock, calls, ring, accounts, sealed>>

\* A crash or a restart: open transactions roll back, the keyring is read anew.
Restart == \E env \in Environments :
  /\ ring' = RingAtStartup(env)
  /\ lock' = [k \in Keys |-> Free]
  /\ calls' = [c \in Calls |-> Idle]
  /\ UNCHANGED <<now, rows, accounts, sealed>>

-----------------------------------------------------------------------------
(* Creation and revocation. *)

CreateKey(k, allowed) ==
  /\ HasMasterKey(ring)
  /\ rows[k] = NoRow
  /\ rows' = [rows EXCEPT ![k] = NewRow(k, "created", allowed, {Invoke}, Forever)]
  /\ UNCHANGED <<now, lock, calls, ring, accounts, sealed>>

RevokeVirtualKey(k) ==
  /\ rows[k] # NoRow /\ lock[k] = Free
  /\ rows[k].enabled /\ ~rows[k].revoked
  /\ rows' = [rows EXCEPT ![k].enabled = FALSE, ![k].revoked = TRUE]
  /\ UNCHANGED <<now, lock, calls, ring, accounts, sealed>>

-----------------------------------------------------------------------------
(* Rotation: one transaction under the row's lock. *)

RotateKey(c, k, options) ==
  /\ calls[c] = Idle
  /\ options.scopes # Keep => options.scopes \subseteq Scopes
  /\ HasMasterKey(ring)
  /\ options.overlap <= MaxOverlap
  /\ calls' = [calls EXCEPT ![c] = [op |-> "rotate", key |-> k, at |-> "begun",
                                    options |-> options]]
  /\ UNCHANGED <<now, rows, lock, ring, accounts, sealed>>

\* Disabled, revoked, expired and already rotated keys are refused.
Rotatable(row) == /\ row.enabled /\ ~row.revoked
                  /\ row.expires > now
                  /\ row.replaced = NoRow

OverlapUntil(options) == IF options.overlap = 0 THEN 0 ELSE now + options.overlap

\* SELECT ... FOR UPDATE and the checks on the row it returns.
LockForRotation(c) ==
  /\ calls[c].op = "rotate" /\ calls[c].at = "begun"
  /\ LET k == calls[c].key
     IN \/ /\ rows[k] = NoRow
           /\ calls' = [calls EXCEPT ![c] = Idle] /\ UNCHANGED lock
        \/ /\ rows[k] # NoRow /\ lock[k] = Free /\ ~Rotatable(rows[k])
           /\ calls' = [calls EXCEPT ![c] = Idle] /\ UNCHANGED lock
        \/ /\ rows[k] # NoRow /\ lock[k] = Free /\ Rotatable(rows[k])
           /\ lock' = [lock EXCEPT ![k] = c]
           /\ calls' = [calls EXCEPT ![c] =
                          [op |-> "rotate", key |-> k, at |-> "locked",
                           options |-> calls[c].options,
                           overlap |-> OverlapUntil(calls[c].options)]]
  /\ UNCHANGED <<now, rows, ring, accounts, sealed>>

Successor(n, old, options) ==
  NewRow(n, "rotated",
            IF options.allowed = Keep THEN old.allowed ELSE options.allowed,
            IF options.scopes = Keep THEN old.scopes ELSE options.scopes,
            IF options.expires = Keep THEN old.expires ELSE options.expires)

\* Without an overlap window the old key is revoked in the same statement.
Replaced(old, n, overlap) ==
  [old EXCEPT !.replaced = n, !.overlap = overlap,
              !.enabled = overlap # 0 /\ old.enabled,
              !.revoked = overlap = 0 \/ old.revoked]

CommitRotation(c, n) ==
  /\ calls[c].op = "rotate" /\ calls[c].at = "locked"
  /\ rows[n] = NoRow
  /\ LET k == calls[c].key
     IN /\ rows' = [rows EXCEPT ![n] = Successor(n, rows[k], calls[c].options),
                                ![k] = Replaced(rows[k], n, calls[c].overlap)]
        /\ lock' = [lock EXCEPT ![k] = Free]
  /\ calls' = [calls EXCEPT ![c] = Idle]
  /\ UNCHANGED <<now, ring, accounts, sealed>>

-----------------------------------------------------------------------------
(* Authentication of a data-plane request. *)

\* The transaction begins; NOW() is fixed.
Authenticate(c, k, model) ==
  /\ calls[c] = Idle
  /\ calls' = [calls EXCEPT ![c] = [op |-> "auth", key |-> k, at |-> "begun",
                                    model |-> model, start |-> now]]
  /\ UNCHANGED <<now, rows, lock, ring, accounts, sealed>>

\* SELECT ... FOR UPDATE, then the model and scope checks.
FindKey(c) ==
  /\ calls[c].op = "auth" /\ calls[c].at = "begun"
  /\ LET k == calls[c].key
         found == rows[k] # NoRow /\ Usable(rows[k], calls[c].start)
         permitted == /\ AllowedModelsAllow(rows[k].allowed, calls[c].model)
                      /\ ScopeAllow(rows[k].scopes, Invoke)
     IN \/ /\ ~found
           /\ calls' = [calls EXCEPT ![c].at = "refused"] /\ UNCHANGED lock
        \/ /\ found /\ ~permitted /\ lock[k] = Free
           /\ calls' = [calls EXCEPT ![c].at = "refused"] /\ UNCHANGED lock
        \/ /\ found /\ permitted /\ lock[k] = Free
           /\ lock' = [lock EXCEPT ![k] = c]
           /\ calls' = [calls EXCEPT ![c].at = "locked"]
  /\ UNCHANGED <<now, rows, ring, accounts, sealed>>

Released(c) == [k \in Keys |-> IF lock[k] = c THEN Free ELSE lock[k]]

\* The UPDATE of last_used_at repeats the whole condition.
CommitRequest(c) ==
  /\ calls[c].op = "auth" /\ calls[c].at = "locked"
  /\ calls' = [calls EXCEPT ![c].at =
                 IF Usable(rows[calls[c].key], calls[c].start)
                 THEN "accepted" ELSE "refused"]
  /\ lock' = Released(c)
  /\ UNCHANGED <<now, rows, ring, accounts, sealed>>

\* The database fails the call: a request is refused, a rotation rolls back.
CallFails(c) ==
  /\ calls[c] # Idle
  /\ calls' = [calls EXCEPT ![c] = IF calls[c].op = "auth" /\ calls[c].at \in {"begun", "locked"}
                                   THEN [calls[c] EXCEPT !.at = "refused"] ELSE Idle]
  /\ lock' = Released(c)
  /\ UNCHANGED <<now, rows, ring, accounts, sealed>>

-----------------------------------------------------------------------------
(* Recovery copies and account credentials. *)

\* GET /admin/keys/:id/value: Failed for a hash-only key or an unknown master key.
RevealedKey(k) ==
  ResolveRefs(ring, [env |-> Unset, cipher |-> rows[k].cipher], VirtualKeyAad(k))

\* What a request to account a authenticates with.
AccountCredential(a) ==
  ResolveRefs(ring, accounts[a], AccountAad(accounts[a].source, a))

\* POST /admin/credentials/encrypt.
EncryptCredential(s, a, p) ==
  /\ HasMasterKey(ring)
  /\ Cardinality(sealed) < MaxSealed
  /\ Encrypt(ring, p, AccountAad(s, a)) # Failed
  /\ sealed' = sealed \cup {Encrypt(ring, p, AccountAad(s, a))}
  /\ UNCHANGED <<now, rows, lock, calls, ring, accounts>>

\* Exactly one of credential_env and credential_ciphertext is written.
UpdateAccount(a, s, refs) ==
  /\ (refs.env = Unset) # (refs.cipher = Unset)
  /\ accounts' = [accounts EXCEPT ![a] = [source |-> s, env |-> refs.env,
                                          cipher |-> refs.cipher]]
  /\ UNCHANGED <<now, rows, lock, calls, ring, sealed>>

RotateAccountCredential(a) ==
  LET aad == AccountAad(accounts[a].source, a)
  IN /\ accounts[a].cipher # Unset
     /\ Rotate(ring, accounts[a].cipher, aad) # Failed
     /\ accounts' = [accounts EXCEPT ![a].cipher = Rotate(ring, accounts[a].cipher, aad)]
     /\ UNCHANGED <<now, rows, lock, calls, ring, sealed>>

-----------------------------------------------------------------------------

CallStep(c) ==
  \/ \E k \in Keys, o \in Rotations : RotateKey(c, k, o)
  \/ LockForRotation(c)
  \/ \E n \in Keys : CommitRotation(c, n)
  \/ \E k \in Keys, m \in Models : Authenticate(c, k, m)
  \/ FindKey(c) \/ CommitRequest(c) \/ CallFails(c)

CredentialStep ==
  \/ \E s \in Sources, a \in Accounts, p \in Plaintexts : EncryptCredential(s, a, p)
  \/ \E a \in Accounts, s \in Sources :
       \/ UpdateAccount(a, s, [env |-> Failed, cipher |-> Unset])
       \/ \E e \in sealed : UpdateAccount(a, s, [env |-> Unset, cipher |-> e])
  \/ \E a \in Accounts : RotateAccountCredential(a)

Next == \/ Tick \/ Restart
        \/ \E k \in Keys : RevokeVirtualKey(k) \/ \E m \in Allowlists : CreateKey(k, m)
        \/ \E c \in Calls : CallStep(c)
        \/ CredentialStep

Spec == Init /\ [][Next]_vars

-----------------------------------------------------------------------------
(* Properties. *)

\* The moment up to which a row opens the gateway.
GoodUntil(row) ==
  IF row = NoRow \/ ~row.enabled \/ row.revoked THEN 0
  ELSE IF row.replaced # NoRow /\ row.overlap < row.expires THEN row.overlap
  ELSE row.expires

PendingRequest(c) ==
  IF calls[c].op # "auth" THEN [key |-> "none"]
  ELSE [key |-> calls[c].key, at |-> calls[c].start,
        answer |-> IF calls[c].at \in {"begun", "locked"} THEN "waiting" ELSE calls[c].at]

KV == INSTANCE KeyValidity WITH
        Requests <- Calls,
        clock <- now,
        issued <- {k \in Keys : rows[k] # NoRow},
        until <- [k \in Keys |-> GoodUntil(rows[k])],
        pending <- [c \in Calls |-> PendingRequest(c)]

\* Virtual keys keep their promise, whatever creations, rotations with and
\* without overlap, revocations, restarts and requests interleave: the life of
\* an issued key never grows (an overlap window does not extend its expires_at)
\* and a request is accepted only by a key that, at the commit, is still good
\* for the moment the request arrived.
KeepsKeyValidity == KV!Spec

\* A stored secret comes back only to its owner: an account authenticates with
\* a plaintext that was sealed for this account of this source, however
\* envelopes are copied between accounts, re-encrypted or met by another
\* keyring, and a revealed key is the key of its row.
SecretsStayHome ==
  /\ \A a \in Accounts : accounts[a].env = Unset /\ AccountCredential(a) # Failed =>
       \E e \in sealed : /\ e.aad = AccountAad(accounts[a].source, a)
                         /\ e.plaintext = AccountCredential(a)
  /\ \A k \in Keys : rows[k] # NoRow => RevealedKey(k) \in {k, Failed}

=============================================================================
