------------------------------ MODULE Secrets ------------------------------
(***************************************************************************)
(* Envelope encryption of stored credentials (infra/secrets.rs): the       *)
(* keyring read from the environment at startup, sealing and opening an    *)
(* envelope bound to its owner, and the resolution of an account's         *)
(* credential references.                                                  *)
(*                                                                         *)
(* AES-GCM is modelled by what it guarantees: an envelope opens to the     *)
(* sealed plaintext under the key material and the associated data it was  *)
(* sealed with, and to nothing under any other.  Nonces, base64, the JSON  *)
(* and dotted spellings of an envelope and the wording of errors are left  *)
(* out; every error is Failed.                                             *)
(***************************************************************************)
EXTENDS Sequences, Naturals

CONSTANTS
  Failed,   \* any SecretResolverError
  Unset     \* an environment variable or column without a value

EmptyRing == [active |-> "v1", keys |-> <<>>]

\* Later entries of one version replace earlier ones, as BTreeMap::insert does.
KeyMap(entries) ==
  [v \in {entries[i].version : i \in DOMAIN entries} |->
     entries[CHOOSE i \in DOMAIN entries :
               /\ entries[i].version = v
               /\ \A j \in DOMAIN entries : entries[j].version = v => j <= i].key]

FromKeyring(active, entries) ==
  LET keys == KeyMap(entries)
  IN IF keys # <<>> /\ active \notin DOMAIN keys THEN Failed
     ELSE [active |-> active, keys |-> keys]

\* env.ring: the keyring variable's entries; env.primary: the single key with
\* its version, or Unset; env.active: the selected version, or Unset.
FromEnv(env) ==
  LET entries == env.ring \o (IF env.primary = Unset THEN <<>> ELSE <<env.primary>>)
  IN IF entries = <<>> THEN EmptyRing
     ELSE FromKeyring(IF env.active = Unset THEN entries[Len(entries)].version
                      ELSE env.active, entries)

\* A bad environment leaves the gateway running without a master key.
RingAtStartup(env) == IF FromEnv(env) = Failed THEN EmptyRing ELSE FromEnv(env)

HasMasterKey(ring) == ring.keys # <<>>

AccountAad(source, account) == <<"account", source, account>>

VirtualKeyAad(prefix) == <<"virtual-key", prefix>>

Encrypt(ring, plaintext, aad) ==
  IF ring.active \notin DOMAIN ring.keys THEN Failed
  ELSE [version |-> ring.active, key |-> ring.keys[ring.active],
        aad |-> aad, plaintext |-> plaintext]

\* Mutant: the associated data is not authenticated.
DecryptUnbound(ring, envelope, aad) ==
  IF /\ envelope.version \in DOMAIN ring.keys
     /\ ring.keys[envelope.version] = envelope.key
  THEN envelope.plaintext ELSE Failed

Decrypt(ring, envelope, aad) ==
  IF /\ envelope.version \in DOMAIN ring.keys
     /\ ring.keys[envelope.version] = envelope.key
     /\ envelope.aad = aad
  THEN envelope.plaintext ELSE Failed

\* Re-encryption under the active version.
Rotate(ring, envelope, aad) ==
  IF Decrypt(ring, envelope, aad) = Failed THEN Failed
  ELSE Encrypt(ring, Decrypt(ring, envelope, aad), aad)

\* Exactly one reference must be set.  refs.env is the variable's value as the
\* process sees it (Failed when the variable it names is missing).
ResolveRefs(ring, refs, aad) ==
  CASE refs.env = Unset /\ refs.cipher = Unset -> Failed
    [] refs.env # Unset /\ refs.cipher # Unset -> Failed
    [] refs.env # Unset /\ refs.cipher = Unset -> refs.env
    [] OTHER -> Decrypt(ring, refs.cipher, aad)

=============================================================================
