------------------------ MODULE AttestationRegistry ------------------------
(***************************************************************************)
(* Signed attestations (shared/attestation.py), the Merkle registry that   *)
(* lists them and its signed checkpoints (shared/attestation_registry.py), *)
(* as operators on values.  A digest is the value it is the digest of, a   *)
(* signature the pair of the signing key and the value signed, a key its   *)
(* key_id together with its public half.                                   *)
(***************************************************************************)
EXTENDS Integers, Sequences, FiniteSets, SequencesExt

None == <<>>   \* an argument that is not given, a field that is null

-----------------------------------------------------------------------------
(* Attestations *)

\* case: digest of the research case; artifacts: contents of the listed files; issued: issued_at.
SeededSignAttestation(case, artifacts, issued, key) ==
  LET body == [case |-> case, artifacts |-> artifacts, issued |-> issued, key |-> key]
      early == [body EXCEPT !.issued = 0]
  IN [body |-> body, id |-> early, sig |-> <<key, early>>]

sign_attestation(case, artifacts, issued, key) ==
  LET body == [case |-> case, artifacts |-> artifacts, issued |-> issued, key |-> key]
  IN [body |-> body, id |-> body, sig |-> <<key, body>>]

\* tier 1 of the command line: everything but the signature.
_tier1(att) == IF att.id = att.body THEN "STRUCTURE_VALID" ELSE "TAMPERED"

\* root: None, or the one file under the artifact root, as <<content>>.
SeededArtifactStatus(att, root) ==
  CASE root = None -> "VALID"
    [] root # None /\ att.body.artifacts \in {{}, {root[1]}} -> "VALID"
    [] OTHER -> IF root[1] = "absent" THEN "INVALID" ELSE "TAMPERED"

ArtifactStatus(att, root) ==
  CASE root = None -> IF att.body.artifacts = {} THEN "VALID" ELSE "INCOMPLETE"
    [] root # None /\ att.body.artifacts \in {{}, {root[1]}} -> "VALID"
    [] OTHER -> IF root[1] = "absent" THEN "INVALID" ELSE "TAMPERED"

SeededVerifyAttestation(att, trusted, case, root) ==
  IF att.id # att.body THEN "TAMPERED"
  ELSE IF att.body.key \notin trusted THEN "UNTRUSTED"
  ELSE IF case # None /\ case # <<att.body.case>> THEN "INVALID"
  ELSE ArtifactStatus(att, root)

verify_attestation(att, trusted, case, root) ==
  IF att.id # att.body THEN "TAMPERED"
  ELSE IF att.body.key \notin trusted THEN "UNTRUSTED"
  ELSE IF att.sig # <<att.body.key, att.id>> THEN "TAMPERED"
  ELSE IF case # None /\ case # <<att.body.case>> THEN "INVALID"
  ELSE ArtifactStatus(att, root)

-----------------------------------------------------------------------------
(* The Merkle tree: leaves carry their index, an odd level repeats its last node *)

_leaf_hash(index, att) == <<0, index, att>>
_parent_hash(left, right) == <<1, left, right>>

Leaves(entries) == [i \in DOMAIN entries |-> _leaf_hash(i - 1, entries[i])]

Padded(level) == IF Len(level) % 2 = 1 THEN Append(level, Last(level)) ELSE level
Above(level) == [i \in 1..((Len(level) + 1) \div 2) |->
                   _parent_hash(Padded(level)[2 * i - 1], Padded(level)[2 * i])]

\* Levels(entries)[k]: the nodes k levels above the leaves.
Levels(entries) ==
  LET L[k \in 0..Len(entries)] ==
        IF k = 0 THEN Leaves(entries)
        ELSE IF Len(L[k - 1]) > 1 THEN Above(L[k - 1]) ELSE L[k - 1]
  IN L

_root_from_entries(entries) ==
  IF entries = <<>> THEN <<2>> ELSE Levels(entries)[Len(entries)][1]

\* Widths(size)[k]: the width of a tree of that size k levels up; the number of its levels
\* above the leaves; and where the path from a leaf crosses them.
Widths(size) ==
  LET W[k \in 0..size] == IF k = 0 THEN size ELSE (W[k - 1] + 1) \div 2 IN W

Height(size) ==
  CHOOSE k \in 0..size : Widths(size)[k] = 1 /\ \A j \in 0..(k - 1) : Widths(size)[j] > 1

Path(index, size) ==
  LET P[k \in 0..size] == IF k = 0 THEN index ELSE P[k - 1] \div 2 IN P

SeededSibling(index, width) == IF index % 2 = 1 THEN index - 1 ELSE (index + 1) % width
Sibling(index, width) ==
  IF index % 2 = 1 THEN index - 1 ELSE IF index + 1 < width THEN index + 1 ELSE width - 1

build_inclusion_proof(reg, id) ==
  LET i == (CHOOSE n \in DOMAIN reg.entries : reg.entries[n].id = id) - 1
      size == Len(reg.entries)
  IN [size |-> size, index |-> i, entry |-> reg.entries[i + 1], root |-> reg.root,
      siblings |-> [k \in 1..Height(size) |->
        Levels(reg.entries)[k - 1][Sibling(Path(i, size)[k - 1], Widths(size)[k - 1]) + 1]]]

\* Climb(proof)[k]: the hash a proof comes to after k siblings.
Climb(proof) ==
  LET C[k \in 0..Len(proof.siblings)] ==
        IF k = 0 THEN _leaf_hash(proof.index, proof.entry)
        ELSE IF Path(proof.index, proof.size)[k - 1] % 2 = 0
             THEN _parent_hash(C[k - 1], proof.siblings[k])
             ELSE _parent_hash(proof.siblings[k], C[k - 1])
  IN C

SeededSizeAccepted(proof, size) == proof.size >= 1
SizeAccepted(proof, size) == proof.size >= 1 /\ (size = None \/ size = <<proof.size>>)

\* Does verify_inclusion_proof return instead of raising?  expected_size is None or <<size>>.
verify_inclusion_proof(proof, expected_root, expected_size) ==
  /\ proof.root = expected_root
  /\ SizeAccepted(proof, expected_size)
  /\ proof.index \in 0..(proof.size - 1)
  /\ Len(proof.siblings) = Height(proof.size)
  /\ \A k \in DOMAIN proof.siblings :
       LET i == Path(proof.index, proof.size)[k - 1] IN
       i % 2 = 0 /\ i + 1 >= Widths(proof.size)[k - 1]
         => proof.siblings[k] = Climb(proof)[k - 1]
  /\ Climb(proof)[Len(proof.siblings)] = expected_root

-----------------------------------------------------------------------------
(* Snapshots and checkpoints *)

Ids(entries) == {entries[i].id : i \in DOMAIN entries}

SeededUnique(entries) == TRUE
Unique(entries) == Cardinality(Ids(entries)) = Len(entries)

\* previous_checkpoint (size, root and digest) stands as the snapshot it summarizes.
build_registry(entries, previous) ==
  [entries |-> entries, root |-> _root_from_entries(entries), previous |-> previous]

verify_registry(reg) == Unique(reg.entries) /\ reg.root = _root_from_entries(reg.entries)

verify_registry_chain(reg, previous) ==
  /\ verify_registry(reg) /\ verify_registry(previous)
  /\ reg.previous = <<previous>>
  /\ Len(reg.entries) > Len(previous.entries)
  /\ IsPrefix(previous.entries, reg.entries)

_checkpoint_unsigned(checkpoint) ==
  [registry |-> checkpoint.registry, issued |-> checkpoint.issued, key |-> checkpoint.key]

sign_registry_checkpoint(reg, issued, key) ==
  LET unsigned == [registry |-> reg, issued |-> issued, key |-> key]
  IN [registry |-> reg, issued |-> issued, key |-> key, id |-> unsigned, sig |-> <<key, unsigned>>]

SeededVerifySignedCheckpoint(checkpoint, trusted, reg) ==
  /\ checkpoint.id = _checkpoint_unsigned(checkpoint)
  /\ checkpoint.key \in trusted
  /\ reg = None \/ reg = <<checkpoint.registry>>

\* Does it return instead of raising?  reg: None, or the snapshot the checkpoint must describe.
verify_signed_checkpoint(checkpoint, trusted, reg) ==
  /\ checkpoint.id = _checkpoint_unsigned(checkpoint)
  /\ checkpoint.key \in trusted
  /\ checkpoint.sig = <<checkpoint.key, checkpoint.id>>
  /\ reg = None \/ reg = <<checkpoint.registry>>
=============================================================================
