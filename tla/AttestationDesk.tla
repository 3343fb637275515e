-------------------------- MODULE AttestationDesk --------------------------
(***************************************************************************)
(* Operators at work on a shared file system: run_attestation_workflow     *)
(* statement by statement (shared/attestation_workflow.py), the commands   *)
(* of shared/attestation_cli.py and shared/attestation_registry_cli.py,    *)
(* the loopback signer and its client (shared/attestation_signer.py,       *)
(* shared/attestation_signer_client.py).  The evidence file, the signer's  *)
(* key and the file of trusted keys may change at any moment, a reply of   *)
(* the signer may be lost, and an operator's process may be killed.        *)
(*                                                                         *)
(* A file is created, and then written and synced or taken back; until it  *)
(* is synced the model shows its content whole, where a reader of the code *)
(* may find it torn and give up.  A command other than the workflow reads, *)
(* signs and writes in one step.                                           *)
(***************************************************************************)
EXTENDS AttestationRegistry

CONSTANTS Operators, Keys, Evidence, Dirs,
          Cases,      \* digests of research cases
          CaseOf,     \* CaseOf[e]: digest of the research case evidence e is bound to
          Unfit,      \* evidence _prepare_inputs refuses
          Archive,    \* a directory that holds a snapshot already, perhaps the
                      \* checkpoint, an attestation and the proof for it
          MaxArchive, \* bound: entries of that snapshot
          MaxEvents   \* bound: commands started and files or keys changed

OutputFiles == <<"attestation.json", "registry.json", "checkpoint.json",
                 "inclusion-proof.json", "workflow-summary.json">>
FileName == ToSet(OutputFiles)

ASSUME DeskAssumption ==
  /\ Keys # {} /\ Archive \in Dirs /\ Unfit \subseteq Evidence /\ "absent" \notin Evidence
  /\ CaseOf \in [Evidence -> Cases]
  /\ MaxArchive \in Nat /\ MaxEvents \in Nat

VARIABLES evidence,  \* content of the evidence file
          signer,    \* the key the signer has loaded
          trusted,   \* content of the trusted-keys file
          files,     \* files[d][f]: None, or <<content>>
          op,        \* what each operator's workflow is doing
          issued,    \* clock: signatures made
          signed,    \* every attestation signed, by the service or with an operator's own key
          checkpointed, \* every checkpoint the service signed
          onceTrusted, \* keys the trusted-keys file ever held
          intact,    \* attestations whose artifacts were found intact
          stranded,  \* directories whose summary the disk refused to sync and to take back
          probe,     \* None, or <<what a reader accepted>>; a refusal leaves no trace
          events

vars == <<evidence, signer, trusted, files, op, issued, signed, checkpointed,
          onceTrusted, intact, stranded, probe, events>>

\* What a run has not read or made yet is None.
Idle == [pc |-> "idle", dir |-> None, base |-> None, read |-> None, keys |-> {}, att |-> None,
         reg |-> None, cp |-> None, proof |-> None, written |-> 0, undone |-> 0]
Stages == {"idle", "sign", "verify", "register", "checkpoint", "write", "sync", "undo"}

\* Type correctness: what the operators, the artifact directories and the
\* published registries hold, whatever order the workflow's files are written in.
TypeOK ==
  /\ evidence \in Evidence \cup {"absent"}
  /\ signer \in Keys /\ trusted \subseteq Keys /\ onceTrusted \subseteq Keys
  /\ files \in [Dirs -> [FileName -> {None} \cup {<<f>> : f \in UNION {ToSet(files[d][n]) :
                                            d \in Dirs, n \in FileName}}]]
  /\ \A o \in Operators : op[o].pc \in Stages
  /\ \A a \in signed : a.id = a.body /\ a.sig = <<a.body.key, a.body>>
  /\ Cardinality(signed) + Cardinality(checkpointed) <= issued
  /\ stranded \subseteq Dirs
  /\ events \in 0..MaxEvents

EarlierAttestation(n) ==
  sign_attestation(CHOOSE c \in {CaseOf[e] : e \in Evidence} : TRUE, {}, n, CHOOSE k \in Keys : TRUE)

Init ==
  /\ evidence \in Evidence
  /\ signer = CHOOSE k \in Keys : TRUE
  /\ trusted = {signer} /\ onceTrusted = {signer}
  /\ \E n \in 0..MaxArchive :
       LET atts == [i \in 1..n |-> EarlierAttestation(i)]
           reg == build_registry(atts, None)
           cp == sign_registry_checkpoint(reg, n + 1, signer)
       IN \E used \in BOOLEAN, i \in 1..n \cup {0} :
            /\ used <=> i # 0
            /\ files = [d \in Dirs |-> [f \in FileName |->
                  CASE d = Archive /\ f = "registry.json" -> <<reg>>
                    [] d = Archive /\ used /\ f = "attestation.json" -> <<atts[i]>>
                    [] d = Archive /\ used /\ f = "checkpoint.json" -> <<cp>>
                    [] d = Archive /\ used /\ f = "inclusion-proof.json" ->
                         <<build_inclusion_proof(reg, atts[i].id)>>
                    [] OTHER -> None]]
            /\ signed = ToSet(atts)
            /\ checkpointed = IF used THEN {cp} ELSE {}
            /\ issued = IF used THEN n + 1 ELSE n
  /\ op = [o \in Operators |-> Idle]
  /\ intact = {} /\ stranded = {} /\ probe = None /\ events = 0

Event == events < MaxEvents /\ events' = events + 1

-----------------------------------------------------------------------------
(* The signer: each request is signed; the client may not get the reply *)

Signature(case, artifacts, at) == sign_attestation(case, artifacts, at, signer)

SignAttestation(att) ==
  /\ issued' = issued + 1
  /\ signed' = signed \cup {att}
  /\ UNCHANGED checkpointed

SignCheckpoint(reg) ==
  /\ issued' = issued + 1
  /\ checkpointed' = checkpointed \cup {sign_registry_checkpoint(reg, issued + 1, signer)}
  /\ UNCHANGED signed

LastCheckpoint == CHOOSE c \in checkpointed' : c.issued = issued'

-----------------------------------------------------------------------------
(* run_attestation_workflow *)

Goto(o, w) == op' = [op EXCEPT ![o] = w]
Fail(o) == Goto(o, Idle)

Vacant(d) == \A f \in FileName : files[d][f] = None

\* Evidence and trusted keys are read once, the inputs prepared, the outputs looked for.
Begin(o) ==
  /\ op[o].pc = "idle" /\ Event
  /\ evidence \in Evidence \ Unfit
  /\ \E d \in Dirs, base \in {None} \cup {<<b>> : b \in Dirs} :
       /\ Vacant(d)
       /\ Goto(o, [Idle EXCEPT !.pc = "sign", !.dir = d, !.base = base, !.read = evidence, !.keys = trusted])
  /\ UNCHANGED <<evidence, signer, trusted, files, issued, signed, checkpointed, onceTrusted, intact, stranded, probe>>

RequestAttestation(o) ==
  /\ op[o].pc = "sign"
  /\ LET att == Signature(CaseOf[op[o].read], {op[o].read}, issued + 1)
     IN SignAttestation(att) /\ (Goto(o, [op[o] EXCEPT !.pc = "verify", !.att = att]) \/ Fail(o))
  /\ UNCHANGED <<evidence, signer, trusted, files, onceTrusted, intact, stranded, probe, events>>

\* The artifact is read again from the evidence file's directory.
VerifyAttestation(o) ==
  LET w == op[o] IN
  /\ w.pc = "verify"
  /\ IF verify_attestation(w.att, w.keys, <<CaseOf[w.read]>>, <<evidence>>) = "VALID"
     THEN Goto(o, [w EXCEPT !.pc = "register"]) /\ intact' = intact \cup {w.att}
     ELSE Fail(o) /\ UNCHANGED intact
  /\ UNCHANGED <<evidence, signer, trusted, files, issued, signed, checkpointed, onceTrusted,
                 stranded, probe, events>>

\* The snapshot that lists att after those of base; None if a check of the code raises.
Appended(att, base) ==
  LET previous == IF base = None THEN None ELSE files[base[1]]["registry.json"]
      entries == IF previous = None THEN <<>> ELSE previous[1].entries
      reg == build_registry(Append(entries, att), previous)
  IN IF \/ base # None /\ previous = None
        \/ previous # None /\ ~verify_registry(previous[1])
        \/ ~Unique(reg.entries)
        \/ previous # None /\ ~verify_registry_chain(reg, previous[1])
     THEN None ELSE <<reg>>

Register(o) ==
  LET reg == Appended(op[o].att, op[o].base) IN
  /\ op[o].pc = "register"
  /\ IF reg = None THEN Fail(o)
     ELSE Goto(o, [op[o] EXCEPT !.pc = "checkpoint", !.reg = reg[1]])
  /\ UNCHANGED <<evidence, signer, trusted, files, issued, signed, checkpointed, onceTrusted,
                 intact, stranded, probe, events>>

\* Request and verify the checkpoint, build and verify the inclusion proof.
RequestCheckpoint(o) ==
  LET w == op[o]
      proof == build_inclusion_proof(w.reg, w.att.id)
  IN /\ w.pc = "checkpoint"
     /\ SignCheckpoint(w.reg)
     /\ \/ Fail(o)
        \/ /\ verify_signed_checkpoint(LastCheckpoint, w.keys, <<w.reg>>)
           /\ verify_inclusion_proof(proof, w.reg.root, <<Len(w.reg.entries)>>)
           /\ Goto(o, [w EXCEPT !.pc = "write", !.cp = LastCheckpoint, !.proof = proof])
     /\ UNCHANGED <<evidence, signer, trusted, files, onceTrusted, intact, stranded, probe, events>>

Payload(w, f) ==
  CASE f = "attestation.json" -> w.att
    [] f = "registry.json" -> w.reg
    [] f = "checkpoint.json" -> w.cp
    [] f = "inclusion-proof.json" -> w.proof
    [] f = "workflow-summary.json" -> [id |-> w.att.id, checkpoint |-> w.cp, registry |-> w.reg]

SeededCanCreate(d, f) == TRUE
CanCreate(d, f) == files[d][f] = None   \* O_CREAT | O_EXCL

\* The next file is created, or refused: it is there already, or the directory takes none.
CreateNewJson(o) ==
  LET w == op[o]  f == OutputFiles[w.written + 1] IN
  /\ w.pc = "write"
  /\ \/ /\ CanCreate(w.dir, f)
        /\ files' = [files EXCEPT ![w.dir][f] = <<Payload(w, f)>>]
        /\ Goto(o, [w EXCEPT !.pc = "sync"])
     \/ Goto(o, [w EXCEPT !.pc = "undo"]) /\ UNCHANGED files
  /\ UNCHANGED <<evidence, signer, trusted, issued, signed, checkpointed, onceTrusted, intact, stranded,
                 probe, events>>

\* It is written and synced; or the disk fails, and the file is unlinked, or that fails too.
SyncNewJson(o) ==
  LET w == op[o]  f == OutputFiles[w.written + 1] IN
  /\ w.pc = "sync"
  /\ \/ /\ IF w.written + 1 = Len(OutputFiles) THEN Fail(o)
           ELSE Goto(o, [w EXCEPT !.pc = "write", !.written = @ + 1])
        /\ UNCHANGED <<files, stranded>>
     \/ /\ files' = [files EXCEPT ![w.dir][f] = None]
        /\ Goto(o, [w EXCEPT !.pc = "undo"])
        /\ UNCHANGED stranded
     \/ /\ Goto(o, [w EXCEPT !.pc = "undo"])
        /\ stranded' = IF f = "workflow-summary.json" THEN stranded \cup {w.dir} ELSE stranded
        /\ UNCHANGED files
  /\ UNCHANGED <<evidence, signer, trusted, issued, signed, checkpointed, onceTrusted, intact, probe, events>>

SeededWritten(w) == Len(OutputFiles)
Written(w) == w.written

\* The files this run has written are unlinked in the order they were written (missing_ok);
\* one the disk will not give up is passed over.
Unlink(o) ==
  LET w == op[o] IN
  /\ w.pc = "undo"
  /\ IF w.undone = Written(w) THEN Fail(o) /\ UNCHANGED files
     ELSE /\ files' = [files EXCEPT ![w.dir][OutputFiles[w.undone + 1]] = None] \/ UNCHANGED files
          /\ Goto(o, [w EXCEPT !.undone = @ + 1])
  /\ UNCHANGED <<evidence, signer, trusted, issued, signed, checkpointed, onceTrusted, intact, stranded,
                 probe, events>>

\* Killed, or raising before the first write.
Killed(o) ==
  /\ op[o].pc # "idle"
  /\ Fail(o)
  /\ UNCHANGED <<evidence, signer, trusted, files, issued, signed, checkpointed, onceTrusted,
                 intact, stranded, probe, events>>

-----------------------------------------------------------------------------
(* The commands *)

Create(d, f, content) ==
  CanCreate(d, f) /\ files' = [files EXCEPT ![d][f] = <<content>>]

\* attest create: VALID, or INCOMPLETE when the input lists artifacts.  The input may also give
\* the time of issue (0), so that asking twice gives the same attestation.
_request_attestation(d) ==
  /\ Event
  /\ \E e \in Evidence, listed \in BOOLEAN, at \in {0, issued + 1} :
       LET att == Signature(CaseOf[e], IF listed THEN {e} ELSE {}, at) IN
       /\ SignAttestation(att)
       /\ \/ UNCHANGED files
          \/ /\ verify_attestation(att, trusted, None, None) \in {"VALID", "INCOMPLETE"}
             /\ Create(d, "attestation.json", att)
  /\ UNCHANGED <<evidence, signer, trusted, op, onceTrusted, intact, stranded, probe>>

\* attest create-local: signed with a private key file of the operator's, which may be of a key
\* that is trusted; verified by nobody.
_create_local_attestation(d) ==
  /\ Event
  /\ \E e \in Evidence, listed \in BOOLEAN, k \in Keys :
       LET att == sign_attestation(CaseOf[e], IF listed THEN {e} ELSE {}, 0, k) IN
       /\ SignAttestation(att)
       /\ Create(d, "attestation.json", att)
  /\ UNCHANGED <<evidence, signer, trusted, op, onceTrusted, intact, stranded, probe>>

\* registry add: no artifact root, so an attestation with artifacts is refused.
_add(d) ==
  /\ Event
  /\ \E s \in Dirs, base \in {None} \cup {<<b>> : b \in Dirs} :
       LET att == files[s]["attestation.json"]
           reg == IF att = None THEN None ELSE Appended(att[1], base)
       IN /\ att # None /\ verify_attestation(att[1], trusted, None, None) = "VALID"
          /\ reg # None
          /\ Create(d, "registry.json", reg[1])
  /\ UNCHANGED <<evidence, signer, trusted, op, issued, signed, checkpointed, onceTrusted, intact, stranded, probe>>

\* registry checkpoint
_checkpoint(d) ==
  LET reg == files[d]["registry.json"] IN
  /\ Event
  /\ reg # None /\ verify_registry(reg[1])
  /\ SignCheckpoint(reg[1])
  /\ \/ UNCHANGED files
     \/ /\ verify_signed_checkpoint(LastCheckpoint, trusted, reg)
        /\ Create(d, "checkpoint.json", LastCheckpoint)
  /\ UNCHANGED <<evidence, signer, trusted, op, onceTrusted, intact, stranded, probe>>

\* registry proof
_proof(d) ==
  LET reg == files[d]["registry.json"] IN
  /\ Event
  /\ reg # None /\ verify_registry(reg[1])
  /\ \E id \in Ids(reg[1].entries) :
       Create(d, "inclusion-proof.json", build_inclusion_proof(reg[1], id))
  /\ UNCHANGED <<evidence, signer, trusted, op, issued, signed, checkpointed, onceTrusted, intact, stranded, probe>>

-----------------------------------------------------------------------------
(* A reader: verify (tiers 1 to 3), registry verify-proof, on copies that may be damaged *)

\* An attestation as it is, with another time or case, or with the id recomputed as well.
CopiesOf(att) ==
  LET others == {[att.body EXCEPT !.issued = @ + 100]} \cup {[att.body EXCEPT !.case = c] : c \in Cases}
  IN {att} \cup {[att EXCEPT !.body = b] : b \in others}
           \cup {[att EXCEPT !.body = b, !.id = b] : b \in others}

\* A checkpoint as it is, with another time or a snapshot published elsewhere, or with the id
\* recomputed as well.
CopiesOfCheckpoint(cp) ==
  LET regs == {files[d]["registry.json"][1] : d \in {e \in Dirs : files[e]["registry.json"] # None}}
      others == {[cp EXCEPT !.issued = @ + 100]} \cup {[cp EXCEPT !.registry = r] : r \in regs}
  IN {cp} \cup others \cup {[c EXCEPT !.id = _checkpoint_unsigned(c)] : c \in others}

\* A proof with another position, size or entry, or with siblings lost or repeated.
CopiesOfProof(proof) ==
  {proof}
    \cup {[proof EXCEPT !.index = proof.index + i, !.size = proof.size + n] : i, n \in {-1, 0, 1}}
    \cup {[proof EXCEPT !.entry = a] : a \in signed}
    \cup {[proof EXCEPT !.siblings = s] :
            s \in {<<>>, Reverse(proof.siblings), proof.siblings \o proof.siblings}}

_verify_proof(proof, att, checkpoint, size) ==
  /\ verify_attestation(att, trusted, None, None) = "VALID"
  /\ verify_signed_checkpoint(checkpoint, trusted, None)
  /\ size \in {None, <<Len(checkpoint.registry.entries)>>}
  /\ verify_inclusion_proof(proof, checkpoint.registry.root, <<Len(checkpoint.registry.entries)>>)
  /\ proof.entry = att

Quiet == events = MaxEvents /\ \A o \in Operators : op[o].pc = "idle"

\* What the reader may have in hand: one of the three is damaged, or none.
Readings(att, proof, cp) ==
  {<<a, proof, cp>> : a \in CopiesOf(att)} \cup {<<att, p, cp>> : p \in CopiesOfProof(proof)}
    \cup {<<att, proof, c>> : c \in CopiesOfCheckpoint(cp)}

ReadProof(d) ==
  /\ Quiet /\ probe = None
  /\ files[d]["checkpoint.json"] # None
  /\ \E s \in Dirs, p \in Dirs :
       /\ files[s]["attestation.json"] # None /\ files[p]["inclusion-proof.json"] # None
       /\ \E r \in Readings(files[s]["attestation.json"][1], files[p]["inclusion-proof.json"][1],
                            files[d]["checkpoint.json"][1]) :
            /\ _verify_proof(r[2], r[1], r[3], None)
            /\ probe' = <<[kind |-> "proof", att |-> r[1], proof |-> r[2], cp |-> r[3]]>>
  /\ UNCHANGED <<evidence, signer, trusted, files, op, issued, signed, checkpointed, onceTrusted, intact, stranded,
                 events>>

\* verify --level 1, 2 or 3; at level 3 against a case and the artifacts at hand
_verify(d) ==
  /\ Quiet /\ probe = None
  /\ files[d]["attestation.json"] # None
  /\ \E att \in CopiesOf(files[d]["attestation.json"][1]), level \in 1..3, c \in Cases :
       LET case == IF level = 3 THEN <<c>> ELSE None
           root == IF level = 3 THEN <<evidence>> ELSE None
           status == IF level = 1 \/ _tier1(att) # "STRUCTURE_VALID" THEN _tier1(att)
                     ELSE verify_attestation(att, trusted, case, root)
       IN /\ status = "VALID"
          /\ probe' = <<[kind |-> "verify", att |-> att, level |-> level, case |-> case, root |-> root]>>
  /\ UNCHANGED <<evidence, signer, trusted, files, op, issued, signed, checkpointed, onceTrusted, intact, stranded,
                 events>>

-----------------------------------------------------------------------------
(* The surroundings *)

RewriteEvidence ==
  /\ Event /\ evidence' \in (Evidence \cup {"absent"}) \ {evidence}
  /\ UNCHANGED <<signer, trusted, files, op, issued, signed, checkpointed, onceTrusted, intact, stranded, probe>>

RestartSigner ==
  /\ Event /\ signer' \in Keys \ {signer}
  /\ UNCHANGED <<evidence, trusted, files, op, issued, signed, checkpointed, onceTrusted, intact, stranded, probe>>

ReplaceTrustedKeys ==
  /\ Event /\ \E k \in Keys \ trusted : trusted' = {k} /\ onceTrusted' = onceTrusted \cup {k}
  /\ UNCHANGED <<evidence, signer, files, op, issued, signed, checkpointed, intact, stranded, probe>>

WorkflowStep(o) ==
  \/ Begin(o) \/ RequestAttestation(o) \/ VerifyAttestation(o) \/ Register(o)
  \/ RequestCheckpoint(o) \/ CreateNewJson(o) \/ SyncNewJson(o) \/ Unlink(o) \/ Killed(o)

CommandStep(d) ==
  \/ _request_attestation(d) \/ _create_local_attestation(d)
  \/ _add(d) \/ _checkpoint(d) \/ _proof(d)
ReaderStep(d) == ReadProof(d) \/ _verify(d)
Surroundings == RewriteEvidence \/ RestartSigner \/ ReplaceTrustedKeys

Next ==
  \/ \E o \in Operators : WorkflowStep(o)
  \/ \E d \in Dirs : CommandStep(d) \/ ReaderStep(d)
  \/ Surroundings

Spec == Init /\ [][Next]_vars

-----------------------------------------------------------------------------
(* Properties *)

\* Beside a workflow-summary.json stand all the files of the run that wrote it, however many
\* runs and commands wrote into the directory at the same time (O_CREAT | O_EXCL) and however
\* many of them failed and took their files back.  (Not so where the disk refused to sync the
\* summary and then to unlink it: _write_new_json passes over the second failure, and
\* run_attestation_workflow unlinks the rest.)
SummaryIsOfOneRun == TypeOK /\
  \A d \in Dirs \ stranded :
    LET s == files[d]["workflow-summary.json"]
        Holds(f, v) == files[d][f] = <<v>>
    IN s # None =>
         /\ files[d]["attestation.json"] # None /\ files[d]["attestation.json"][1].id = s[1].id
         /\ Holds("registry.json", s[1].registry)
         /\ Holds("checkpoint.json", s[1].checkpoint)
         /\ Holds("inclusion-proof.json", build_inclusion_proof(s[1].registry, s[1].id))

\* A directory with a summary that no run is still syncing.
Complete(d) ==
  /\ d \notin stranded /\ files[d]["workflow-summary.json"] # None
  /\ \A o \in Operators : op[o].pc = "sync" => op[o].dir # d

\* No later run, failed run or command takes away or rewrites a file of a finished run.
FinishedIsKept == [][\A d \in Dirs : Complete(d) => files'[d] = files[d]]_vars

\* Whatever snapshot it is in, a listed attestation was signed, by the service or with an
\* operator's own key, and under a key that was trusted; the artifacts it names were once
\* read and found intact, and it is listed once.  Back to its first snapshot, a registry only
\* ever grew, and the proof build_inclusion_proof makes for any entry of a snapshot of any
\* size is accepted.
SnapshotsAreSound ==
  \A d \in Dirs : LET r == files[d]["registry.json"] IN r # None =>
    /\ \A i \in DOMAIN r[1].entries :
         LET a == r[1].entries[i] IN
         /\ a \in signed /\ a.body.key \in onceTrusted
         /\ a.body.artifacts # {} => a \in intact
         /\ \A j \in DOMAIN r[1].entries : r[1].entries[j].id = a.id => i = j
    /\ r[1].previous # None =>
         /\ IsStrictPrefix(r[1].previous[1].entries, r[1].entries)
         /\ r[1].previous[1].root = _root_from_entries(r[1].previous[1].entries)
    /\ \A id \in Ids(r[1].entries) :
         verify_inclusion_proof(build_inclusion_proof(r[1], id), r[1].root, <<Len(r[1].entries)>>)

\* What is accepted was signed, and as it stands.  What registry verify-proof accepts is an
\* attestation someone signed with the key it names (the service, or an operator who holds
\* that key), at that position of a snapshot of that size whose checkpoint, as it was read,
\* the service signed; what verify calls VALID was so signed too, under a key that was
\* trusted, and at level 3 is about that case and that artifact.
AcceptedIsSigned ==
  probe # None =>
    LET p == probe[1] IN
    /\ p.att \in signed /\ p.att.body.key \in onceTrusted
    /\ p.kind = "proof" =>
         /\ p.cp \in checkpointed /\ p.cp.key \in onceTrusted
         /\ p.proof.size = Len(p.cp.registry.entries)
         /\ p.cp.registry.entries[p.proof.index + 1] = p.att
    /\ p.kind = "verify" /\ p.level = 3 =>
         p.case = <<p.att.body.case>> /\ p.att.body.artifacts \in {{}, {p.root[1]}}
=============================================================================
