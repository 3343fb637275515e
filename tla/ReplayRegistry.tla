--------------------------- MODULE ReplayRegistry ---------------------------
(***************************************************************************)
(* The replay registry of one provider: local SQLite registries, the       *)
(* anchor service outside them, and callers of the three ways to record an *)
(* attestation: locally only, anchored after the local commit, and         *)
(* pending-first (stage, anchor, finalize), with its recovery.             *)
(*                                                                         *)
(* A head hash commits to the whole event chain, so a (sequence, head)     *)
(* pair is the history itself: a sequence of attestations.  A candidate    *)
(* id is the history the candidate would create.  Journal, journal state,  *)
(* accepted rows and evidence are always written in one transaction and    *)
(* are one variable.                                                       *)
(***************************************************************************)
EXTENDS Naturals, Sequences, FiniteSets, SequencesExt

CONSTANTS
    Attestations,   \* attestations whose signature verifies
    RunOf,          \* run id of an attestation
    NonceOf,        \* nonce of an attestation
    Copies,         \* SQLite registries, backups included
    Callers,        \* processes that call the adapters
    MaxHistory,     \* bound: length of a history
    MaxCalls,       \* bound: calls of the adapters and the registry
    MaxLost,        \* bound: requests under way without a caller
    MaxForeign      \* bound: copies that are restored or written locally

ASSUME RegistryAssumption ==
    /\ MaxHistory \in Nat
    /\ MaxForeign \in Nat
    /\ MaxLost \in Nat
    /\ MaxCalls \in Nat
    /\ "none" \notin Copies

VARIABLES
    anchor,     \* the anchor service's row
    flight,     \* compare-and-set requests whose caller gave up waiting
    journal,    \* journal[c]: accepted history of copy c
    pending,    \* pending[c][h]: status of candidate h in copy c
    pc,         \* pc[p]: where caller p is
    job,        \* job[p]: which function it is in
    at,         \* at[p]: the copy it works on
    prior,      \* prior[p]: the history it wants the anchor to be at
    cand,       \* cand[p]: the history it wants the anchor to move to
    reported,   \* histories returned as valid and anchored
    foreign,    \* copies that something else than the pending adapter wrote
    calls       \* number of calls made

vars == <<anchor, flight, journal, pending, pc, job, at, prior, cand,
          reported, foreign, calls>>
tables == <<journal, pending, foreign>>
locals == <<job, at, prior, cand, calls>>

Histories == UNION {[1..n -> Attestations] : n \in 0..MaxHistory}
Candidates == Histories \ {<<>>}
Statuses == {"none", "PREPARED", "CONFLICT", "FINALIZED"}
Points == {"idle", "read", "persist", "staged", "cas", "refused", "mark", "confirm",
           "finalize", "replayed", "record", "append", "return"}
Jobs == {"none", "submit", "recover", "legacy"}

(***************************************************************************)
(* The uniqueness of run ids and nonces: primary key and unique index of   *)
(* the accepted rows.                                                      *)
(***************************************************************************)
Clash(a, b) == RunOf[a] = RunOf[b] \/ NonceOf[a] = NonceOf[b]
Fresh(a, h) == \A i \in DOMAIN h : ~Clash(a, h[i])

Init ==
    /\ anchor = <<>>
    /\ flight = {}
    /\ journal = [c \in Copies |-> <<>>]
    /\ pending = [c \in Copies |-> [h \in Candidates |-> "none"]]
    /\ pc = [p \in Callers |-> "idle"]
    /\ job = [p \in Callers |-> "none"]
    /\ at = [p \in Callers |-> "none"]
    /\ prior = [p \in Callers |-> <<>>]
    /\ cand = [p \in Callers |-> <<>>]
    /\ reported = {}
    /\ foreign = {}
    /\ calls = 0

-----------------------------------------------------------------------------
(***************************************************************************)
(* Helpers of the callers.                                                 *)
(***************************************************************************)
Goto(p, from, to) == pc[p] = from /\ pc' = [pc EXCEPT ![p] = to]

Call(p, j, c, old, new, to) ==
    /\ calls < MaxCalls
    /\ calls' = calls + 1
    /\ Goto(p, "idle", to)
    /\ job' = [job EXCEPT ![p] = j]
    /\ at' = [at EXCEPT ![p] = c]
    /\ prior' = [prior EXCEPT ![p] = old]
    /\ cand' = [cand EXCEPT ![p] = new]

Leave(p) ==
    /\ pc' = [pc EXCEPT ![p] = "idle"]
    /\ job' = [job EXCEPT ![p] = "none"]
    /\ at' = [at EXCEPT ![p] = "none"]
    /\ prior' = [prior EXCEPT ![p] = <<>>]
    /\ cand' = [cand EXCEPT ![p] = <<>>]
    /\ UNCHANGED calls

Status(p) == pending[at[p]][cand[p]]
SetStatus(p, s) == pending' = [pending EXCEPT ![at[p]][cand[p]] = s]

(***************************************************************************)
(* A call that raises without writing, or whose process dies.  Every read  *)
(* and write may fail, so it can happen anywhere; where a check of the     *)
(* code fails it is the only step the call has left.                       *)
(***************************************************************************)
Raise(p) ==
    /\ pc[p] # "idle"
    /\ Leave(p)
    /\ UNCHANGED <<anchor, flight, reported, tables>>

-----------------------------------------------------------------------------
(***************************************************************************)
(* The pending-first adapter.  It reads the anchor, then the local state,  *)
(* which must be equal; the transaction that stages the candidate makes    *)
(* the same comparison again and is the one that counts.                   *)
(***************************************************************************)
Submit(p, c, a) ==
    /\ Len(anchor) < MaxHistory
    /\ Call(p, "submit", c, anchor, Append(anchor, a), "persist")
    /\ UNCHANGED <<anchor, flight, reported, tables>>

(***************************************************************************)
(* The transaction of _persist_pending: the same candidate may be there    *)
(* from an earlier call, another one for its run id or nonce may not.      *)
(***************************************************************************)
Staged(c, h) ==
    {g \in Candidates \ {h} : pending[c][g] # "none" /\ Clash(Last(g), Last(h))}

SeededPersist(p) ==
    /\ Goto(p, "persist", "staged")
    /\ journal[at[p]] = prior[p]
    /\ \/ Status(p) \in {"PREPARED", "FINALIZED"} /\ UNCHANGED pending
       \/ Status(p) = "none" /\ SetStatus(p, "PREPARED")
    /\ UNCHANGED <<anchor, flight, reported, journal, foreign, locals>>

Persist(p) ==
    /\ Goto(p, "persist", "staged")
    /\ journal[at[p]] = prior[p]
    /\ Fresh(Last(cand[p]), journal[at[p]])
    /\ \/ Status(p) \in {"PREPARED", "FINALIZED"} /\ UNCHANGED pending
       \/ /\ Status(p) = "none"
          /\ Staged(at[p], cand[p]) = {}
          /\ SetStatus(p, "PREPARED")
    /\ UNCHANGED <<anchor, flight, reported, journal, foreign, locals>>

(***************************************************************************)
(* recover_pending_attestation reads the row of one candidate: a conflict  *)
(* is final, a finalized one only asks the anchor for confirmation.        *)
(***************************************************************************)
Recover(p, c, h) ==
    /\ \/ pending[c][h] = "PREPARED" /\ Call(p, "recover", c, Front(h), h, "staged")
       \/ pending[c][h] = "FINALIZED" /\ Call(p, "recover", c, Front(h), h, "confirm")
    /\ UNCHANGED <<anchor, flight, reported, tables>>

(***************************************************************************)
(* The anchor is read again before the compare-and-set.  Only the          *)
(* submitting call marks its candidate when the anchor went elsewhere.     *)
(***************************************************************************)
SeededReread(p) ==
    /\ \/ anchor = cand[p] /\ Goto(p, "staged", "confirm")
       \/ anchor = prior[p] /\ Goto(p, "staged", "finalize")
    /\ UNCHANGED <<anchor, flight, reported, tables, locals>>

Reread(p) ==
    /\ \/ anchor = cand[p] /\ Goto(p, "staged", "confirm")
       \/ anchor = prior[p] /\ Goto(p, "staged", "cas")
       \/ /\ anchor \notin {prior[p], cand[p]}
          /\ job[p] = "submit"
          /\ Goto(p, "staged", "mark")
    /\ UNCHANGED <<anchor, flight, reported, tables, locals>>

-----------------------------------------------------------------------------
(***************************************************************************)
(* The anchor service compares both fields and sets both, in one           *)
(* transaction.  The answer may be lost, and a request whose caller timed  *)
(* out may reach the service later, or never.                              *)
(***************************************************************************)
SeededCompareAndSet(old, new) == anchor' = new

CompareAndSet(old, new) == anchor = old /\ anchor' = new

CasUpdated(p) ==
    /\ CompareAndSet(prior[p], cand[p])
    /\ Goto(p, "cas", IF job[p] = "legacy" THEN "return" ELSE "confirm")
    /\ UNCHANGED <<flight, reported, tables, locals>>

CasConflict(p) ==
    /\ Goto(p, "cas", "refused")
    /\ job[p] # "legacy"
    /\ anchor # prior[p]
    /\ UNCHANGED <<anchor, flight, reported, tables, locals>>

CasTimeout(p) ==
    /\ Cardinality(flight) < MaxLost
    /\ flight' = flight \cup {<<prior[p], cand[p]>>}
    /\ IF job[p] = "legacy"
       THEN pc[p] = "cas" /\ Leave(p)
       ELSE Goto(p, "cas", "confirm") /\ UNCHANGED locals
    /\ UNCHANGED <<anchor, reported, tables>>

Arrive(r) ==
    /\ flight' = flight \ {r}
    /\ CompareAndSet(r[1], r[2]) \/ (anchor # r[1] /\ UNCHANGED anchor)
    /\ UNCHANGED <<reported, tables, pc, locals>>

(***************************************************************************)
(* After a conflict the anchor is read again: it may be at the candidate,  *)
(* by a request of the same call that was thought lost or by another call  *)
(* for the same candidate.  Otherwise a submitting call marks the row,     *)
(* whatever its status is by then.                                         *)
(***************************************************************************)
ObserveRefused(p) ==
    /\ \/ anchor = cand[p] /\ Goto(p, "refused", "confirm")
       \/ /\ anchor # cand[p]
          /\ job[p] = "submit"
          /\ Goto(p, "refused", "mark")
    /\ UNCHANGED <<anchor, flight, reported, tables, locals>>

MarkConflict(p) ==
    /\ pc[p] = "mark"
    /\ SetStatus(p, IF Status(p) = "none" THEN "none" ELSE "CONFLICT")
    /\ Leave(p)
    /\ UNCHANGED <<anchor, flight, reported, journal, foreign>>

(***************************************************************************)
(* No call finalizes unless the anchor, read once more, is at the exact    *)
(* candidate.  After a timeout that is all a call may go by.               *)
(***************************************************************************)
SeededConfirm(p) ==
    /\ \/ anchor = cand[p] /\ Goto(p, "confirm", "finalize")
       \/ anchor # cand[p] /\ Goto(p, "confirm", "mark")
    /\ UNCHANGED <<anchor, flight, reported, tables, locals>>

Confirm(p) ==
    /\ Goto(p, "confirm", "finalize")
    /\ anchor = cand[p]
    /\ UNCHANGED <<anchor, flight, reported, tables, locals>>

-----------------------------------------------------------------------------
(***************************************************************************)
(* _finalize_pending reads the row and the local state and then makes one  *)
(* of two transactions, which check both again.                            *)
(***************************************************************************)
Finalize(p) ==
    /\ \/ Goto(p, "finalize", "replayed") /\ journal[at[p]] = cand[p]
       \/ Goto(p, "finalize", "record") /\ journal[at[p]] = prior[p]
    /\ Status(p) \in {"PREPARED", "FINALIZED"}
    /\ UNCHANGED <<anchor, flight, reported, tables, locals>>

Return(p) == reported' = reported \cup {cand[p]} /\ Leave(p)

(***************************************************************************)
(* build_replay_recovery_plan verifies every link, evidence and signature  *)
(* of the journal and finds the given history in it.                       *)
(***************************************************************************)
RecoveryPlan(c, h) == IsPrefix(h, journal[c])

MarkFinalized(p) ==
    /\ pc[p] = "replayed"
    /\ RecoveryPlan(at[p], cand[p])
    /\ Status(p) \in {"PREPARED", "FINALIZED"}
    /\ SetStatus(p, "FINALIZED")
    /\ Return(p)
    /\ UNCHANGED <<anchor, flight, journal, foreign>>

Record(p) ==
    /\ pc[p] = "record"
    /\ journal[at[p]] = prior[p]
    /\ Fresh(Last(cand[p]), journal[at[p]])
    /\ Status(p) = "PREPARED"
    /\ journal' = [journal EXCEPT ![at[p]] = cand[p]]
    /\ SetStatus(p, "FINALIZED")
    /\ Return(p)
    /\ UNCHANGED <<anchor, flight, foreign>>

(***************************************************************************)
(* That transaction failed, and the local state is now the candidate:      *)
(* another call has committed it, and this one finalizes again.            *)
(***************************************************************************)
Reenter(p) ==
    /\ Goto(p, "record", "finalize")
    /\ journal[at[p]] = cand[p]
    /\ UNCHANGED <<anchor, flight, reported, tables, locals>>

-----------------------------------------------------------------------------
(***************************************************************************)
(* The adapter that anchors after the local commit.  Its transaction does  *)
(* not look at the state it read; the length of what it wrote is checked   *)
(* after the commit.                                                       *)
(***************************************************************************)
SubmitLegacy(p, c, a) ==
    /\ Len(anchor) < MaxHistory
    /\ Cardinality(foreign \cup {c}) <= MaxForeign
    /\ Call(p, "legacy", c, anchor, Append(anchor, a), "read")
    /\ UNCHANGED <<anchor, flight, reported, tables>>

ReadLocalLegacy(p) ==
    /\ Goto(p, "read", "append")
    /\ journal[at[p]] = prior[p]
    /\ UNCHANGED <<anchor, flight, reported, tables, locals>>

Insert(c, a) ==
    /\ Fresh(a, journal[c])
    /\ Len(journal[c]) < MaxHistory
    /\ Cardinality(foreign \cup {c}) <= MaxForeign
    /\ journal' = [journal EXCEPT ![c] = Append(@, a)]
    /\ foreign' = foreign \cup {c}
    /\ UNCHANGED pending

Successor(old, new) == Len(new) = Len(old) + 1

RecordLegacy(p) ==
    /\ pc[p] = "append"
    /\ Insert(at[p], Last(cand[p]))
    /\ IF Successor(prior[p], journal'[at[p]])
       THEN /\ Goto(p, "append", "cas")
            /\ cand' = [cand EXCEPT ![p] = journal'[at[p]]]
            /\ UNCHANGED <<job, at, prior, calls>>
       ELSE Leave(p)
    /\ UNCHANGED <<anchor, flight, reported>>

ReturnLegacy(p) ==
    /\ pc[p] = "return"
    /\ Return(p)
    /\ UNCHANGED <<anchor, flight, tables>>

(***************************************************************************)
(* A caller of the local registry alone.                                   *)
(***************************************************************************)
RecordLocally(c, a) ==
    /\ calls < MaxCalls
    /\ calls' = calls + 1
    /\ Insert(c, a)
    /\ UNCHANGED <<anchor, flight, reported, pc, job, at, prior, cand>>

(***************************************************************************)
(* A registry file is replaced by a copy of another one: taking a backup,  *)
(* and restoring it, while no call works on the file.  The anchor is       *)
(* outside of what is restored.                                            *)
(***************************************************************************)
Restore(c, d) ==
    /\ c # d
    /\ \A p \in Callers : at[p] # c
    /\ Cardinality(foreign \cup {c}) <= MaxForeign
    /\ journal' = [journal EXCEPT ![c] = journal[d]]
    /\ pending' = [pending EXCEPT ![c] = pending[d]]
    /\ foreign' = foreign \cup {c}
    /\ UNCHANGED <<anchor, flight, reported, pc, locals>>

CallerStep(p) ==
    \/ \E c \in Copies, a \in Attestations : Submit(p, c, a) \/ SubmitLegacy(p, c, a)
    \/ \E c \in Copies, h \in Candidates : Recover(p, c, h)
    \/ Raise(p)
    \/ Persist(p) \/ Reread(p)
    \/ CasUpdated(p) \/ CasConflict(p) \/ CasTimeout(p)
    \/ ObserveRefused(p) \/ MarkConflict(p) \/ Confirm(p)
    \/ Finalize(p) \/ MarkFinalized(p) \/ Record(p) \/ Reenter(p)
    \/ ReadLocalLegacy(p) \/ RecordLegacy(p) \/ ReturnLegacy(p)

Next ==
    \/ \E p \in Callers : CallerStep(p)
    \/ \E r \in flight : Arrive(r)
    \/ \E c \in Copies, a \in Attestations : RecordLocally(c, a)
    \/ \E c, d \in Copies : Restore(c, d)

Spec == Init /\ [][Next]_vars

-----------------------------------------------------------------------------
(***************************************************************************)
(* Types of the tables and of what the callers keep.  A request moves the  *)
(* anchor by one entry; a call that is over has no copy.                   *)
(***************************************************************************)
TypeOK ==
    /\ anchor \in Histories
    /\ flight \subseteq {r \in Histories \X Candidates : Len(r[2]) = Len(r[1]) + 1}
    /\ journal \in [Copies -> Histories]
    /\ pending \in [Copies -> [Candidates -> Statuses]]
    /\ pc \in [Callers -> Points]
    /\ job \in [Callers -> Jobs]
    /\ at \in [Callers -> Copies \cup {"none"}]
    /\ \A p \in Callers : pc[p] = "idle" <=> at[p] = "none"
    /\ prior \in [Callers -> Histories]
    /\ cand \in [Callers -> Histories]
    /\ reported \subseteq Candidates
    /\ foreign \subseteq Copies
    /\ calls \in 0..MaxCalls

(***************************************************************************)
(* The registry implements one log without replays: whatever copies are    *)
(* restored, calls die and answers are lost, the anchor only grows, by an  *)
(* attestation whose run id and nonce it has not seen, and what an         *)
(* anchored call returned as valid is a head the anchor went through.      *)
(***************************************************************************)
Ledger == INSTANCE ReplayLedger WITH log <- anchor, acked <- reported
ImplementsLedger == Ledger!LedgerSpec

(***************************************************************************)
(* A FINALIZED row of any copy, backups included, is about a history that  *)
(* the anchor confirmed and that this copy has accepted.                   *)
(***************************************************************************)
FinalizedIsAnchored ==
    \A c \in Copies, h \in Candidates :
        pending[c][h] = "FINALIZED" => IsPrefix(h, anchor) /\ IsPrefix(h, journal[c])

(***************************************************************************)
(* What the pending-first adapter is for: a copy that only it writes never *)
(* accepts anything ahead of the anchor, whenever calls die.               *)
(***************************************************************************)
LocalNeverAhead == \A c \in Copies \ foreign : IsPrefix(journal[c], anchor)

(***************************************************************************)
(* An anchored head is never lost: while only the pending-first adapter    *)
(* writes, some copy has accepted it or can still finalize it with         *)
(* recover_pending_attestation, also when the request that moved the       *)
(* anchor arrived after its caller had given up.                           *)
(***************************************************************************)
HeadIsHeld ==
    foreign = {} /\ anchor # <<>> =>
        \E c \in Copies :
            \/ IsPrefix(anchor, journal[c])
            \/ journal[c] = Front(anchor) /\ pending[c][anchor] = "PREPARED"

-----------------------------------------------------------------------------
(***************************************************************************)
(* The inductive invariant.                                                *)
(***************************************************************************)
\* The last entry of a history repeats no run id or nonce of the earlier ones.
NewEntry(h) == Fresh(Last(h), Front(h))

\* A call wants to extend by one entry a history the anchor went through.
CallShape ==
    \A p \in Callers : pc[p] # "idle" =>
        /\ cand[p] \in Candidates
        /\ prior[p] = Front(cand[p])
        /\ IsPrefix(prior[p], anchor)

\* From the transaction that looked for replays on, that entry is new.
CallFresh ==
    \A p \in Callers : pc[p] \notin {"idle", "read", "persist", "append"} => NewEntry(cand[p])

\* So is what lost requests ask for, and what rows are about.
FlightShape ==
    \A r \in flight : r[1] = Front(r[2]) /\ NewEntry(r[2])

RowShape ==
    \A c \in Copies, h \in Candidates :
        pending[c][h] # "none" => NewEntry(h) /\ IsPrefix(Front(h), anchor)

\* A call that finalizes or returns has seen the anchor at its candidate.
Confirmed ==
    \A p \in Callers :
        pc[p] \in {"finalize", "replayed", "record", "return"} => IsPrefix(cand[p], anchor)

\* Under the call of the older adapter its copy only grows.
AppendShape ==
    \A p \in Callers : pc[p] = "append" => IsPrefix(prior[p], journal[at[p]])

\* A candidate is marked CONFLICT only when the anchor can no longer reach it.
Passed(h) == Len(anchor) >= Len(h) /\ anchor # h

ConflictShape ==
    /\ \A p \in Callers : pc[p] = "mark" => Passed(cand[p])
    /\ \A p \in Callers : pc[p] = "refused" => Len(anchor) >= Len(cand[p])
    /\ \A c \in Copies, h \in Candidates : pending[c][h] = "CONFLICT" => Passed(h)

\* A copy that staged a candidate had accepted what comes before it.
RowPrior ==
    \A c \in Copies \ foreign, h \in Candidates :
        pending[c][h] # "none" => IsPrefix(Front(h), journal[c])

\* Whatever may still reach the anchor has a row in some copy.
RequestHeld ==
    foreign = {} =>
        /\ \A p \in Callers :
              pc[p] \in {"staged", "cas"} => pending[at[p]][cand[p]] # "none"
        /\ \A r \in flight : \E c \in Copies : pending[c][r[2]] # "none"

LedgerInv == /\ TypeOK /\ CallShape /\ CallFresh /\ FlightShape /\ RowShape
             /\ Confirmed /\ AppendShape

HoldInv == /\ LedgerInv /\ FinalizedIsAnchored /\ LocalNeverAhead
           /\ ConflictShape /\ RowPrior /\ RequestHeld /\ HeadIsHeld
=============================================================================
