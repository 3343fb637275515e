---------------------------- MODULE ReplayProofs ----------------------------
(***************************************************************************)
(* Proofs about the replay registry: LedgerInv is inductive, so types hold *)
(* and the registry implements ReplayLedger; HoldInv, which adds what the  *)
(* pending-first adapter keeps, is inductive as well.                      *)
(***************************************************************************)
EXTENDS ReplayRegistry, SequenceTheorems, TLAPS

-----------------------------------------------------------------------------
(***************************************************************************)
(* Sequences, histories and the order between them.                        *)
(***************************************************************************)

\* A history is a sequence within the bound.
LEMMA HistoryIsSeq ==
  ASSUME NEW h \in Histories
  PROVE  /\ h \in Seq(Attestations)
         /\ Len(h) \in 0..MaxHistory
         /\ h = [i \in 1..Len(h) |-> h[i]]
<1>1. PICK n \in 0..MaxHistory : h \in [1..n -> Attestations]
  BY DEF Histories
<1>2. h \in Seq(Attestations) /\ Len(h) = n
  BY <1>1, RegistryAssumption, SeqDef, LenProperties
<1> QED  BY <1>1, <1>2, LenProperties

\* A sequence within the bound is a history.
LEMMA SeqIsHistory ==
  ASSUME NEW h \in Seq(Attestations), Len(h) <= MaxHistory
  PROVE  h \in Histories
<1>1. h \in [1..Len(h) -> Attestations] /\ Len(h) \in Nat
  BY LenProperties
<1>2. Len(h) \in 0..MaxHistory
  BY <1>1, RegistryAssumption
<1> QED  BY <1>1, <1>2, Zenon DEF Histories

\* IsPrefix, entry by entry.
LEMMA PrefixIs ==
  ASSUME NEW s \in Seq(Attestations), NEW t \in Seq(Attestations)
  PROVE  IsPrefix(s, t) <=> Len(s) <= Len(t) /\ \A i \in 1..Len(s) : s[i] = t[i]
<1>1. CASE Len(s) <= Len(t)
  <2>1. SubSeq(s, 1, Len(s)) = s
    OBVIOUS
  <2>2. SubSeq(t, 1, Len(s)) \in Seq(Attestations) /\ Len(SubSeq(t, 1, Len(s))) = Len(s)
        /\ \A i \in 1..Len(s) : SubSeq(t, 1, Len(s))[i] = t[i]
    BY <1>1
  <2>3. s = SubSeq(t, 1, Len(s)) <=> \A i \in 1..Len(s) : s[i] = SubSeq(t, 1, Len(s))[i]
    BY <2>2, SeqEqual
  <2> QED  BY <1>1, <2>1, <2>2, <2>3 DEF IsPrefix
<1> QED  BY <1>1 DEF IsPrefix

\* IsPrefix is reflexive.
LEMMA PrefixRefl ==
  ASSUME NEW s \in Seq(Attestations)
  PROVE  IsPrefix(s, s)
BY PrefixIs

\* IsPrefix is transitive.
LEMMA PrefixTrans ==
  ASSUME NEW s \in Seq(Attestations), NEW t \in Seq(Attestations),
         NEW u \in Seq(Attestations), IsPrefix(s, t), IsPrefix(t, u)
  PROVE  IsPrefix(s, u)
BY PrefixIs

\* What an appended entry leaves of the sequence it was appended to.
LEMMA PrefixAppend ==
  ASSUME NEW s \in Seq(Attestations), NEW a \in Attestations
  PROVE  /\ Append(s, a) \in Seq(Attestations)
         /\ Len(Append(s, a)) = Len(s) + 1
         /\ IsPrefix(s, Append(s, a))
         /\ Append(s, a) # <<>>
         /\ Last(Append(s, a)) = a
         /\ Front(Append(s, a)) = s
<1>1. Append(s, a) \in Seq(Attestations) /\ Len(Append(s, a)) = Len(s) + 1
  OBVIOUS
<1>2. IsPrefix(s, Append(s, a))
  <2>1. \A i \in 1..Len(s) : s[i] = Append(s, a)[i]
    OBVIOUS
  <2>2. Len(s) <= Len(Append(s, a))
    BY <1>1, LenProperties
  <2> QED  BY <1>1, <2>1, <2>2, PrefixIs
<1>3. SubSeq(Append(s, a), 1, Len(s)) = s
  BY <1>1, <1>2, PrefixIs DEF IsPrefix
<1>4. Front(Append(s, a)) = s
  BY <1>1, <1>3 DEF Front
<1>5. Last(Append(s, a)) = a
  BY <1>1 DEF Last
<1>6. Append(s, a) # <<>>
  BY <1>1, EmptySeq, LenProperties
<1> QED  BY <1>1, <1>2, <1>4, <1>5, <1>6

\* A prefix of full length is the whole sequence.
LEMMA PrefixSameLength ==
  ASSUME NEW s \in Seq(Attestations), NEW t \in Seq(Attestations),
         IsPrefix(s, t), Len(s) = Len(t)
  PROVE  s = t
BY PrefixIs, SeqEqual

\* A sequence that is not empty is its front and its last entry.
LEMMA SplitLast ==
  ASSUME NEW s \in Seq(Attestations), s # <<>>
  PROVE  /\ Last(s) \in Attestations
         /\ Front(s) \in Seq(Attestations)
         /\ Len(Front(s)) = Len(s) - 1
         /\ s = Append(Front(s), Last(s))
<1>1. Len(s) \in Nat \ {0}
  BY EmptySeq
<1>2. Front(s) \in Seq(Attestations) /\ Len(Front(s)) = Len(s) - 1
      /\ \A i \in 1..Len(s)-1 : Front(s)[i] = s[i]
  <2>1. PICK n \in Nat : n = Len(s) - 1
    BY <1>1
  <2>2. \A i \in 1..n : s[i] \in Attestations
    BY <2>1, ElementOfSeq
  <2>3. SubSeq(s, 1, n) \in Seq(Attestations) /\ Len(SubSeq(s, 1, n)) = n
        /\ \A i \in 1..n : SubSeq(s, 1, n)[i] = s[i]
    BY <2>2, SubSeqProperties
  <2> QED  BY <2>1, <2>3 DEF Front
<1>3. Last(s) \in Attestations
  BY <1>1 DEF Last
<1>4. Append(Front(s), Last(s)) \in Seq(Attestations) /\ Len(Append(Front(s), Last(s))) = Len(s)
      /\ \A i \in 1..Len(s) : Append(Front(s), Last(s))[i] = s[i]
  BY <1>1, <1>2, <1>3 DEF Last
<1> QED  BY <1>2, <1>3, <1>4, SeqEqual

\* A candidate extends the history it was built on by one attestation.
LEMMA CandidateIs ==
  ASSUME NEW h \in Candidates
  PROVE  /\ h \in Histories /\ h # <<>>
         /\ Front(h) \in Histories
         /\ Last(h) \in Attestations
         /\ Len(h) = Len(Front(h)) + 1
         /\ IsPrefix(Front(h), h)
<1>1. h \in Seq(Attestations) /\ Len(h) \in 0..MaxHistory /\ h # <<>>
  BY HistoryIsSeq DEF Candidates
<1>2. /\ Last(h) \in Attestations /\ Front(h) \in Seq(Attestations)
      /\ Len(Front(h)) = Len(h) - 1 /\ h = Append(Front(h), Last(h))
  BY <1>1, SplitLast
<1>3. Front(h) \in Histories
  BY <1>1, <1>2, SeqIsHistory, RegistryAssumption
<1>4. IsPrefix(Front(h), h)
  BY <1>2, PrefixAppend
<1> QED  BY <1>1, <1>2, <1>3, <1>4, RegistryAssumption DEF Candidates

\* _candidate: a history within the bound, extended, is a candidate.
LEMMA AppendIs ==
  ASSUME NEW h \in Histories, NEW a \in Attestations, Len(h) < MaxHistory
  PROVE  /\ Append(h, a) \in Candidates
         /\ Front(Append(h, a)) = h
         /\ Last(Append(h, a)) = a
         /\ IsPrefix(h, Append(h, a))
<1>1. h \in Seq(Attestations) /\ Len(h) \in 0..MaxHistory
  BY HistoryIsSeq
<1>2. /\ Append(h, a) \in Seq(Attestations) /\ Append(h, a) # <<>>
      /\ Len(Append(h, a)) = Len(h) + 1 /\ IsPrefix(h, Append(h, a))
      /\ Last(Append(h, a)) = a /\ Front(Append(h, a)) = h
  BY <1>1, PrefixAppend
<1>3. Len(Append(h, a)) <= MaxHistory
  BY <1>1, <1>2, RegistryAssumption
<1>4. Append(h, a) \in Histories
  BY <1>2, <1>3, SeqIsHistory
<1> QED  BY <1>2, <1>4 DEF Candidates

\* Histories are ordered by IsPrefix, and lengths follow that order.
LEMMA HistoryOrder ==
  ASSUME NEW s \in Histories, NEW t \in Histories, NEW u \in Histories
  PROVE  /\ IsPrefix(s, s)
         /\ IsPrefix(s, t) /\ IsPrefix(t, u) => IsPrefix(s, u)
         /\ IsPrefix(s, t) => Len(s) <= Len(t)
         /\ IsPrefix(s, t) /\ Len(s) >= Len(t) => s = t
         /\ Len(s) \in Nat
<1>1. s \in Seq(Attestations) /\ t \in Seq(Attestations) /\ u \in Seq(Attestations)
  BY HistoryIsSeq
<1>2. IsPrefix(s, t) => Len(s) <= Len(t)
  BY <1>1 DEF IsPrefix
<1>3. IsPrefix(s, t) /\ Len(s) >= Len(t) => s = t
  BY <1>1, <1>2, PrefixSameLength, LenProperties
<1> QED  BY <1>1, <1>2, <1>3, PrefixRefl, PrefixTrans, LenProperties

\* A history without entries precedes every other.
LEMMA LengthZero ==
  ASSUME NEW e \in Seq(Attestations), Len(e) = 0
  PROVE  e \in Histories /\ \A h \in Histories : IsPrefix(e, h)
<1>0. Len(e) <= MaxHistory
  BY RegistryAssumption
<1>1. e \in Histories
  BY <1>0, SeqIsHistory, Zenon
<1>2. ASSUME NEW h \in Histories
      PROVE  IsPrefix(e, h)
  <2>1. h \in Seq(Attestations) /\ Len(h) \in Nat
    BY HistoryIsSeq, LenProperties
  <2>2. Len(e) <= Len(h) /\ \A i \in 1..Len(e) : e[i] = h[i]
    BY <2>1
  <2> QED  BY <2>1, <2>2, PrefixIs, Zenon
<1> QED  BY <1>1, <1>2

\* The initial head precedes every history.
LEMMA NoHistory == <<>> \in Histories /\ \A h \in Histories : IsPrefix(<<>>, h)
<1>1. <<>> \in Seq(Attestations) /\ Len(<<>>) = 0
  BY EmptySeq
<1> QED  BY <1>1, LengthZero, Zenon

-----------------------------------------------------------------------------
\* Empty registries and an anchor at the initial head satisfy the invariant.
LEMMA InitInv == Init => HoldInv
<1> SUFFICES ASSUME Init PROVE HoldInv
  OBVIOUS
<1>1. TypeOK
  BY NoHistory, RegistryAssumption DEF Init, TypeOK, Points, Jobs, Statuses
<1>2. CallShape /\ CallFresh /\ FlightShape /\ RowShape /\ Confirmed /\ AppendShape
  BY DEF Init, CallShape, CallFresh, FlightShape, RowShape, Confirmed, AppendShape
<1>3. FinalizedIsAnchored /\ LocalNeverAhead /\ ConflictShape /\ RowPrior /\ RequestHeld
  BY NoHistory DEF Init, FinalizedIsAnchored, LocalNeverAhead, ConflictShape, RowPrior,
     RequestHeld
<1>4. HeadIsHeld
  BY DEF Init, HeadIsHeld
<1> QED  BY <1>1, <1>2, <1>3, <1>4 DEF HoldInv, LedgerInv

-----------------------------------------------------------------------------
(***************************************************************************)
(* Steps of a call that only move it on.                                   *)
(***************************************************************************)
LEMMA MoveKeeps ==
  ASSUME LedgerInv, NEW p \in Callers, NEW b \in Points \ {"idle"}, pc[p] # "idle",
         pc' = [pc EXCEPT ![p] = b],
         UNCHANGED <<anchor, flight, reported, tables, locals>>,
         b \notin {"read", "persist", "append"} => NewEntry(cand[p]),
         b \in {"finalize", "replayed", "record", "return"} => IsPrefix(cand[p], anchor),
         b = "append" => IsPrefix(prior[p], journal[at[p]])
  PROVE  LedgerInv'
<1>1. TypeOK'
  BY DEF LedgerInv, TypeOK, tables, locals
<1>2. CallShape'
  BY DEF LedgerInv, TypeOK, CallShape, tables, locals
<1>3. CallFresh' /\ Confirmed' /\ AppendShape'
  BY DEF LedgerInv, TypeOK, CallFresh, Confirmed, AppendShape, NewEntry, Fresh, tables, locals
<1>4. FlightShape' /\ RowShape'
  BY DEF LedgerInv, FlightShape, RowShape, NewEntry, Fresh, tables
<1> QED  BY <1>1, <1>2, <1>3, <1>4 DEF LedgerInv

(***************************************************************************)
(* Steps that begin a call.                                                *)
(***************************************************************************)
LEMMA CallKeeps ==
  ASSUME LedgerInv, NEW p \in Callers, NEW j \in Jobs, NEW c \in Copies, NEW h \in Candidates,
         NEW b \in {"read", "persist", "staged", "confirm"},
         Call(p, j, c, Front(h), h, b),
         UNCHANGED <<anchor, flight, reported, tables>>,
         IsPrefix(Front(h), anchor),
         b \notin {"read", "persist"} => NewEntry(h)
  PROVE  LedgerInv'
<1>1. TypeOK'
  BY CandidateIs, RegistryAssumption DEF LedgerInv, TypeOK, Call, Goto, Points, tables
<1>2. CallShape'
  BY DEF LedgerInv, TypeOK, CallShape, Call, Goto, tables
<1>3. CallFresh' /\ Confirmed' /\ AppendShape'
  BY DEF LedgerInv, TypeOK, CallFresh, Confirmed, AppendShape, NewEntry, Fresh, Call, Goto, tables
<1>4. FlightShape' /\ RowShape'
  BY DEF LedgerInv, FlightShape, RowShape, NewEntry, Fresh, tables
<1> QED  BY <1>1, <1>2, <1>3, <1>4 DEF LedgerInv

(***************************************************************************)
(* Steps that end a call, with what they write: rows about entries that    *)
(* are new, journals that grow, requests and reports of the call's own     *)
(* candidate.                                                              *)
(***************************************************************************)
LEMMA LeaveKeeps ==
  ASSUME LedgerInv, NEW p \in Callers, pc[p] # "idle", Leave(p), UNCHANGED anchor,
         flight' \subseteq flight \cup {<<prior[p], cand[p]>>},
         flight' # flight => NewEntry(cand[p]),
         reported' \subseteq reported \cup {cand[p]},
         journal' \in [Copies -> Histories],
         \A c \in Copies : IsPrefix(journal[c], journal'[c]),
         pending' \in [Copies -> [Candidates -> Statuses]],
         \A c \in Copies, h \in Candidates :
             pending'[c][h] # "none" => pending[c][h] # "none",
         foreign' \subseteq Copies
  PROVE  LedgerInv'
<1>0. cand[p] \in Candidates /\ prior[p] = Front(cand[p]) /\ prior[p] \in Histories
      /\ Len(cand[p]) = Len(prior[p]) + 1
  BY CandidateIs DEF LedgerInv, CallShape
<1>1. TypeOK'
  BY <1>0, NoHistory DEF LedgerInv, TypeOK, Leave, Points, Jobs
<1>2. CallShape'
  BY DEF LedgerInv, TypeOK, CallShape, Leave
<1>3. CallFresh' /\ Confirmed'
  BY DEF LedgerInv, TypeOK, CallFresh, Confirmed, NewEntry, Fresh, Leave
<1>4. AppendShape'
  <2> SUFFICES ASSUME NEW q \in Callers, pc'[q] = "append"
               PROVE  IsPrefix(prior'[q], journal'[at'[q]])
    BY DEF AppendShape
  <2>1. q # p /\ pc[q] = "append" /\ prior'[q] = prior[q] /\ at'[q] = at[q] /\ at[q] \in Copies
    BY DEF LedgerInv, TypeOK, Leave
  <2>2. IsPrefix(prior[q], journal[at[q]]) /\ IsPrefix(journal[at[q]], journal'[at[q]])
    BY <2>1 DEF LedgerInv, AppendShape
  <2>3. prior[q] \in Histories /\ journal[at[q]] \in Histories /\ journal'[at[q]] \in Histories
    BY <2>1 DEF LedgerInv, TypeOK
  <2> QED  BY <2>1, <2>2, <2>3, HistoryOrder
<1>5. FlightShape'
  <2> SUFFICES ASSUME NEW r \in flight'
               PROVE  r[1] = Front(r[2]) /\ NewEntry(r[2])
    BY DEF FlightShape, NewEntry, Fresh
  <2>1. CASE r \in flight
    BY <2>1 DEF LedgerInv, FlightShape
  <2>2. CASE r \notin flight
    <3>1. r = <<prior[p], cand[p]>> /\ NewEntry(cand[p])
      BY <2>2
    <3> QED  BY <1>0, <3>1
  <2> QED  BY <2>1, <2>2
<1>6. RowShape'
  BY DEF LedgerInv, RowShape, NewEntry, Fresh
<1> QED  BY <1>1, <1>2, <1>3, <1>4, <1>5, <1>6 DEF LedgerInv

(***************************************************************************)
(* Steps that move the anchor, in answer to a call or to a late request.   *)
(***************************************************************************)
LEMMA AnchorGrows ==
  ASSUME LedgerInv, NEW h \in Candidates, NewEntry(h), anchor = Front(h), anchor' = h,
         UNCHANGED <<reported, tables, locals>>, flight' \subseteq flight,
         \/ UNCHANGED pc
         \/ \E p \in Callers : /\ cand[p] = h /\ pc[p] = "cas"
                               /\ pc' = [pc EXCEPT ![p] = "return"] \/ pc' = [pc EXCEPT ![p] = "confirm"]
  PROVE  LedgerInv' /\ IsPrefix(anchor, anchor') /\ anchor' \in Histories
<1>1. h \in Histories /\ IsPrefix(anchor, h) /\ IsPrefix(h, h)
  BY CandidateIs, HistoryOrder
<1>2. \A g \in Histories : IsPrefix(g, anchor) => IsPrefix(g, anchor')
  BY <1>1, HistoryOrder DEF LedgerInv, TypeOK
<1>3. TypeOK'
  BY <1>1 DEF LedgerInv, TypeOK, Points, tables, locals
<1>4. CallShape'
  <2> SUFFICES ASSUME NEW q \in Callers, pc'[q] # "idle"
               PROVE  (cand[q] \in Candidates /\ prior[q] = Front(cand[q]) /\ IsPrefix(prior[q], anchor'))
    BY DEF CallShape, locals
  <2>1. pc[q] # "idle" /\ prior[q] \in Histories
    BY DEF LedgerInv, TypeOK
  <2> QED  BY <1>2, <2>1 DEF LedgerInv, CallShape
<1>5. CallFresh' /\ AppendShape'
  BY DEF LedgerInv, TypeOK, CallFresh, AppendShape, NewEntry, Fresh, tables, locals
<1>6. Confirmed'
  <2> SUFFICES ASSUME NEW q \in Callers, pc'[q] \in {"finalize", "replayed", "record", "return"}
               PROVE  IsPrefix(cand[q], anchor')
    BY DEF Confirmed, locals
  <2>1. CASE pc'[q] = pc[q]
    BY <1>2, <2>1 DEF LedgerInv, TypeOK, Confirmed
  <2>2. CASE pc'[q] # pc[q]
    BY <1>1, <2>2 DEF LedgerInv, TypeOK
  <2> QED  BY <2>1, <2>2
<1>7. FlightShape'
  BY DEF LedgerInv, FlightShape, NewEntry, Fresh
<1>8. RowShape'
  BY <1>2, CandidateIs DEF LedgerInv, RowShape, NewEntry, Fresh, tables
<1> QED  BY <1>1, <1>3, <1>4, <1>5, <1>6, <1>7, <1>8 DEF LedgerInv

-----------------------------------------------------------------------------
(***************************************************************************)
(* The actions, one lemma for each way to change the state.                *)
(***************************************************************************)

\* A submitting call starts from the anchor it read.
LEMMA SubmitKeeps ==
  ASSUME LedgerInv, NEW p \in Callers, NEW c \in Copies, NEW a \in Attestations,
         Submit(p, c, a) \/ SubmitLegacy(p, c, a)
  PROVE  LedgerInv'
<1>1. anchor \in Histories /\ Len(anchor) < MaxHistory
  BY DEF LedgerInv, TypeOK, Submit, SubmitLegacy
<1>2. PICK h \in Candidates : h = Append(anchor, a) /\ Front(h) = anchor
  BY <1>1, AppendIs
<1>3. IsPrefix(Front(h), anchor)
  BY <1>1, <1>2, HistoryOrder
<1>4. \/ Call(p, "submit", c, Front(h), h, "persist")
      \/ Call(p, "legacy", c, Front(h), h, "read")
  BY <1>2 DEF Submit, SubmitLegacy
<1>5. UNCHANGED <<anchor, flight, reported, tables>>
  BY DEF Submit, SubmitLegacy
<1>6. CASE Call(p, "submit", c, Front(h), h, "persist")
  BY <1>3, <1>5, <1>6, CallKeeps DEF Jobs
<1>7. CASE Call(p, "legacy", c, Front(h), h, "read")
  BY <1>3, <1>5, <1>7, CallKeeps DEF Jobs
<1> QED  BY <1>4, <1>6, <1>7

\* A recovering call takes over a row, whose entry is new.
LEMMA RecoverKeeps ==
  ASSUME LedgerInv, NEW p \in Callers, NEW c \in Copies, NEW h \in Candidates,
         Recover(p, c, h)
  PROVE  LedgerInv'
<1>1. NewEntry(h) /\ IsPrefix(Front(h), anchor)
  BY DEF LedgerInv, RowShape, Recover
<1>2. UNCHANGED <<anchor, flight, reported, tables>>
  BY DEF Recover
<1>3. CASE Call(p, "recover", c, Front(h), h, "staged")
  BY <1>1, <1>2, <1>3, CallKeeps DEF Jobs
<1>4. CASE Call(p, "recover", c, Front(h), h, "confirm")
  BY <1>1, <1>2, <1>4, CallKeeps DEF Jobs
<1> QED  BY <1>3, <1>4 DEF Recover

\* The staging transaction has checked that the entry is new.
LEMMA PersistKeeps ==
  ASSUME LedgerInv, NEW p \in Callers, Persist(p)
  PROVE  LedgerInv'
<1>1. /\ pc[p] = "persist" /\ pc' = [pc EXCEPT ![p] = "staged"] /\ at[p] \in Copies
      /\ cand[p] \in Candidates /\ prior[p] = Front(cand[p]) /\ IsPrefix(prior[p], anchor)
  BY DEF LedgerInv, TypeOK, CallShape, Persist, Goto
<1>2. NewEntry(cand[p])
  BY <1>1 DEF Persist, NewEntry
<1>3. /\ pending' = pending \/ pending' = [pending EXCEPT ![at[p]][cand[p]] = "PREPARED"]
      /\ UNCHANGED <<anchor, flight, reported, journal, foreign, locals>>
  BY DEF Persist, SetStatus
<1>4. TypeOK'
  BY <1>1, <1>3 DEF LedgerInv, TypeOK, Points, Statuses, locals
<1>5. CallShape'
  BY <1>1, <1>3 DEF LedgerInv, TypeOK, CallShape, locals
<1>6. CallFresh' /\ Confirmed' /\ AppendShape'
  BY <1>1, <1>2, <1>3 DEF LedgerInv, TypeOK, CallFresh, Confirmed, AppendShape, NewEntry, Fresh, locals
<1>7. FlightShape'
  BY <1>3 DEF LedgerInv, FlightShape, NewEntry, Fresh
<1>8. RowShape'
  <2> SUFFICES ASSUME NEW c \in Copies, NEW h \in Candidates, pending'[c][h] # "none"
               PROVE  NewEntry(h) /\ IsPrefix(Front(h), anchor)
    BY <1>3 DEF RowShape, NewEntry, Fresh
  <2>1. pending[c][h] # "none" \/ h = cand[p]
    BY <1>1, <1>3 DEF LedgerInv, TypeOK
  <2> QED  BY <1>1, <1>2, <2>1 DEF LedgerInv, RowShape
<1> QED  BY <1>4, <1>5, <1>6, <1>7, <1>8 DEF LedgerInv

\* Steps that only read keep the invariant.
LEMMA MovesKeep ==
  ASSUME LedgerInv, NEW p \in Callers,
         \/ Reread(p) \/ CasConflict(p) \/ ObserveRefused(p) \/ Confirm(p)
         \/ Finalize(p) \/ Reenter(p) \/ ReadLocalLegacy(p)
  PROVE  LedgerInv'
<1>1. UNCHANGED <<anchor, flight, reported, tables, locals>>
  BY DEF Reread, CasConflict, ObserveRefused, Confirm, Finalize, Reenter, ReadLocalLegacy
<1>2. /\ pc[p] # "idle" => NewEntry(cand[p]) \/ pc[p] \in {"read", "persist", "append"}
      /\ cand[p] \in Histories /\ prior[p] \in Histories /\ anchor \in Histories
      /\ pc[p] = "finalize" \/ pc[p] = "record" => IsPrefix(cand[p], anchor)
  BY DEF LedgerInv, TypeOK, CallFresh, Confirmed
<1>3. IsPrefix(anchor, anchor) /\ IsPrefix(prior[p], prior[p])
  BY <1>2, HistoryOrder
<1>4. CASE Reread(p)
  <2>1. PICK b \in {"confirm", "cas", "mark"} : Goto(p, "staged", b)
    BY <1>4 DEF Reread
  <2> QED  BY <1>1, <1>2, <2>1, MoveKeeps DEF Goto, Points
<1>5. CASE CasConflict(p)
  BY <1>1, <1>2, <1>5, MoveKeeps DEF CasConflict, Goto, Points
<1>6. CASE ObserveRefused(p)
  <2>1. PICK b \in {"confirm", "mark"} : Goto(p, "refused", b)
    BY <1>6 DEF ObserveRefused
  <2> QED  BY <1>1, <1>2, <2>1, MoveKeeps DEF Goto, Points
<1>7. CASE Confirm(p)
  BY <1>1, <1>2, <1>3, <1>7, MoveKeeps DEF Confirm, Goto, Points
<1>8. CASE Finalize(p)
  <2>1. PICK b \in {"replayed", "record"} : Goto(p, "finalize", b)
    BY <1>8 DEF Finalize
  <2> QED  BY <1>1, <1>2, <2>1, MoveKeeps DEF Goto, Points
<1>9. CASE Reenter(p)
  BY <1>1, <1>2, <1>9, MoveKeeps DEF Reenter, Goto, Points
<1>10. CASE ReadLocalLegacy(p)
  BY <1>1, <1>2, <1>3, <1>10, MoveKeeps DEF ReadLocalLegacy, Goto, Points
<1> QED  BY <1>4, <1>5, <1>6, <1>7, <1>8, <1>9, <1>10

\* Steps that end a call, with the row and the journal entry they write.
LEMMA LeavesKeep ==
  ASSUME LedgerInv, NEW p \in Callers,
         Raise(p) \/ MarkConflict(p) \/ MarkFinalized(p) \/ Record(p) \/ ReturnLegacy(p)
  PROVE  LedgerInv'
<1>1. /\ pc[p] # "idle" /\ Leave(p) /\ UNCHANGED <<anchor, flight, foreign>>
      /\ reported' \subseteq reported \cup {cand[p]}
      /\ at[p] \in Copies /\ cand[p] \in Candidates /\ prior[p] = Front(cand[p])
  BY DEF Raise, MarkConflict, MarkFinalized, Record, ReturnLegacy, Return, tables, LedgerInv,
     TypeOK, CallShape
<1>2. /\ foreign' \subseteq Copies
      /\ flight' \subseteq flight \cup {<<prior[p], cand[p]>>} /\ flight' = flight
  BY <1>1 DEF LedgerInv, TypeOK
<1>3. /\ pending' \in [Copies -> [Candidates -> Statuses]]
      /\ \A c \in Copies, h \in Candidates :
            pending'[c][h] # "none" => pending[c][h] # "none"
  <2>1. \/ pending' = pending
        \/ \E s \in Statuses : /\ pending' = [pending EXCEPT ![at[p]][cand[p]] = s]
                               /\ s = "none" \/ pending[at[p]][cand[p]] # "none"
    <3>1. CASE Raise(p) \/ ReturnLegacy(p)
      BY <3>1 DEF Raise, ReturnLegacy, tables
    <3>2. CASE MarkConflict(p)
      BY <3>2 DEF MarkConflict, SetStatus, Status, Statuses
    <3>3. CASE MarkFinalized(p)
      BY <3>3 DEF MarkFinalized, SetStatus, Status, Statuses
    <3>4. CASE Record(p)
      BY <3>4 DEF Record, SetStatus, Status, Statuses
    <3> QED  BY <3>1, <3>2, <3>3, <3>4
  <2>2. pending \in [Copies -> [Candidates -> Statuses]]
    BY DEF LedgerInv, TypeOK
  <2>3. CASE pending' = pending
    BY <2>2, <2>3
  <2>4. ASSUME NEW s \in Statuses, pending' = [pending EXCEPT ![at[p]][cand[p]] = s],
               s = "none" \/ pending[at[p]][cand[p]] # "none"
        PROVE  /\ pending' \in [Copies -> [Candidates -> Statuses]]
               /\ \A c \in Copies, h \in Candidates :
                      pending'[c][h] # "none" => pending[c][h] # "none"
    BY <1>1, <2>2, <2>4
  <2> QED  BY <2>1, <2>3, <2>4
<1>4. /\ journal' \in [Copies -> Histories]
      /\ \A c \in Copies : IsPrefix(journal[c], journal'[c])
  <2>1. \A c \in Copies : journal[c] \in Histories /\ IsPrefix(journal[c], journal[c])
    BY HistoryOrder DEF LedgerInv, TypeOK
  <2>2. CASE journal' = journal
    BY <2>1, <2>2 DEF LedgerInv, TypeOK
  <2>3. CASE Record(p)
    <3>1. journal' = [journal EXCEPT ![at[p]] = cand[p]] /\ journal[at[p]] = Front(cand[p])
      BY <1>1, <2>3 DEF Record
    <3>2. IsPrefix(Front(cand[p]), cand[p]) /\ cand[p] \in Histories
      BY <1>1, CandidateIs
    <3> QED  BY <1>1, <2>1, <3>1, <3>2 DEF LedgerInv, TypeOK
  <2> QED  BY <2>2, <2>3 DEF Raise, MarkConflict, MarkFinalized, ReturnLegacy, tables
<1> QED  BY <1>1, <1>2, <1>3, <1>4, LeaveKeeps

\* A lost request asks for what its caller asked for.
LEMMA CasTimeoutKeeps ==
  ASSUME LedgerInv, NEW p \in Callers, CasTimeout(p)
  PROVE  LedgerInv'
<1>1. /\ pc[p] = "cas" /\ flight' = flight \cup {<<prior[p], cand[p]>>}
      /\ UNCHANGED <<anchor, reported, tables>>
  BY DEF CasTimeout, Goto
<1>2. /\ cand[p] \in Candidates /\ prior[p] = Front(cand[p]) /\ prior[p] \in Histories
      /\ Len(cand[p]) = Len(prior[p]) + 1 /\ NewEntry(cand[p])
  BY <1>1, CandidateIs DEF LedgerInv, CallShape, CallFresh
<1>3. CASE job[p] = "legacy"
  <2>1. Leave(p)
    BY <1>3 DEF CasTimeout
  <2>2. \A c \in Copies : IsPrefix(journal[c], journal'[c])
    BY <1>1, HistoryOrder DEF LedgerInv, TypeOK, tables
  <2> QED  BY <1>1, <1>2, <2>1, <2>2, LeaveKeeps DEF tables, LedgerInv, TypeOK
<1>4. CASE job[p] # "legacy"
  <2>1. pc' = [pc EXCEPT ![p] = "confirm"] /\ UNCHANGED locals
    BY <1>4 DEF CasTimeout, Goto
  <2>2. TypeOK'
    BY <1>1, <1>2, <2>1 DEF LedgerInv, TypeOK, Points, tables, locals
  <2>3. CallShape'
    BY <1>1, <2>1 DEF LedgerInv, TypeOK, CallShape, locals
  <2>4. CallFresh' /\ Confirmed' /\ AppendShape'
    BY <1>1, <1>2, <2>1 DEF LedgerInv, TypeOK, CallFresh, Confirmed, AppendShape, NewEntry,
       Fresh, tables, locals
  <2>5. FlightShape'
    <3> SUFFICES ASSUME NEW r \in flight'
                 PROVE  r[1] = Front(r[2]) /\ NewEntry(r[2])
      BY DEF FlightShape, NewEntry, Fresh
    <3>1. CASE r \in flight
      BY <3>1 DEF LedgerInv, FlightShape
    <3>2. CASE r = <<prior[p], cand[p]>>
      BY <1>2, <3>2
    <3> QED  BY <1>1, <3>1, <3>2
  <2>6. RowShape'
    BY <1>1 DEF LedgerInv, RowShape, NewEntry, Fresh, tables
  <2> QED  BY <2>2, <2>3, <2>4, <2>5, <2>6 DEF LedgerInv
<1> QED  BY <1>3, <1>4

\* An answered compare-and-set keeps the invariant and extends the anchor.
LEMMA CasUpdatedKeeps ==
  ASSUME LedgerInv, NEW p \in Callers, CasUpdated(p)
  PROVE  LedgerInv' /\ IsPrefix(anchor, anchor') /\ anchor' \in Histories
<1>1. /\ pc[p] = "cas" /\ anchor = prior[p] /\ anchor' = cand[p]
      /\ pc' = [pc EXCEPT ![p] = "return"] \/ pc' = [pc EXCEPT ![p] = "confirm"]
      /\ UNCHANGED <<flight, reported, tables, locals>>
  BY DEF CasUpdated, CompareAndSet, Goto
<1>2. cand[p] \in Candidates /\ prior[p] = Front(cand[p]) /\ NewEntry(cand[p])
  BY <1>1 DEF LedgerInv, CallShape, CallFresh
<1> QED  BY <1>1, <1>2, AnchorGrows

\* So does a request that arrives after its caller has given up.
LEMMA ArriveKeeps ==
  ASSUME LedgerInv, NEW r \in flight, Arrive(r)
  PROVE  LedgerInv' /\ IsPrefix(anchor, anchor') /\ anchor' \in Histories
<1>1. /\ flight' = flight \ {r}
      /\ UNCHANGED <<reported, tables, pc, locals>>
      /\ (anchor = r[1] /\ anchor' = r[2]) \/ anchor' = anchor
  BY DEF Arrive, CompareAndSet
<1>2. r[2] \in Candidates /\ r[1] = Front(r[2]) /\ NewEntry(r[2])
  BY DEF LedgerInv, TypeOK, FlightShape
<1>3. CASE anchor = r[1] /\ anchor' = r[2]
  BY <1>1, <1>2, <1>3, AnchorGrows
<1>4. CASE anchor' = anchor
  <2>1. TypeOK' /\ CallShape' /\ Confirmed'
    BY <1>1, <1>4 DEF LedgerInv, TypeOK, CallShape, Confirmed, tables, locals
  <2>2. CallFresh' /\ AppendShape' /\ FlightShape' /\ RowShape'
    BY <1>1, <1>4 DEF LedgerInv, CallFresh, AppendShape, FlightShape, RowShape,
       NewEntry, Fresh, tables, locals
  <2>3. IsPrefix(anchor, anchor') /\ anchor' \in Histories
    BY <1>4, HistoryOrder DEF LedgerInv, TypeOK
  <2> QED  BY <2>1, <2>2, <2>3 DEF LedgerInv
<1> QED  BY <1>1, <1>3, <1>4

\* A transaction of the local registry appends one new entry.
LEMMA InsertGrows ==
  ASSUME LedgerInv, NEW c \in Copies, NEW a \in Attestations, Insert(c, a)
  PROVE  /\ journal' \in [Copies -> Histories]
         /\ \A d \in Copies : IsPrefix(journal[d], journal'[d])
         /\ journal'[c] = Append(journal[c], a)
         /\ journal'[c] \in Candidates /\ NewEntry(journal'[c])
         /\ Front(journal'[c]) = journal[c]
         /\ foreign' \subseteq Copies
<1>1. journal[c] \in Histories /\ Len(journal[c]) < MaxHistory /\ Fresh(a, journal[c])
  BY DEF LedgerInv, TypeOK, Insert
<1>2. PICK h \in Candidates : /\ h = Append(journal[c], a) /\ Front(h) = journal[c] /\ Last(h) = a
                              /\ IsPrefix(journal[c], h)
  BY <1>1, AppendIs
<1>3. journal' = [journal EXCEPT ![c] = h] /\ foreign' = foreign \cup {c}
  BY <1>2 DEF Insert
<1>4. h \in Histories /\ NewEntry(h)
  BY <1>1, <1>2, CandidateIs DEF NewEntry
<1>5. \A d \in Copies : IsPrefix(journal[d], journal[d])
  BY HistoryOrder DEF LedgerInv, TypeOK
<1>6. journal'[c] = h
  BY <1>3 DEF LedgerInv, TypeOK
<1> QED  BY <1>2, <1>3, <1>4, <1>5, <1>6 DEF LedgerInv, TypeOK

\* The length check after the commit shows that the copy was at the prior read.
LEMMA RecordLegacyKeeps ==
  ASSUME LedgerInv, NEW p \in Callers, RecordLegacy(p)
  PROVE  LedgerInv'
<1>1. /\ pc[p] = "append" /\ at[p] \in Copies /\ cand[p] \in Candidates
      /\ prior[p] \in Histories /\ IsPrefix(prior[p], anchor)
      /\ IsPrefix(prior[p], journal[at[p]]) /\ journal[at[p]] \in Histories
  BY DEF RecordLegacy, LedgerInv, TypeOK, CallShape, AppendShape
<1>2. Last(cand[p]) \in Attestations
  BY <1>1, CandidateIs
<1>3. Insert(at[p], Last(cand[p])) /\ UNCHANGED <<anchor, flight, reported>> /\ UNCHANGED pending
  BY DEF RecordLegacy, Insert
<1>4. /\ journal' \in [Copies -> Histories]
      /\ \A d \in Copies : IsPrefix(journal[d], journal'[d])
      /\ journal'[at[p]] \in Candidates /\ NewEntry(journal'[at[p]])
      /\ Front(journal'[at[p]]) = journal[at[p]]
      /\ foreign' \subseteq Copies
  BY <1>1, <1>2, <1>3, InsertGrows
<1>5. CASE Leave(p)
  BY <1>1, <1>3, <1>4, <1>5, LeaveKeeps DEF LedgerInv, TypeOK
<1>6. CASE ~Leave(p)
  <2>1. /\ Len(journal'[at[p]]) = Len(prior[p]) + 1
        /\ pc' = [pc EXCEPT ![p] = "cas"]
        /\ cand' = [cand EXCEPT ![p] = journal'[at[p]]]
        /\ UNCHANGED <<job, at, prior, calls>>
    BY <1>6 DEF RecordLegacy, Successor, Goto
  <2>2. journal[at[p]] = prior[p]
    <3>1. Len(journal'[at[p]]) = Len(journal[at[p]]) + 1
      BY <1>4, CandidateIs
    <3>2. Len(journal[at[p]]) \in Nat /\ Len(prior[p]) \in Nat
      BY <1>1, HistoryOrder
    <3> QED  BY <1>1, <2>1, <3>1, <3>2, HistoryOrder
  <2>3. TypeOK'
    BY <1>1, <1>3, <1>4, <2>1, CandidateIs DEF LedgerInv, TypeOK, Points
  <2>4. CallShape'
    BY <1>1, <1>3, <1>4, <2>1, <2>2 DEF LedgerInv, TypeOK, CallShape
  <2>5. CallFresh' /\ Confirmed'
    BY <1>3, <1>4, <2>1 DEF LedgerInv, TypeOK, CallFresh, Confirmed, NewEntry, Fresh
  <2>6. FlightShape' /\ RowShape'
    BY <1>3 DEF LedgerInv, FlightShape, RowShape, NewEntry, Fresh
  <2>7. AppendShape'
    <3> SUFFICES ASSUME NEW q \in Callers, pc'[q] = "append"
                 PROVE  IsPrefix(prior[q], journal'[at[q]])
      BY <2>1 DEF AppendShape
    <3>1. pc[q] = "append" /\ at[q] \in Copies
      BY <2>1 DEF LedgerInv, TypeOK
    <3>2. IsPrefix(prior[q], journal[at[q]]) /\ IsPrefix(journal[at[q]], journal'[at[q]])
      BY <1>4, <3>1 DEF LedgerInv, AppendShape
    <3>3. prior[q] \in Histories /\ journal[at[q]] \in Histories /\ journal'[at[q]] \in Histories
      BY <1>4, <3>1 DEF LedgerInv, TypeOK
    <3> QED  BY <3>2, <3>3, HistoryOrder
  <2> QED  BY <2>3, <2>4, <2>5, <2>6, <2>7 DEF LedgerInv
<1> QED  BY <1>5, <1>6

\* A local call only makes a copy grow.
LEMMA RecordLocallyKeeps ==
  ASSUME LedgerInv, NEW c \in Copies, NEW a \in Attestations, RecordLocally(c, a)
  PROVE  LedgerInv'
<1>1. /\ Insert(c, a) /\ calls < MaxCalls /\ calls' = calls + 1 /\ UNCHANGED pending
      /\ UNCHANGED <<anchor, flight, reported, pc, job, at, prior, cand>>
  BY DEF RecordLocally, Insert
<1>2. /\ journal' \in [Copies -> Histories] /\ foreign' \subseteq Copies
      /\ \A d \in Copies : IsPrefix(journal[d], journal'[d])
  BY <1>1, InsertGrows
<1>3. TypeOK'
  BY <1>1, <1>2, RegistryAssumption DEF LedgerInv, TypeOK
<1>4. CallShape' /\ CallFresh' /\ Confirmed' /\ FlightShape' /\ RowShape'
  BY <1>1 DEF LedgerInv, CallShape, CallFresh, Confirmed, FlightShape, RowShape, NewEntry, Fresh
<1>5. AppendShape'
  <2> SUFFICES ASSUME NEW q \in Callers, pc[q] = "append"
               PROVE  IsPrefix(prior[q], journal'[at[q]])
    BY <1>1 DEF AppendShape
  <2>1. at[q] \in Copies /\ prior[q] \in Histories
    BY DEF LedgerInv, TypeOK
  <2>2. IsPrefix(prior[q], journal[at[q]]) /\ IsPrefix(journal[at[q]], journal'[at[q]])
    BY <1>2, <2>1 DEF LedgerInv, AppendShape
  <2>3. journal[at[q]] \in Histories /\ journal'[at[q]] \in Histories
    BY <1>2, <2>1 DEF LedgerInv, TypeOK
  <2> QED  BY <2>1, <2>2, <2>3, HistoryOrder
<1> QED  BY <1>3, <1>4, <1>5 DEF LedgerInv

\* A restored copy has rows and a journal that were legal where they came from.
LEMMA RestoreKeeps ==
  ASSUME LedgerInv, NEW c \in Copies, NEW d \in Copies, Restore(c, d)
  PROVE  LedgerInv'
<1>1. /\ \A p \in Callers : at[p] # c
      /\ journal' = [journal EXCEPT ![c] = journal[d]]
      /\ pending' = [pending EXCEPT ![c] = pending[d]]
      /\ foreign' = foreign \cup {c}
      /\ UNCHANGED <<anchor, flight, reported, pc, locals>>
  BY DEF Restore
<1>2. TypeOK'
  BY <1>1 DEF LedgerInv, TypeOK, locals
<1>3. CallShape' /\ CallFresh' /\ Confirmed' /\ FlightShape'
  BY <1>1 DEF LedgerInv, CallShape, CallFresh, Confirmed, FlightShape, NewEntry, Fresh, locals
<1>4. AppendShape'
  BY <1>1 DEF LedgerInv, TypeOK, AppendShape, locals
<1>5. RowShape'
  BY <1>1 DEF LedgerInv, TypeOK, RowShape, NewEntry, Fresh
<1> QED  BY <1>2, <1>3, <1>4, <1>5 DEF LedgerInv

\* The invariant is a state predicate.
LEMMA StutterKeeps ==
  ASSUME LedgerInv, UNCHANGED vars
  PROVE  LedgerInv'
BY DEF vars, LedgerInv, TypeOK, CallShape, CallFresh, FlightShape, RowShape, Confirmed,
   AppendShape, NewEntry, Fresh

\* LedgerInv is inductive.
LEMMA LedgerStep == LedgerInv /\ [Next]_vars => LedgerInv'
<1> SUFFICES ASSUME LedgerInv, [Next]_vars PROVE LedgerInv'
  OBVIOUS
<1>1. ASSUME NEW p \in Callers, CallerStep(p)
      PROVE  LedgerInv'
  BY <1>1, SubmitKeeps, RecoverKeeps, PersistKeeps, MovesKeep, LeavesKeep, CasUpdatedKeeps,
     CasTimeoutKeeps, RecordLegacyKeeps, Zenon DEF CallerStep
<1> QED  BY <1>1, ArriveKeeps, RecordLocallyKeeps, RestoreKeeps, StutterKeeps, Zenon DEF Next

-----------------------------------------------------------------------------
(***************************************************************************)
(* The registry is one log without replays.                                *)
(***************************************************************************)

(***************************************************************************)
(* A step that moves the anchor appends to it an entry that is new.        *)
(***************************************************************************)
LEMMA AnchorAccepts ==
  ASSUME LedgerInv, NEW h \in Candidates, NewEntry(h), anchor = Front(h), anchor' = h,
         UNCHANGED reported
  PROVE  Ledger!LedgerNext
<1>1. h \in Seq(Attestations) /\ h # <<>>
  BY HistoryIsSeq DEF Candidates
<1>2. Last(h) \in Attestations /\ h = Append(anchor, Last(h))
  BY <1>1, SplitLast
<1>3. Ledger!Fresh(Last(h), anchor)
  BY DEF NewEntry, Fresh, Clash, Ledger!Fresh, Ledger!Clash
<1>4. Ledger!Accept(Last(h))
  BY <1>2, <1>3 DEF Ledger!Accept
<1> QED  BY <1>2, <1>4 DEF Ledger!LedgerNext

(***************************************************************************)
(* A call that returns reports a history the anchor went through.          *)
(***************************************************************************)
LEMMA ReturnReports ==
  ASSUME LedgerInv, NEW p \in Callers, pc[p] \in {"replayed", "record", "return"},
         Return(p), UNCHANGED anchor
  PROVE  Ledger!LedgerNext
<1>1. cand[p] \in Candidates /\ IsPrefix(cand[p], anchor) /\ anchor \in Histories
  BY DEF LedgerInv, TypeOK, CallShape, Confirmed
<1>2. /\ cand[p] \in Seq(Attestations) /\ anchor \in Seq(Attestations) /\ cand[p] # <<>>
  BY <1>1, HistoryIsSeq DEF Candidates
<1>3. Len(cand[p]) \in 1..Len(anchor)
  BY <1>1, <1>2, EmptySeq, LenProperties DEF IsPrefix
<1>4. SubSeq(anchor, 1, Len(cand[p])) = cand[p]
  BY <1>1, <1>2 DEF IsPrefix
<1>5. Ledger!Report(Len(cand[p]))
  BY <1>4 DEF Ledger!Report, Return
<1> QED  BY <1>3, <1>5 DEF Ledger!LedgerNext

(***************************************************************************)
(* Every step of the registry is a step of the ledger or leaves it alone.  *)
(***************************************************************************)
LEMMA StepSimulation ==
  LedgerInv /\ [Next]_vars => [Ledger!LedgerNext]_<<anchor, reported>>
<1> SUFFICES ASSUME LedgerInv, Next
             PROVE  Ledger!LedgerNext \/ UNCHANGED <<anchor, reported>>
  BY DEF vars
<1>1. ASSUME NEW p \in Callers, CasUpdated(p)
      PROVE  Ledger!LedgerNext
  <2>1. pc[p] = "cas" /\ anchor = prior[p] /\ anchor' = cand[p] /\ UNCHANGED reported
    BY <1>1 DEF CasUpdated, CompareAndSet, Goto
  <2>2. cand[p] \in Candidates /\ prior[p] = Front(cand[p]) /\ NewEntry(cand[p])
    BY <2>1 DEF LedgerInv, CallShape, CallFresh
  <2> QED  BY <2>1, <2>2, AnchorAccepts
<1>2. ASSUME NEW r \in flight, Arrive(r)
      PROVE  Ledger!LedgerNext \/ UNCHANGED <<anchor, reported>>
  <2>1. r[2] \in Candidates /\ r[1] = Front(r[2]) /\ NewEntry(r[2])
    BY DEF LedgerInv, TypeOK, FlightShape
  <2>2. UNCHANGED reported /\ ((anchor = r[1] /\ anchor' = r[2]) \/ UNCHANGED anchor)
    BY <1>2 DEF Arrive, CompareAndSet
  <2> QED  BY <2>1, <2>2, AnchorAccepts
<1>3. ASSUME NEW p \in Callers, MarkFinalized(p) \/ Record(p) \/ ReturnLegacy(p)
      PROVE  Ledger!LedgerNext
  <2>1. Return(p) /\ UNCHANGED anchor /\ pc[p] \in {"replayed", "record", "return"}
    BY <1>3 DEF MarkFinalized, Record, ReturnLegacy
  <2> QED  BY <2>1, ReturnReports
<1>4. ASSUME NEW p \in Callers, CallerStep(p)
      PROVE  Ledger!LedgerNext \/ UNCHANGED <<anchor, reported>>
  BY <1>1, <1>3, <1>4 DEF CallerStep, Submit, SubmitLegacy, Recover, Raise, Persist, Reread,
     CasConflict, CasTimeout, ObserveRefused, MarkConflict, Confirm, Finalize, Reenter,
     ReadLocalLegacy, RecordLegacy
<1> QED  BY <1>2, <1>4 DEF Next, RecordLocally, Restore

(***************************************************************************)
(* Type correctness of the registry, with the facts that make it           *)
(* inductive: a request for the anchor always is the next entry.           *)
(***************************************************************************)
THEOREM RegistryTypes == Spec => []TypeOK
<1>1. Init => LedgerInv
  BY InitInv DEF HoldInv
<1>2. LedgerInv => TypeOK
  BY DEF LedgerInv
<1> QED  BY <1>1, <1>2, LedgerStep, PTL DEF Spec

(***************************************************************************)
(* The registry implements the ledger, for any number of copies, callers,  *)
(* attestations and lost requests: the anchor accepts no run id or nonce   *)
(* twice, only grows, and every call answered "valid" names a head that it *)
(* went through.                                                           *)
(***************************************************************************)
THEOREM RegistryImplementsLedger == Spec => ImplementsLedger
<1>1. Init => LedgerInv
  BY InitInv DEF HoldInv
<1>2. Init => Ledger!LedgerInit
  BY DEF Init, Ledger!LedgerInit
<1> QED  BY <1>1, <1>2, LedgerStep, StepSimulation, PTL
         DEF Spec, ImplementsLedger, Ledger!LedgerSpec
-----------------------------------------------------------------------------
(***************************************************************************)
(* What the pending-first adapter adds to the ledger: finalized rows are   *)
(* anchored, copies it alone writes are never ahead of the anchor, and the *)
(* anchored head can always be recovered.  The three need each other, so   *)
(* they are proved together: HoldInv is inductive.                         *)
(***************************************************************************)

(***************************************************************************)
(* Every step either leaves the anchor alone or moves it by the entry of a *)
(* request that some call or lost message carried.                         *)
(***************************************************************************)
LEMMA AnchorStep ==
  ASSUME LedgerInv, Next
  PROVE  \/ UNCHANGED anchor
         \/ \E p \in Callers : CasUpdated(p)
         \/ \E r \in flight : Arrive(r) /\ anchor = r[1] /\ anchor' = r[2]
<1>1. ASSUME NEW p \in Callers, CallerStep(p)
      PROVE  UNCHANGED anchor \/ CasUpdated(p)
  BY <1>1 DEF CallerStep, Submit, SubmitLegacy, Recover, Raise, Persist, Reread,
     CasConflict, CasTimeout, ObserveRefused, MarkConflict, Confirm, Finalize, Reenter,
     ReadLocalLegacy, RecordLegacy, MarkFinalized, Record, ReturnLegacy
<1>2. ASSUME NEW r \in flight, Arrive(r)
      PROVE  UNCHANGED anchor \/ (anchor = r[1] /\ anchor' = r[2])
  BY <1>2 DEF Arrive, CompareAndSet
<1> QED  BY <1>1, <1>2 DEF Next, RecordLocally, Restore

\* The anchor grows by one entry at a time, and then no table changes.
LEMMA AnchorMoves ==
  ASSUME LedgerInv, Next
  PROVE  /\ IsPrefix(anchor, anchor') /\ anchor \in Histories /\ anchor' \in Histories
         /\ \/ UNCHANGED anchor
            \/ /\ anchor' \in Candidates /\ anchor = Front(anchor')
               /\ Len(anchor') = Len(anchor) + 1
               /\ UNCHANGED tables
<1>1. anchor \in Histories /\ IsPrefix(anchor, anchor)
  BY HistoryOrder DEF LedgerInv, TypeOK
<1>2. CASE UNCHANGED anchor
  BY <1>1, <1>2
<1>3. ASSUME NEW p \in Callers, CasUpdated(p)
      PROVE  anchor' \in Candidates /\ anchor = Front(anchor') /\ UNCHANGED tables
  <2>1. pc[p] = "cas" /\ anchor = prior[p] /\ anchor' = cand[p] /\ UNCHANGED tables
    BY <1>3 DEF CasUpdated, CompareAndSet, Goto
  <2> QED  BY <2>1 DEF LedgerInv, CallShape
<1>4. ASSUME NEW r \in flight, Arrive(r), anchor = r[1], anchor' = r[2]
      PROVE  anchor' \in Candidates /\ anchor = Front(anchor') /\ UNCHANGED tables
  BY <1>4 DEF Arrive, LedgerInv, TypeOK, FlightShape
<1>5. CASE anchor' \in Candidates /\ anchor = Front(anchor') /\ UNCHANGED tables
  BY <1>1, <1>5, CandidateIs
<1> QED  BY <1>2, <1>3, <1>4, <1>5, AnchorStep

(***************************************************************************)
(* Which steps write to the tables of a copy.                              *)
(***************************************************************************)
RowWrite(p) == Persist(p) \/ MarkConflict(p) \/ MarkFinalized(p) \/ Record(p)

\* Every step writes no table, one row, one entry, or a whole copy.
LEMMA TablesStep ==
  ASSUME LedgerInv, Next
  PROVE  \/ UNCHANGED tables
         \/ \E p \in Callers : RowWrite(p)
         \/ \E c \in Copies, a \in Attestations : Insert(c, a) /\ UNCHANGED anchor
         \/ \E c, d \in Copies : Restore(c, d)
<1>1. ASSUME NEW p \in Callers, RecordLegacy(p)
      PROVE  \E c \in Copies, a \in Attestations : Insert(c, a) /\ UNCHANGED anchor
  <2>1. pc[p] = "append" /\ Insert(at[p], Last(cand[p])) /\ UNCHANGED anchor
    BY <1>1 DEF RecordLegacy
  <2>2. at[p] \in Copies /\ cand[p] \in Candidates
    BY <2>1 DEF LedgerInv, TypeOK, CallShape
  <2>3. Last(cand[p]) \in Attestations
    BY <2>2, CandidateIs
  <2> QED  BY <2>1, <2>2, <2>3
<1>2. ASSUME NEW p \in Callers, CallerStep(p)
      PROVE  UNCHANGED tables \/ RowWrite(p) \/ RecordLegacy(p)
  BY <1>2 DEF CallerStep, RowWrite, Submit, SubmitLegacy, Recover, Raise, Reread, CasUpdated,
     CasConflict, CasTimeout, ObserveRefused, Confirm, Finalize, Reenter, ReadLocalLegacy,
     ReturnLegacy
<1>3. ASSUME NEW r \in flight, Arrive(r)
      PROVE  UNCHANGED tables
  BY <1>3 DEF Arrive
<1>4. ASSUME NEW c \in Copies, NEW a \in Attestations, RecordLocally(c, a)
      PROVE  Insert(c, a) /\ UNCHANGED anchor
  BY <1>4 DEF RecordLocally
<1> QED  BY <1>1, <1>2, <1>3, <1>4 DEF Next

(***************************************************************************)
(* What a call of the pending-first adapter writes: its own row, and the   *)
(* journal only when the anchor is known to have been at the candidate.    *)
(***************************************************************************)
LEMMA RowWriteIs ==
  ASSUME LedgerInv, NEW p \in Callers, RowWrite(p)
  PROVE  /\ UNCHANGED <<anchor, flight, foreign>>
         /\ at[p] \in Copies /\ cand[p] \in Candidates /\ prior[p] = Front(cand[p])
         /\ \A c \in Copies :
               \/ journal'[c] = journal[c]
               \/ /\ c = at[p] /\ journal[c] = Front(cand[p]) /\ journal'[c] = cand[p]
                  /\ IsPrefix(cand[p], anchor)
         /\ \A c \in Copies : journal'[c] \in Histories /\ IsPrefix(journal[c], journal'[c])
         /\ \A c \in Copies, h \in Candidates :
               \/ pending'[c][h] = pending[c][h]
               \/ /\ c = at[p] /\ h = cand[p] /\ journal[c] = Front(h)
                  /\ pending'[c][h] = "PREPARED"
               \/ /\ c = at[p] /\ h = cand[p] /\ pc[p] = "mark"
                  /\ pending[c][h] # "none" /\ pending'[c][h] = "CONFLICT"
               \/ /\ c = at[p] /\ h = cand[p]
                  /\ IsPrefix(h, anchor) /\ IsPrefix(h, journal'[c])
                  /\ pending[c][h] # "none" /\ pending'[c][h] = "FINALIZED"
<1>1. /\ at[p] \in Copies /\ cand[p] \in Candidates /\ prior[p] = Front(cand[p])
      /\ pc[p] \in {"replayed", "record"} => IsPrefix(cand[p], anchor)
      /\ pc[p] # "idle"
  BY DEF RowWrite, Persist, MarkConflict, MarkFinalized, Record, Goto, LedgerInv, TypeOK,
     CallShape, Confirmed
<1>2. /\ cand[p] \in Histories /\ IsPrefix(Front(cand[p]), cand[p]) /\ IsPrefix(cand[p], cand[p])
  BY <1>1, CandidateIs, HistoryOrder
<1>3. /\ \A c \in Copies : journal[c] \in Histories /\ IsPrefix(journal[c], journal[c])
      /\ pending \in [Copies -> [Candidates -> Statuses]]
      /\ journal \in [Copies -> Histories]
  BY HistoryOrder DEF LedgerInv, TypeOK
<1>4. CASE Persist(p)
  <2>1. /\ journal' = journal /\ UNCHANGED <<anchor, flight, foreign>>
        /\ journal[at[p]] = Front(cand[p])
        /\ pending' = pending \/ pending' = [pending EXCEPT ![at[p]][cand[p]] = "PREPARED"]
    BY <1>1, <1>4 DEF Persist, SetStatus
  <2> QED  BY <1>1, <1>3, <2>1
<1>5. CASE MarkConflict(p)
  <2>1. /\ journal' = journal /\ UNCHANGED <<anchor, flight, foreign>> /\ pc[p] = "mark"
        /\ \/ pending' = [pending EXCEPT ![at[p]][cand[p]] = "CONFLICT"]
              /\ pending[at[p]][cand[p]] # "none"
           \/ pending' = [pending EXCEPT ![at[p]][cand[p]] = "none"]
              /\ pending[at[p]][cand[p]] = "none"
    BY <1>5 DEF MarkConflict, SetStatus, Status
  <2> QED  BY <1>1, <1>3, <2>1
<1>6. CASE MarkFinalized(p)
  <2>1. /\ journal' = journal /\ UNCHANGED <<anchor, flight, foreign>>
        /\ IsPrefix(cand[p], anchor) /\ IsPrefix(cand[p], journal[at[p]])
        /\ pending' = [pending EXCEPT ![at[p]][cand[p]] = "FINALIZED"]
        /\ pending[at[p]][cand[p]] # "none"
    BY <1>1, <1>6 DEF MarkFinalized, SetStatus, Status, RecoveryPlan
  <2> QED  BY <1>1, <1>3, <2>1
<1>7. CASE Record(p)
  <2>1. /\ journal' = [journal EXCEPT ![at[p]] = cand[p]] /\ UNCHANGED <<anchor, flight, foreign>>
        /\ IsPrefix(cand[p], anchor) /\ journal[at[p]] = Front(cand[p])
        /\ pending' = [pending EXCEPT ![at[p]][cand[p]] = "FINALIZED"]
        /\ pending[at[p]][cand[p]] # "none"
    BY <1>1, <1>7 DEF Record, SetStatus, Status
  <2> QED  BY <1>1, <1>2, <1>3, <2>1
<1> QED  BY <1>4, <1>5, <1>6, <1>7 DEF RowWrite

-----------------------------------------------------------------------------
(***************************************************************************)
(* A finalized row stays about an anchored history; new ones are written   *)
(* by calls that saw the anchor there; restored ones come with the journal *)
(* that accepted them.                                                     *)
(***************************************************************************)
LEMMA FinalizedStep ==
  ASSUME LedgerInv, FinalizedIsAnchored, Next
  PROVE  FinalizedIsAnchored'
<1> SUFFICES ASSUME NEW c \in Copies, NEW h \in Candidates, pending'[c][h] = "FINALIZED"
             PROVE  IsPrefix(h, anchor') /\ IsPrefix(h, journal'[c])
  BY DEF FinalizedIsAnchored
<1>1. h \in Histories /\ \A d \in Copies : journal[d] \in Histories
  BY CandidateIs DEF LedgerInv, TypeOK
<1>2. anchor \in Histories /\ anchor' \in Histories /\ IsPrefix(anchor, anchor')
  BY AnchorMoves
<1>3. IsPrefix(h, anchor) => IsPrefix(h, anchor')
  BY <1>1, <1>2, HistoryOrder
<1>4. CASE UNCHANGED tables
  BY <1>3, <1>4 DEF FinalizedIsAnchored, tables
<1>5. ASSUME NEW p \in Callers, RowWrite(p)
      PROVE  IsPrefix(h, anchor) /\ IsPrefix(h, journal'[c])
  <2>1. journal'[c] \in Histories /\ IsPrefix(journal[c], journal'[c])
    BY <1>5, RowWriteIs
  <2>2. \/ pending[c][h] = "FINALIZED"
        \/ IsPrefix(h, anchor) /\ IsPrefix(h, journal'[c])
    BY <1>5, RowWriteIs
  <2> QED  BY <1>1, <2>1, <2>2, HistoryOrder DEF FinalizedIsAnchored
<1>6. ASSUME NEW d \in Copies, NEW a \in Attestations, Insert(d, a)
      PROVE  IsPrefix(h, anchor) /\ IsPrefix(h, journal'[c])
  <2>1. journal'[c] \in Histories /\ IsPrefix(journal[c], journal'[c])
    BY <1>6, InsertGrows
  <2>2. pending[c][h] = "FINALIZED"
    BY <1>6 DEF Insert
  <2> QED  BY <1>1, <2>1, <2>2, HistoryOrder DEF FinalizedIsAnchored
<1>7. ASSUME NEW e \in Copies, NEW d \in Copies, Restore(e, d)
      PROVE  IsPrefix(h, anchor) /\ IsPrefix(h, journal'[c])
  <2>1. PICK b \in Copies : journal'[c] = journal[b] /\ pending'[c] = pending[b]
    BY <1>7 DEF Restore, LedgerInv, TypeOK
  <2> QED  BY <2>1 DEF FinalizedIsAnchored
<1> QED  BY <1>3, <1>4, <1>5, <1>6, <1>7, TablesStep

(***************************************************************************)
(* A copy that only the adapter writes stays behind the anchor, and keeps  *)
(* having accepted what its rows are built on.                             *)
(***************************************************************************)
LEMMA OwnCopyStep ==
  ASSUME LedgerInv, LocalNeverAhead, RowPrior, Next
  PROVE  LocalNeverAhead' /\ RowPrior' /\ foreign \subseteq foreign'
<1>1. /\ \A d \in Copies : journal[d] \in Histories
      /\ \A h \in Candidates : Front(h) \in Histories
  BY CandidateIs DEF LedgerInv, TypeOK
<1>2. anchor \in Histories /\ anchor' \in Histories /\ IsPrefix(anchor, anchor')
  BY AnchorMoves
<1>3. CASE UNCHANGED tables
  <2>1. LocalNeverAhead'
    BY <1>1, <1>2, <1>3, HistoryOrder DEF LocalNeverAhead, tables
  <2> QED  BY <1>3, <2>1 DEF RowPrior, tables
<1>4. ASSUME NEW p \in Callers, RowWrite(p)
      PROVE  LocalNeverAhead' /\ RowPrior' /\ foreign \subseteq foreign'
  <2>1. UNCHANGED <<anchor, foreign>>
    BY <1>4, RowWriteIs
  <2>2. LocalNeverAhead'
    BY <1>4, <2>1, RowWriteIs DEF LocalNeverAhead
  <2>3. ASSUME NEW c \in Copies \ foreign, NEW h \in Candidates, pending'[c][h] # "none"
        PROVE  IsPrefix(Front(h), journal'[c])
    <3>1. journal'[c] \in Histories /\ IsPrefix(journal[c], journal'[c])
      BY <1>4, RowWriteIs
    <3>2. pending[c][h] # "none" \/ journal[c] = Front(h)
      BY <1>4, <2>3, RowWriteIs
    <3>3. IsPrefix(Front(h), journal[c])
      BY <1>1, <3>2, HistoryOrder DEF RowPrior
    <3> QED  BY <1>1, <3>1, <3>3, HistoryOrder
  <2> QED  BY <2>1, <2>2, <2>3 DEF RowPrior
<1>5. ASSUME NEW d \in Copies, NEW a \in Attestations, Insert(d, a), UNCHANGED anchor
      PROVE  LocalNeverAhead' /\ RowPrior' /\ foreign \subseteq foreign'
  <2>1. /\ foreign' = foreign \cup {d} /\ UNCHANGED pending
        /\ \A c \in Copies \ foreign' : journal'[c] = journal[c]
    BY <1>5 DEF Insert, LedgerInv, TypeOK
  <2> QED  BY <1>5, <2>1 DEF LocalNeverAhead, RowPrior
<1>6. ASSUME NEW e \in Copies, NEW d \in Copies, Restore(e, d)
      PROVE  LocalNeverAhead' /\ RowPrior' /\ foreign \subseteq foreign'
  <2>1. /\ foreign' = foreign \cup {e} /\ UNCHANGED anchor
        /\ \A c \in Copies \ foreign' : journal'[c] = journal[c] /\ pending'[c] = pending[c]
    BY <1>6 DEF Restore, LedgerInv, TypeOK
  <2> QED  BY <2>1 DEF LocalNeverAhead, RowPrior
<1> QED  BY <1>3, <1>4, <1>5, <1>6, TablesStep DEF tables

-----------------------------------------------------------------------------
(***************************************************************************)
(* A step of one caller leaves the others where they are.                  *)
(***************************************************************************)
LEMMA OthersStay ==
  ASSUME LedgerInv, NEW p \in Callers, NEW q \in Callers, p # q, CallerStep(p)
  PROVE  pc'[q] = pc[q] /\ at'[q] = at[q] /\ cand'[q] = cand[q]
<1>1. pc \in [Callers -> Points] /\ at \in [Callers -> Copies \cup {"none"}]
      /\ cand \in [Callers -> Histories]
  BY DEF LedgerInv, TypeOK
<1>3. /\ \E b : pc' = [pc EXCEPT ![p] = b]
      /\ at' = at \/ \E b : at' = [at EXCEPT ![p] = b]
      /\ cand' = cand \/ \E b : cand' = [cand EXCEPT ![p] = b]
  <2>1. CASE \/ \E c \in Copies, a \in Attestations : Submit(p, c, a) \/ SubmitLegacy(p, c, a)
             \/ \E c \in Copies, h \in Candidates : Recover(p, c, h)
    BY <2>1, Zenon DEF Submit, SubmitLegacy, Recover, Call, Goto
  <2>2. CASE Raise(p) \/ MarkConflict(p) \/ MarkFinalized(p) \/ Record(p) \/ ReturnLegacy(p)
    BY <2>2, Zenon DEF Raise, MarkConflict, MarkFinalized, Record, ReturnLegacy, Return, Leave
  <2>3. CASE CasTimeout(p) \/ RecordLegacy(p)
    <3>1. CASE Leave(p)
      BY <3>1, Zenon DEF Leave
    <3>2. CASE ~Leave(p)
      <4>1. /\ \E b : pc' = [pc EXCEPT ![p] = b]
            /\ at' = at
            /\ cand' = cand \/ cand' = [cand EXCEPT ![p] = journal'[at[p]]]
        BY <2>3, <3>2 DEF CasTimeout, RecordLegacy, Goto, locals
      <4> QED  BY <4>1, Zenon
    <3> QED  BY <3>1, <3>2
  <2>4. CASE \/ Persist(p) \/ Reread(p) \/ CasUpdated(p) \/ CasConflict(p) \/ ObserveRefused(p)
             \/ Confirm(p) \/ Finalize(p) \/ Reenter(p) \/ ReadLocalLegacy(p)
    <3>1. UNCHANGED locals /\ \E b : pc' = [pc EXCEPT ![p] = b]
      BY <2>4, Zenon DEF Persist, Reread, CasUpdated, CasConflict, ObserveRefused, Confirm,
         Finalize, Reenter, ReadLocalLegacy, Goto
    <3> QED  BY <3>1 DEF locals
  <2> QED  BY <2>1, <2>2, <2>3, <2>4 DEF CallerStep
<1> QED  BY <1>1, <1>3

(***************************************************************************)
(* How a call gets to the points where it holds a conflict.                *)
(***************************************************************************)
LEMMA ConflictPoint ==
  ASSUME LedgerInv, Next, NEW q \in Callers, pc'[q] \in {"mark", "refused"}
  PROVE  /\ cand'[q] = cand[q] /\ pc[q] # "idle"
         /\ \/ pc'[q] = pc[q]
            \/ UNCHANGED anchor /\ pc'[q] = "mark" /\ pc[q] = "refused" /\ anchor # cand[q]
            \/ UNCHANGED anchor /\ anchor \notin {prior[q], cand[q]}
            \/ UNCHANGED anchor /\ pc'[q] = "refused" /\ anchor # prior[q]
<1>0. pc \in [Callers -> Points] /\ cand \in [Callers -> Histories]
  BY DEF LedgerInv, TypeOK
<1>1. CASE UNCHANGED <<pc, cand>>
  BY <1>1
<1>2. ASSUME NEW p \in Callers, p # q, CallerStep(p)
      PROVE  pc'[q] = pc[q] /\ cand'[q] = cand[q]
  BY <1>2, OthersStay
<1>3. CASE CallerStep(q)
  <2>1. Reread(q) \/ CasConflict(q) \/ ObserveRefused(q)
    BY <1>0, <1>3 DEF CallerStep, Submit, SubmitLegacy, Recover, Call, Goto, Raise, Leave, Persist,
       CasUpdated, CasTimeout, MarkConflict, Confirm, Finalize, MarkFinalized, Record, Return,
       Reenter, ReadLocalLegacy, RecordLegacy, ReturnLegacy
  <2> QED  BY <1>0, <2>1 DEF Reread, CasConflict, ObserveRefused, Goto, locals
<1>4. UNCHANGED <<pc, cand>> \/ \E p \in Callers : CallerStep(p)
  BY DEF Next, Arrive, RecordLocally, Restore, locals
<1> QED  BY <1>1, <1>2, <1>3, <1>4

(***************************************************************************)
(* What the anchor has passed it never comes back to, and a call that      *)
(* finds it neither at its prior nor at its candidate has been passed.     *)
(***************************************************************************)
LEMMA ConflictStep ==
  ASSUME LedgerInv, ConflictShape, Next
  PROVE  ConflictShape'
<1>1. /\ anchor \in Histories /\ anchor' \in Histories
      /\ anchor' = anchor \/ Len(anchor') = Len(anchor) + 1
      /\ Len(anchor) \in Nat
  BY AnchorMoves, HistoryOrder
<1>2. ASSUME NEW h \in Histories
      PROVE  /\ Passed(h) => Passed(h)'
             /\ Len(anchor) >= Len(h) => Len(anchor') >= Len(h)
  <2>1. Len(h) \in Nat
    BY HistoryOrder
  <2> QED  BY <1>1, <2>1 DEF Passed
<1>3. ASSUME NEW q \in Callers, pc'[q] \in {"mark", "refused"}
      PROVE  /\ pc'[q] = "mark" => Passed(cand[q])'
             /\ pc'[q] = "refused" => Len(anchor') >= Len(cand'[q])
  <2>1. /\ cand[q] \in Candidates /\ cand[q] \in Histories /\ cand'[q] = cand[q]
        /\ IsPrefix(prior[q], anchor) /\ prior[q] \in Histories
        /\ Len(cand[q]) = Len(prior[q]) + 1
    BY <1>3, ConflictPoint, CandidateIs DEF LedgerInv, TypeOK, CallShape
  <2>2. anchor # prior[q] => Len(anchor) >= Len(cand[q])
    <3>1. Len(prior[q]) \in Nat /\ Len(prior[q]) <= Len(anchor)
          /\ (Len(prior[q]) >= Len(anchor) => prior[q] = anchor)
      BY <1>1, <2>1, HistoryOrder
    <3> QED  BY <1>1, <2>1, <3>1
  <2>3. CASE pc'[q] = pc[q]
    BY <1>2, <1>3, <2>1, <2>3 DEF ConflictShape, Passed
  <2>4. CASE UNCHANGED anchor /\ pc'[q] = "mark" /\ pc[q] = "refused" /\ anchor # cand[q]
    BY <2>1, <2>4 DEF ConflictShape, Passed
  <2>5. CASE UNCHANGED anchor /\ anchor \notin {prior[q], cand[q]}
    BY <2>1, <2>2, <2>5 DEF Passed
  <2>6. CASE UNCHANGED anchor /\ pc'[q] = "refused" /\ anchor # prior[q]
    BY <2>1, <2>2, <2>6 DEF Passed
  <2> QED  BY <1>3, <2>3, <2>4, <2>5, <2>6, ConflictPoint
<1>4. ASSUME NEW c \in Copies, NEW h \in Candidates, pending'[c][h] = "CONFLICT"
      PROVE  Passed(h)'
  <2>1. h \in Histories
    BY CandidateIs
  <2>2. CASE UNCHANGED tables
    BY <1>2, <1>4, <2>1, <2>2 DEF ConflictShape, tables
  <2>3. ASSUME NEW p \in Callers, RowWrite(p)
        PROVE  Passed(h)'
    <3>1. pending[c][h] = "CONFLICT" \/ (h = cand[p] /\ pc[p] = "mark")
      BY <1>4, <2>3, RowWriteIs
    <3> QED  BY <1>2, <2>1, <3>1 DEF ConflictShape
  <2>4. ASSUME NEW d \in Copies, NEW a \in Attestations, Insert(d, a)
        PROVE  Passed(h)'
    BY <1>2, <1>4, <2>1, <2>4 DEF ConflictShape, Insert
  <2>5. ASSUME NEW e \in Copies, NEW d \in Copies, Restore(e, d)
        PROVE  Passed(h)'
    <3>1. PICK b \in Copies : pending'[c] = pending[b]
      BY <2>5 DEF Restore, LedgerInv, TypeOK
    <3> QED  BY <1>2, <1>4, <2>1, <3>1 DEF ConflictShape
  <2> QED  BY <2>2, <2>3, <2>4, <2>5, TablesStep
<1> QED  BY <1>3, <1>4 DEF ConflictShape

(***************************************************************************)
(* Rows are never deleted, so that what may still reach the anchor keeps   *)
(* the row it was staged with.                                             *)
(***************************************************************************)
LEMMA RowsStay ==
  ASSUME LedgerInv, Next, foreign' = {}
  PROVE  /\ UNCHANGED tables \/ \E p \in Callers : RowWrite(p)
         /\ \A c \in Copies, h \in Candidates :
               pending[c][h] # "none" => pending'[c][h] # "none"
<1>1. UNCHANGED tables \/ \E p \in Callers : RowWrite(p)
  BY TablesStep DEF Insert, Restore
<1>2. ASSUME NEW p \in Callers, RowWrite(p), NEW c \in Copies, NEW h \in Candidates,
             pending[c][h] # "none"
      PROVE  pending'[c][h] # "none"
  BY <1>2, RowWriteIs
<1> QED  BY <1>1, <1>2 DEF tables

(***************************************************************************)
(* How a call gets to the points from which it moves the anchor.           *)
(***************************************************************************)
LEMMA RequestPoint ==
  ASSUME LedgerInv, Next, foreign' = {}, NEW q \in Callers, pc'[q] \in {"staged", "cas"}
  PROVE  /\ at'[q] \in Copies /\ cand'[q] \in Candidates
         /\ \/ pc[q] \in {"staged", "cas"} /\ at'[q] = at[q] /\ cand'[q] = cand[q]
            \/ pending'[at'[q]][cand'[q]] # "none"
<1>0. /\ pc \in [Callers -> Points] /\ cand \in [Callers -> Histories]
      /\ at \in [Callers -> Copies \cup {"none"}]
      /\ pending \in [Copies -> [Candidates -> Statuses]]
  BY DEF LedgerInv, TypeOK
<1>1. at'[q] \in Copies /\ cand'[q] \in Candidates
  <2>1. LedgerInv'
    BY LedgerStep
  <2>2. pc'[q] # "idle"
    OBVIOUS
  <2> QED  BY <2>1, <2>2 DEF LedgerInv, TypeOK, CallShape
<1>2. CASE UNCHANGED <<pc, at, cand>>
  BY <1>1, <1>2
<1>3. ASSUME NEW p \in Callers, p # q, CallerStep(p)
      PROVE  pc'[q] = pc[q] /\ at'[q] = at[q] /\ cand'[q] = cand[q]
  BY <1>3, OthersStay
<1>4. CASE CallerStep(q)
  <2>1. \/ \E c \in Copies, h \in Candidates : Recover(q, c, h)
        \/ Persist(q) \/ Reread(q) \/ RecordLegacy(q)
    BY <1>0, <1>4 DEF CallerStep, Submit, SubmitLegacy, Call, Goto, Raise, Leave,
       CasUpdated, CasConflict, CasTimeout, ObserveRefused, MarkConflict, Confirm, Finalize,
       MarkFinalized, Record, Return, Reenter, ReadLocalLegacy, ReturnLegacy
  <2>2. ASSUME NEW c \in Copies, NEW h \in Candidates, Recover(q, c, h)
        PROVE  pending'[at'[q]][cand'[q]] # "none"
    <3>1. at'[q] = c /\ cand'[q] = h /\ pending[c][h] # "none" /\ pending' = pending
      BY <1>0, <2>2 DEF Recover, Call, tables
    <3> QED  BY <3>1
  <2>3. CASE Persist(q)
    <3>1. /\ at' = at /\ cand' = cand /\ pc[q] = "persist"
          /\ \/ pending[at[q]][cand[q]] # "none" /\ pending' = pending
             \/ pending' = [pending EXCEPT ![at[q]][cand[q]] = "PREPARED"]
      BY <2>3 DEF Persist, Goto, SetStatus, Status, locals
    <3> QED  BY <1>0, <1>1, <3>1
  <2>4. CASE Reread(q)
    BY <1>1, <2>4 DEF Reread, Goto, locals
  <2>5. CASE RecordLegacy(q)
    <3>1. foreign' # {}
      BY <2>5 DEF RecordLegacy, Insert
    <3> QED  BY <3>1
  <2> QED  BY <1>1, <2>1, <2>2, <2>3, <2>4, <2>5
<1>5. UNCHANGED <<pc, at, cand>> \/ \E p \in Callers : CallerStep(p)
  BY DEF Next, Arrive, RecordLocally, Restore, locals
<1> QED  BY <1>1, <1>2, <1>3, <1>4, <1>5

\* Only a call that timed out leaves a request behind.
LEMMA FlightStep ==
  ASSUME LedgerInv, Next, NEW r \in flight', r \notin flight
  PROVE  \E p \in Callers : /\ pc[p] = "cas" /\ r = <<prior[p], cand[p]>>
                            /\ at[p] \in Copies /\ cand[p] \in Candidates
<1>1. ASSUME NEW p \in Callers, CallerStep(p)
      PROVE  UNCHANGED flight \/ CasTimeout(p)
  BY <1>1 DEF CallerStep, Submit, SubmitLegacy, Recover, Raise, Persist, Reread, CasUpdated,
     CasConflict, ObserveRefused, MarkConflict, Confirm, Finalize, Reenter,
     ReadLocalLegacy, RecordLegacy, MarkFinalized, Record, ReturnLegacy
<1>2. PICK p \in Callers : CasTimeout(p)
  BY <1>1 DEF Next, Arrive, RecordLocally, Restore
<1>3. pc[p] = "cas" /\ r = <<prior[p], cand[p]>>
  BY <1>2 DEF CasTimeout, Goto
<1> QED  BY <1>3 DEF LedgerInv, TypeOK, CallShape

(***************************************************************************)
(* Whatever may still reach the anchor keeps a row, or gets one before it  *)
(* is sent: a candidate is staged before the compare-and-set.              *)
(***************************************************************************)
LEMMA RequestStep ==
  ASSUME LedgerInv, RequestHeld, Next, foreign \subseteq foreign'
  PROVE  RequestHeld'
<1> SUFFICES ASSUME foreign' = {}
             PROVE  /\ \A q \in Callers :
                          pc'[q] \in {"staged", "cas"} => pending'[at'[q]][cand'[q]] # "none"
                    /\ \A r \in flight' : \E c \in Copies : pending'[c][r[2]] # "none"
  BY DEF RequestHeld
<1>1. foreign = {}
  OBVIOUS
<1>2. ASSUME NEW q \in Callers, pc'[q] \in {"staged", "cas"}
      PROVE  pending'[at'[q]][cand'[q]] # "none"
  BY <1>1, <1>2, RequestPoint, RowsStay DEF RequestHeld
<1>3. ASSUME NEW r \in flight'
      PROVE  \E c \in Copies : pending'[c][r[2]] # "none"
  <2>1. CASE r \in flight
    <3>1. r[2] \in Candidates
      BY <2>1 DEF LedgerInv, TypeOK
    <3>2. PICK c \in Copies : pending[c][r[2]] # "none"
      BY <1>1, <2>1 DEF RequestHeld
    <3> QED  BY <3>1, <3>2, RowsStay
  <2>2. CASE r \notin flight
    <3>1. PICK p \in Callers : /\ pc[p] = "cas" /\ r = <<prior[p], cand[p]>>
                               /\ at[p] \in Copies /\ cand[p] \in Candidates
      BY <2>2, FlightStep
    <3>2. pending[at[p]][cand[p]] # "none"
      BY <1>1, <3>1 DEF RequestHeld
    <3> QED  BY <3>1, <3>2, RowsStay
  <2> QED  BY <2>1, <2>2
<1> QED  BY <1>2, <1>3

(***************************************************************************)
(* The anchored head stays recoverable.  When the anchor moves, the row of *)
(* the new head is PREPARED (the anchor has not passed it and had not      *)
(* reached it) in a copy that is exactly at its prior; afterwards only the *)
(* commit that makes the copy reach the head takes that row away.          *)
(***************************************************************************)
LEMMA HeadStep ==
  ASSUME HoldInv, Next, foreign \subseteq foreign'
  PROVE  HeadIsHeld'
<1> SUFFICES ASSUME foreign' = {}, anchor' # <<>>
             PROVE  \E c \in Copies :
                       \/ IsPrefix(anchor', journal'[c])
                       \/ journal'[c] = Front(anchor') /\ pending'[c][anchor'] = "PREPARED"
  BY DEF HeadIsHeld
<1>0. LedgerInv /\ foreign = {} /\ anchor \in Histories
  BY DEF HoldInv, LedgerInv, TypeOK
<1>1. CASE UNCHANGED anchor
  <2>1. anchor \in Candidates
    BY <1>0, <1>1 DEF Candidates
  <2>2. Front(anchor) \in Histories /\ Len(anchor) = Len(Front(anchor)) + 1
        /\ Len(Front(anchor)) \in Nat /\ Len(anchor) \in Nat
    BY <2>1, CandidateIs, HistoryOrder
  <2>3. PICK c \in Copies : \/ IsPrefix(anchor, journal[c])
                            \/ journal[c] = Front(anchor) /\ pending[c][anchor] = "PREPARED"
    BY <1>0, <1>1 DEF HoldInv, HeadIsHeld
  <2>4. journal[c] \in Histories
    BY <1>0 DEF LedgerInv, TypeOK
  <2>5. CASE UNCHANGED tables
    BY <1>1, <2>3, <2>5 DEF tables
  <2>6. ASSUME NEW p \in Callers, RowWrite(p)
        PROVE  \/ IsPrefix(anchor, journal'[c])
               \/ journal'[c] = Front(anchor) /\ pending'[c][anchor] = "PREPARED"
    <3>1. /\ journal'[c] \in Histories /\ IsPrefix(journal[c], journal'[c])
          /\ cand[p] \in Candidates
          /\ \/ journal'[c] = journal[c]
             \/ /\ journal[c] = Front(cand[p]) /\ journal'[c] = cand[p]
                /\ IsPrefix(cand[p], anchor)
      BY <1>0, <2>6, RowWriteIs
    <3>2. \/ pending'[c][anchor] = pending[c][anchor]
          \/ pending'[c][anchor] = "PREPARED"
          \/ anchor = cand[p] /\ pc[p] = "mark"
          \/ IsPrefix(anchor, journal'[c])
      BY <1>0, <2>1, <2>6, RowWriteIs
    <3>3. ~(anchor = cand[p] /\ pc[p] = "mark")
      BY DEF HoldInv, ConflictShape, Passed
    <3>4. CASE IsPrefix(anchor, journal[c])
      BY <1>0, <2>4, <3>1, <3>4, HistoryOrder
    <3>5. CASE /\ journal[c] = Front(anchor) /\ pending[c][anchor] = "PREPARED"
               /\ journal'[c] = journal[c]
      BY <3>2, <3>3, <3>5
    <3>6. CASE /\ journal[c] = Front(anchor) /\ journal[c] = Front(cand[p])
               /\ journal'[c] = cand[p] /\ IsPrefix(cand[p], anchor)
      <4>1. cand[p] \in Histories /\ Len(cand[p]) = Len(Front(cand[p])) + 1
        BY <3>1, CandidateIs
      <4>2. Len(cand[p]) >= Len(anchor)
        BY <2>2, <3>6, <4>1
      <4>3. cand[p] = anchor
        BY <1>0, <3>6, <4>1, <4>2, HistoryOrder
      <4> QED  BY <1>0, <3>6, <4>3, HistoryOrder
    <3> QED  BY <2>3, <3>1, <3>4, <3>5, <3>6
  <2>7. UNCHANGED tables \/ \E p \in Callers : RowWrite(p)
    BY <1>0, RowsStay
  <2> QED  BY <1>1, <2>5, <2>6, <2>7
<1>2. CASE anchor' # anchor
  <2>1. /\ anchor' \in Candidates /\ anchor' \in Histories /\ anchor = Front(anchor')
        /\ Len(anchor') = Len(anchor) + 1 /\ UNCHANGED tables /\ Len(anchor) \in Nat
    BY <1>0, <1>2, AnchorMoves, HistoryOrder
  <2>2. PICK c \in Copies : pending[c][anchor'] # "none"
    <3>1. CASE \E p \in Callers : CasUpdated(p)
      <4>1. PICK p \in Callers : pc[p] = "cas" /\ anchor' = cand[p]
        BY <3>1 DEF CasUpdated, CompareAndSet, Goto
      <4>2. at[p] \in Copies /\ pending[at[p]][cand[p]] # "none"
        BY <1>0, <4>1 DEF HoldInv, LedgerInv, TypeOK, RequestHeld
      <4> QED  BY <4>1, <4>2
    <3>2. CASE \E r \in flight : anchor' = r[2]
      BY <1>0, <3>2 DEF HoldInv, RequestHeld
    <3> QED  BY <1>0, <1>2, <3>1, <3>2, AnchorStep
  <2>3. pending[c][anchor'] # "CONFLICT"
    <3>1. ~(Len(anchor) >= Len(anchor'))
      BY <2>1
    <3> QED  BY <2>1, <3>1 DEF HoldInv, ConflictShape, Passed
  <2>4. pending[c][anchor'] # "FINALIZED"
    <3>1. ~IsPrefix(anchor', anchor)
      <4>1. ~(Len(anchor') <= Len(anchor))
        BY <2>1
      <4> QED  BY <4>1 DEF IsPrefix
    <3> QED  BY <2>1, <3>1 DEF HoldInv, FinalizedIsAnchored
  <2>5. pending[c][anchor'] = "PREPARED"
    BY <1>0, <2>1, <2>2, <2>3, <2>4 DEF LedgerInv, TypeOK, Statuses
  <2>6. journal[c] = anchor
    <3>1. IsPrefix(anchor, journal[c]) /\ IsPrefix(journal[c], anchor) /\ journal[c] \in Histories
      BY <1>0, <2>1, <2>2 DEF HoldInv, RowPrior, LocalNeverAhead, LedgerInv, TypeOK
    <3> QED  BY <1>0, <3>1, HistoryOrder
  <2> QED  BY <2>1, <2>5, <2>6 DEF tables
<1> QED  BY <1>1, <1>2

-----------------------------------------------------------------------------
(***************************************************************************)
(* HoldInv is inductive.                                                   *)
(***************************************************************************)
LEMMA HoldStep == HoldInv /\ [Next]_vars => HoldInv'
<1> SUFFICES ASSUME HoldInv, [Next]_vars PROVE HoldInv'
  OBVIOUS
<1>0. LedgerInv' /\ LedgerInv
  BY LedgerStep DEF HoldInv
<1>1. CASE Next
  <2>1. LocalNeverAhead' /\ RowPrior' /\ foreign \subseteq foreign'
    BY <1>0, <1>1, OwnCopyStep DEF HoldInv
  <2>2. FinalizedIsAnchored' /\ ConflictShape'
    BY <1>0, <1>1, FinalizedStep, ConflictStep DEF HoldInv
  <2>3. RequestHeld' /\ HeadIsHeld'
    BY <1>0, <1>1, <2>1, RequestStep, HeadStep DEF HoldInv
  <2> QED  BY <1>0, <2>1, <2>2, <2>3 DEF HoldInv
<1>2. CASE UNCHANGED vars
  <2>1. FinalizedIsAnchored' /\ LocalNeverAhead' /\ ConflictShape' /\ RowPrior'
    BY <1>2 DEF HoldInv, vars, FinalizedIsAnchored, LocalNeverAhead, ConflictShape, Passed, RowPrior
  <2>2. RequestHeld' /\ HeadIsHeld'
    BY <1>2 DEF HoldInv, vars, RequestHeld, HeadIsHeld
  <2> QED  BY <1>0, <2>1, <2>2 DEF HoldInv
<1> QED  BY <1>1, <1>2

(***************************************************************************)
(* Finalized rows, in backups too, are about anchored and accepted         *)
(* histories.                                                              *)
(***************************************************************************)
THEOREM FinalizedRowsAnchored == Spec => []FinalizedIsAnchored
<1>1. HoldInv => FinalizedIsAnchored
  BY DEF HoldInv
<1> QED  BY <1>1, InitInv, HoldStep, PTL DEF Spec

(***************************************************************************)
(* A copy that only the pending-first adapter writes is never ahead of the *)
(* anchor.                                                                 *)
(***************************************************************************)
THEOREM PendingFirstNeverAhead == Spec => []LocalNeverAhead
<1>1. HoldInv => LocalNeverAhead
  BY DEF HoldInv
<1> QED  BY <1>1, InitInv, HoldStep, PTL DEF Spec

(***************************************************************************)
(* While only that adapter writes, the anchored head is in some copy, or   *)
(* can be put there by recover_pending_attestation.                        *)
(***************************************************************************)
THEOREM AnchoredHeadRecoverable == Spec => []HeadIsHeld
<1>1. HoldInv => HeadIsHeld
  BY DEF HoldInv
<1> QED  BY <1>1, InitInv, HoldStep, PTL DEF Spec
=============================================================================
