----------------------------- MODULE GateProofs -----------------------------
(***************************************************************************)
(* Proofs about module Recovery, and the gate it extends, for any grants,  *)
(* executors and coordinators and every bound.                             *)
(***************************************************************************)
EXTENDS Recovery, TLAPS

USE GateAssumption, RecoveryAssumption

Rows == {a \in AttemptId : ast[a] # "none"}

\* What a coordinator works on is a row.
OnRows ==
  /\ \A c \in Coords :
       /\ ccand[c] \subseteq Rows
       /\ cpc[c] \notin {"idle", "loop", "raised"} => catt[c] \in Rows
  /\ \A a \in AttemptId : review[a] # "none" => a \in Rows

TypeInv == TypeOK /\ OnRows

-----------------------------------------------------------------------------
(* The attempt table *)

AttemptsOK ==
  /\ ast \in [AttemptId -> AttemptState]
  /\ akey \in [AttemptId -> Grant] /\ agrant \in [AttemptId -> Grant]
  /\ aintent \in [AttemptId -> BaseGrants]
  /\ anum \in [AttemptId -> Nat]
  /\ receipt \in [AttemptId -> BOOLEAN] /\ lapsed \in [AttemptId -> BOOLEAN]

\* An update at an index inside the domain or not keeps a function's type.
LEMMA ExceptType ==
  ASSUME NEW S, NEW T, NEW f \in [S -> T], NEW x, NEW v, x \in S => v \in T
  PROVE  [f EXCEPT ![x] = v] \in [S -> T]
  OBVIOUS

\* transition() keeps the columns' types and every row.
LEMMA TransitionType ==
  ASSUME AttemptsOK, NEW a, NEW n \in AttemptState \ {"none"}, NEW rc \in BOOLEAN,
         transition(a, n, rc)
  PROVE  AttemptsOK' /\ Rows \subseteq Rows'
<1>1. ast' \in [AttemptId -> AttemptState]
  BY ExceptType DEF transition, AttemptsOK
<1>2. receipt' \in [AttemptId -> BOOLEAN] /\ lapsed' \in [AttemptId -> BOOLEAN]
  BY DEF transition, AttemptsOK
<1>3. Rows \subseteq Rows'
  BY DEF transition, AttemptsOK, Rows
<1> QED
  BY <1>1, <1>2, <1>3 DEF transition, AttemptsOK

\* So does the INSERT.
LEMMA InsertType ==
  ASSUME AttemptsOK, NEW a \in AttemptId, NEW k \in Grant, NEW n \in Nat, NEW g \in Grant,
         NEW i \in BaseGrants, InsertAttempt(a, k, n, g, i)
  PROVE  AttemptsOK' /\ Rows \subseteq Rows'
<1>1. /\ ast' \in [AttemptId -> AttemptState] /\ akey' \in [AttemptId -> Grant]
      /\ agrant' \in [AttemptId -> Grant]
  BY DEF InsertAttempt, AttemptsOK, AttemptState
<1>2. aintent' \in [AttemptId -> BaseGrants] /\ anum' \in [AttemptId -> Nat]
  BY DEF InsertAttempt, AttemptsOK
<1>3. Rows \subseteq Rows'
  BY DEF InsertAttempt, AttemptsOK, Rows
<1> QED
  BY <1>1, <1>2, <1>3 DEF InsertAttempt, AttemptsOK

-----------------------------------------------------------------------------
(* Type correctness *)

LEMMA TypeInit == Init => TypeInv
<1>1. AnyBase \in BaseGrants
  BY DEF AnyBase
<1> QED
  BY <1>1 DEF Init, GateInit, TypeInv, TypeOK, GateTypeOK, OnRows, Rows, Grant, GrantStatus,
     AttemptState, ExecPC, Review, OpState, CoordPC, NoAttempt

\* A statement of an executor.
LEMMA ExecType ==
  ASSUME TypeInv, NEW p \in Execs, ExecStep(p) \/ ExecCrash(p), UNCHANGED <<reviewVars, coordVars>>
  PROVE  TypeInv'
<1> DEFINE GrantsOK == /\ gstat \in [Grant -> GrantStatus]
                       /\ nonces \subseteq Grant /\ valid \subseteq Grant /\ offered \subseteq Grant
                       /\ runs \in [Grant -> Nat] /\ revoked \subseteq Grant
           ExecsOK == /\ epc \in [Execs -> ExecPC] /\ egrant \in [Execs -> Grant]
                      /\ eatt \in [Execs -> AttemptId \cup {NoAttempt}]
           WorldOK == effects \in [BaseGrants -> Nat] /\ crashes \in Nat
<1>0. GrantsOK /\ AttemptsOK /\ ExecsOK /\ WorldOK /\ AnyBase \in Grant
      /\ (\A g \in Grant : IntentOf(g) \in BaseGrants)
  BY DEF TypeInv, TypeOK, GateTypeOK, AttemptsOK, AnyBase, IntentOf, Grant
<1> SUFFICES GrantsOK' /\ AttemptsOK' /\ ExecsOK' /\ WorldOK' /\ Rows \subseteq Rows'
  BY DEF TypeInv, TypeOK, GateTypeOK, AttemptsOK, OnRows, Rows, reviewVars, coordVars
<1>u. ASSUME UNCHANGED attemptVars PROVE AttemptsOK' /\ Rows \subseteq Rows'
  BY <1>0, <1>u DEF AttemptsOK, Rows, attemptVars
<1>g. ASSUME UNCHANGED grantVars PROVE GrantsOK'
  BY <1>0, <1>g DEF grantVars
<1>e. ASSUME NEW l \in ExecPC, Step(p, l) PROVE ExecsOK'
  BY <1>0, <1>e DEF Step
<1>l. ASSUME Leave(p) PROVE ExecsOK'
  BY <1>0, <1>l DEF Leave, ExecPC, NoAttempt
<1>1. CASE Authorize(p)
  BY <1>0, <1>1, <1>u DEF Authorize, Register, GrantStatus, ExecPC, attemptVars
<1>2. CASE CreateRead(p)
  BY <1>0, <1>2, <1>u, <1>g, <1>e, <1>l DEF CreateRead, ExecPC
<1>3. CASE CreateInsert(p)
  <2>1. WorldOK' /\ GrantsOK'
    BY <1>0, <1>3, <1>g DEF CreateInsert
  <2>2. CASE UNCHANGED attemptVars /\ Leave(p)
    BY <2>1, <2>2, <1>u, <1>l
  <2>3. CASE \E a \in AttemptId :
               /\ InsertAttempt(a, egrant[p], 1, egrant[p], IntentOf(egrant[p]))
               /\ eatt' = [eatt EXCEPT ![p] = a]
               /\ epc' = [epc EXCEPT ![p] = "created"] /\ UNCHANGED egrant
    <3>1. PICK a \in AttemptId :
            /\ InsertAttempt(a, egrant[p], 1, egrant[p], IntentOf(egrant[p]))
            /\ eatt' = [eatt EXCEPT ![p] = a]
            /\ epc' = [epc EXCEPT ![p] = "created"] /\ UNCHANGED egrant
      BY <2>3
    <3>2. AttemptsOK' /\ Rows \subseteq Rows'
      BY <1>0, <3>1, InsertType
    <3> QED
      BY <1>0, <2>1, <3>1, <3>2 DEF ExecPC
  <2> QED
    BY <1>3, <2>2, <2>3 DEF CreateInsert
<1>4. CASE Lease(p)
  BY <1>0, <1>4, <1>g, <1>e, TransitionType DEF Lease, ExecPC, AttemptState
<1>5. CASE Consume(p)
  BY <1>0, <1>5, <1>u, <1>e DEF Consume, GrantStatus, ExecPC
<1>6. CASE AbortRefused(p)
  BY <1>0, <1>6, <1>u, <1>g, <1>l, TransitionType DEF AbortRefused, AttemptState, Terminal
<1>7. CASE ConsumeNonce(p)
  BY <1>0, <1>7, <1>u, <1>e DEF ConsumeNonce, ExecPC
<1>8. CASE Start(p)
  <2>1. WorldOK' /\ ExecsOK'
    BY <1>0, <1>8, <1>e, <1>l DEF Start, ExecPC
  <2>3. runs' \in [Grant -> Nat]
    <3>1. runs \in [Grant -> Nat] /\ runs' \in {runs, [runs EXCEPT ![egrant[p]] = @ + 1]}
      BY <1>0, <1>8 DEF Start
    <3> QED
      BY <3>1
  <2>4. GrantsOK'
    BY <1>0, <1>8, <2>3 DEF Start
  <2>2. AttemptsOK' /\ Rows \subseteq Rows'
    BY <1>0, <1>8, <1>u, TransitionType DEF Start, AttemptState
  <2> QED
    BY <2>1, <2>2, <2>4
<1>9. CASE Act(p)
  BY <1>0, <1>9, <1>u, <1>g, <1>e DEF Act, ExecPC
<1>10. CASE Finalize(p)
  BY <1>0, <1>10, <1>u, <1>g, <1>l, TransitionType DEF Finalize, AttemptState, Terminal
<1>11. CASE ExecCrash(p)
  BY <1>0, <1>11, <1>u, <1>g, <1>l DEF ExecCrash
<1> QED
  BY <1>1, <1>2, <1>3, <1>4, <1>5, <1>6, <1>7, <1>8, <1>9, <1>10, <1>11 DEF ExecStep

-----------------------------------------------------------------------------
(* The remaining steps of the gate *)

LEMMA SweepType ==
  ASSUME TypeInv, UNCHANGED <<reviewVars, coordVars>>,
         \/ \E g \in Grant : revoke(g) \/ Void(g)
         \/ \E a \in AttemptId : Lapse(a) \/ ExpireLease(a)
  PROVE  TypeInv'
<1>0. TypeOK /\ AttemptsOK
  BY DEF TypeInv, TypeOK, GateTypeOK, AttemptsOK
<1>u. ASSUME UNCHANGED ast PROVE OnRows'
  BY <1>u DEF TypeInv, OnRows, Rows, reviewVars, coordVars
<1>1. CASE \E g \in Grant : revoke(g) \/ Void(g)
  BY <1>0, <1>1, <1>u DEF revoke, Void, TypeInv, TypeOK, GateTypeOK, GrantStatus, attemptVars,
     execVars, reviewVars, coordVars
<1>2. ASSUME NEW a \in AttemptId, Lapse(a) PROVE TypeInv'
  BY <1>0, <1>2, <1>u DEF Lapse, TypeInv, TypeOK, GateTypeOK, grantVars, execVars, reviewVars, coordVars
<1>3. ASSUME NEW a \in AttemptId, ExpireLease(a) PROVE TypeInv'
  <2>1. AttemptsOK' /\ Rows \subseteq Rows'
    BY <1>0, <1>3, TransitionType DEF ExpireLease, AttemptState, Terminal
  <2> QED
    BY <1>0, <1>3, <2>1 DEF ExpireLease, TypeInv, TypeOK, GateTypeOK, AttemptsOK, OnRows, grantVars,
       execVars, reviewVars, coordVars
<1> QED
  BY <1>1, <1>2, <1>3

-----------------------------------------------------------------------------
(* The coordinators *)

\* A coordinator's statement, by its effect on the gate's tables: none, a row
\* registered or offered, or the attempt table.
LEMMA CoordType ==
  ASSUME TypeInv, NEW c \in Coords, CoordStep(c) \/ Restart(c) \/ CoordCrash(c)
  PROVE  TypeInv'
<1> DEFINE ReviewsOK ==
             /\ review \in [AttemptId -> Review] /\ op \in [AttemptId -> OpState]
             /\ otoken \in [AttemptId -> Nat] /\ olapsed \in [AttemptId -> BOOLEAN]
             /\ oretry \in [AttemptId -> AttemptId \cup {NoAttempt}]
             /\ claims \in [AttemptId -> Nat]
           CoordsOK ==
             /\ cpc \in [Coords -> CoordPC] /\ ccand \in [Coords -> SUBSET AttemptId]
             /\ catt \in [Coords -> AttemptId \cup {NoAttempt}]
             /\ cobs \in [Coords -> Review]
             /\ ctok \in [Coords -> Nat] /\ cnum \in [Coords -> Nat]
             /\ cnew \in [Coords -> AttemptId \cup {NoAttempt}]
           RestOK ==
             /\ gstat \in [Grant -> GrantStatus] /\ offered \subseteq Grant /\ crashes \in Nat
           Rest == <<nonces, valid, runs, revoked, execVars, effects>>
           Busy == CoordPC \ {"idle", "loop", "raised"}
<1>0. /\ TypeOK /\ AttemptsOK /\ ReviewsOK /\ CoordsOK /\ RestOK /\ OnRows
      /\ Rows \subseteq AttemptId
  BY DEF TypeInv, TypeOK, GateTypeOK, AttemptsOK, Rows
<1> SUFFICES AttemptsOK' /\ ReviewsOK' /\ CoordsOK' /\ RestOK' /\ UNCHANGED Rest /\ OnRows'
  BY DEF TypeInv, TypeOK, GateTypeOK, AttemptsOK, execVars
<1> HIDE DEF ReviewsOK, CoordsOK, RestOK, Rest
<1>g. ASSUME UNCHANGED gateVars PROVE AttemptsOK' /\ RestOK' /\ UNCHANGED Rest /\ Rows' = Rows
  BY <1>0, <1>g DEF gateVars, grantVars, attemptVars, execVars, AttemptsOK, RestOK, Rest, Rows
<1>r. ASSUME UNCHANGED reviewVars PROVE ReviewsOK' /\ review' = review
  BY <1>0, <1>r DEF reviewVars, ReviewsOK
<1>p. ASSUME NEW l \in CoordPC, Proceed(c, l), l \in {"idle", "loop", "raised"} \/ catt[c] \in Rows,
             Rows \subseteq Rows', review' = review
      PROVE  CoordsOK' /\ OnRows'
  BY <1>0, <1>p DEF Proceed, Goto, locals, CoordsOK, OnRows
<1>s. ASSUME Skip(c) \/ Raise(c), Rows \subseteq Rows', review' = review PROVE CoordsOK' /\ OnRows'
  BY <1>0, <1>s DEF Skip, Goto, Raise, Forget, CoordsOK, OnRows, CoordPC, Review, NoAttempt
<1>1. CASE Scan(c)
  BY <1>0, <1>1, <1>g, <1>r DEF Scan, StaleRunning, locals, CoordsOK, OnRows, CoordPC, Rows
<1>2. CASE Take(c)
  <2>1. CASE Proceed(c, "idle")
    BY <1>0, <1>2, <2>1, <1>g, <1>r, <1>p DEF Take, CoordPC
  <2>2. CASE ~Proceed(c, "idle")
    BY <1>0, <1>2, <2>2, <1>g, <1>r DEF Take, CoordsOK, OnRows, CoordPC
  <2> QED
    BY <2>1, <2>2
<1>3. CASE Open(c)
  <2>1. review' \in [AttemptId -> Review] /\ ReviewsOK'
    BY <1>0, <1>3 DEF Open, ReviewsOK, Review
  <2>2. catt[c] \in Rows
    BY <1>0, <1>3 DEF Open, OnRows
  <2>3. CASE UNCHANGED review
    BY <1>0, <1>3, <2>1, <2>2, <2>3, <1>g, <1>p, <1>s DEF Open, CoordPC
  <2>4. CASE review' = [review EXCEPT ![catt[c]] = "UNKNOWN"] /\ Proceed(c, "verify")
    BY <1>0, <1>3, <2>1, <2>2, <2>4, <1>g DEF Open, Proceed, Goto, locals, CoordsOK, OnRows, CoordPC
  <2> QED
    BY <1>3, <2>3, <2>4 DEF Open
<1>4. CASE Verify(c)
  <2>1. catt[c] \in Rows
    BY <1>0, <1>4 DEF Verify, OnRows
  <2>2. CASE Raise(c)
    BY <1>0, <1>4, <2>2, <1>g, <1>r, <1>s DEF Verify
  <2>3. CASE ~Raise(c)
    BY <1>0, <1>4, <2>1, <2>3, <1>g, <1>r DEF Verify, Verdicts, Goto, CoordsOK, OnRows, CoordPC, Review,
       Verdict
  <2> QED
    BY <2>2, <2>3
<1>5. CASE Resolve(c)
  <2>1. catt[c] \in Rows
    BY <1>0, <1>5 DEF Resolve, OnRows
  <2>2. CASE UNCHANGED review
    BY <1>0, <1>5, <2>1, <2>2, <1>g, <1>r, <1>p, <1>s DEF Resolve, SkipOrRaise, CoordPC, ReviewsOK
  <2>3. CASE review' = [review EXCEPT ![catt[c]] = cobs[c]] /\ Proceed(c, "decided")
    BY <1>0, <1>5, <2>1, <2>3, <1>g DEF Resolve, Proceed, Goto, locals, CoordsOK, ReviewsOK, OnRows, CoordPC
  <2> QED
    BY <1>5, <2>2, <2>3 DEF Resolve
<1>6. CASE Settle(c)
  BY <1>0, <1>6, <1>g, <1>r, <1>p, <1>s DEF Settle, OnRows, CoordPC
<1>7. CASE Terminalize(c)
  <2>1. AttemptsOK' /\ Rows \subseteq Rows'
    BY <1>0, <1>7, TransitionType DEF Terminalize, Closing, AttemptState, Terminal, AttemptsOK, attemptVars, Rows
  <2> QED
    BY <1>0, <1>7, <2>1, <1>r, <1>s DEF Terminalize, grantVars, execVars, RestOK, Rest
<1>8. CASE Claim(c)
  <2>1. catt[c] \in Rows
    BY <1>0, <1>8 DEF Claim, OnRows
  <2>2. ReviewsOK'
    <3>1. catt[c] \in AttemptId /\ claims[catt[c]] + 1 \in Nat
      BY <1>0, <2>1 DEF ReviewsOK
    <3>2. op' \in [AttemptId -> OpState] /\ olapsed' \in [AttemptId -> BOOLEAN]
      BY <1>0, <1>8, <3>1 DEF Claim, ReviewsOK, OpState
    <3>3. otoken' \in [AttemptId -> Nat] /\ claims' \in [AttemptId -> Nat]
      BY <1>0, <1>8, <3>1 DEF Claim, ReviewsOK
    <3> QED
      BY <1>0, <1>8, <3>2, <3>3 DEF Claim, ReviewsOK
  <2>3. CoordsOK' /\ OnRows'
    <3>0. AttemptsOK' /\ Rows' = Rows /\ review' = review
      BY <1>8, <1>g DEF Claim
    <3>1. CASE Proceed(c, "close") \/ Skip(c) \/ Raise(c)
      BY <2>1, <3>0, <3>1, <1>p, <1>s DEF CoordPC
    <3>3. ctok' \in [Coords -> Nat] \/ UNCHANGED ctok \/ Proceed(c, "close") \/ Skip(c) \/ Raise(c)
      BY <1>0, <1>8, <2>1 DEF Claim, CoordsOK, ReviewsOK
    <3>2. CASE \E l \in {"claimed", "mark"} : Goto(c, l) /\ UNCHANGED <<catt, cobs, cnum, cnew>>
      BY <1>0, <2>1, <3>0, <3>1, <3>2, <3>3 DEF Goto, CoordsOK, OnRows, CoordPC
    <3> QED
      BY <1>8, <3>1, <3>2 DEF Claim
  <2> QED
    BY <1>8, <2>2, <2>3, <1>g DEF Claim
<1>9. CASE Reauthorize(c)
  <2>1. RestOK' /\ UNCHANGED Rest /\ AttemptsOK' /\ Rows' = Rows
    BY <1>0, <1>9, ExceptType DEF Reauthorize, Register, RestOK, Rest, AttemptsOK, GrantStatus, attemptVars,
       Rows
  <2>2. catt[c] \in Rows
    BY <1>0, <1>9 DEF Reauthorize, OnRows
  <2> QED
    BY <1>0, <1>9, <2>1, <2>2, <1>r, <1>p, <1>s DEF Reauthorize, CoordPC
<1>10. CASE MarkCheck(c)
  BY <1>0, <1>10, <1>g, <1>r, <1>p, <1>s DEF MarkCheck, SkipOrRaise, OnRows, CoordPC
<1>11. CASE MarkAuthorized(c)
  <2>2. catt[c] \in AttemptId
    BY <1>0, <1>11 DEF MarkAuthorized, OnRows
  <2>1. ReviewsOK' /\ review' = review
    <3>1. op' \in [AttemptId -> OpState]
      BY <1>0, <1>11, <2>2 DEF MarkAuthorized, ReviewsOK, OpState
    <3>2. \/ UNCHANGED <<otoken, olapsed>>
          \/ /\ otoken' = [otoken EXCEPT ![catt[c]] = 0]
             /\ olapsed' = [olapsed EXCEPT ![catt[c]] = FALSE]
      BY <1>11 DEF MarkAuthorized
    <3>3. otoken \in [AttemptId -> Nat] /\ olapsed \in [AttemptId -> BOOLEAN]
      BY <1>0 DEF ReviewsOK
    <3>4. otoken' \in [AttemptId -> Nat]
      BY <2>2, <3>2, <3>3
    <3>5. olapsed' \in [AttemptId -> BOOLEAN]
      BY <2>2, <3>2, <3>3
    <3> QED
      BY <1>0, <1>11, <3>1, <3>4, <3>5 DEF MarkAuthorized, ReviewsOK
  <2> QED
    BY <1>0, <1>11, <2>1, <1>g, <1>p, <1>s DEF MarkAuthorized, SkipOrRaise, OnRows, CoordPC
<1>12. CASE ReadOriginal(c)
  BY <1>0, <1>12, <1>g, <1>r, <1>p, <1>s DEF ReadOriginal, OnRows, CoordPC
<1>13. CASE CloseOriginal(c)
  <2>1. AttemptsOK' /\ Rows \subseteq Rows'
    BY <1>0, <1>13, TransitionType DEF CloseOriginal, AttemptState, Terminal, AttemptsOK, attemptVars, Rows
  <2> QED
    BY <1>0, <1>13, <2>1, <1>r, <1>p, <1>s DEF CloseOriginal, OnRows, grantVars, execVars, RestOK, Rest, CoordPC
<1>14. CASE FindRetry(c)
  <2>1. catt[c] \in Rows /\ ReviewsOK' /\ review' = review /\ AttemptsOK' /\ RestOK' /\ UNCHANGED Rest
        /\ Rows' = Rows
    BY <1>0, <1>14, <1>g, <1>r DEF FindRetry, OnRows
  <2>2. CASE Raise(c)
    BY <2>1, <2>2, <1>s
  <2>3. ASSUME NEW b \in AttemptId, cnew' = [cnew EXCEPT ![c] = b], Goto(c, "created"),
               UNCHANGED <<catt, cobs, ctok, cnum>>
        PROVE  CoordsOK' /\ OnRows'
    BY <1>0, <2>1, <2>3 DEF Goto, CoordsOK, OnRows, CoordPC
  <2>4. ASSUME NEW b \in AttemptId, cnum' = [cnum EXCEPT ![c] = anum[b] + 1], Goto(c, "creating"),
               UNCHANGED <<catt, cobs, ctok, cnew>>
        PROVE  CoordsOK' /\ OnRows'
    <3>1. anum[b] + 1 \in Nat
      BY <1>0 DEF AttemptsOK
    <3> QED
      BY <1>0, <2>1, <2>4, <3>1 DEF Goto, CoordsOK, OnRows, CoordPC
  <2> QED
    BY <1>14, <2>1, <2>2, <2>3, <2>4 DEF FindRetry, RetriesOf
<1>15. CASE CreateRetry(c)
  <2>1. catt[c] \in Rows /\ catt[c] \in AttemptId
    BY <1>0, <1>15 DEF CreateRetry, OnRows
  <2>2. CASE UNCHANGED attemptVars /\ Raise(c)
    BY <1>0, <1>15, <2>2, <1>r, <1>s DEF CreateRetry, attemptVars, AttemptsOK, Rows, grantVars, execVars,
       RestOK, Rest
  <2>3. CASE /\ \E b \in AttemptId :
                  /\ InsertAttempt(b, akey[catt[c]], cnum[c], catt[c], aintent[catt[c]])
                  /\ cnew' = [cnew EXCEPT ![c] = b]
             /\ Goto(c, "created") /\ UNCHANGED <<catt, cobs, ctok, cnum>>
    <3>1. PICK b \in AttemptId :
            /\ InsertAttempt(b, akey[catt[c]], cnum[c], catt[c], aintent[catt[c]])
            /\ cnew' = [cnew EXCEPT ![c] = b]
      BY <2>3
    <3>2. AttemptsOK' /\ Rows \subseteq Rows'
      BY <1>0, <2>1, <3>1, InsertType DEF AttemptsOK, CoordsOK, Grant
    <3> QED
      BY <1>0, <1>15, <2>1, <2>3, <3>1, <3>2, <1>r DEF CreateRetry, Goto, CoordsOK, OnRows, grantVars, execVars,
         RestOK, Rest, CoordPC
  <2> QED
    BY <1>15, <2>2, <2>3 DEF CreateRetry
<1>16. CASE MarkCreated(c)
  <2>1. catt[c] \in Rows /\ catt[c] \in AttemptId
    BY <1>0, <1>16 DEF MarkCreated, OnRows
  <2>2. ReviewsOK' /\ review' = review
    BY <1>0, <1>16, <2>1 DEF MarkCreated, ReviewsOK, CoordsOK, OpState
  <2>3. AttemptsOK' /\ RestOK' /\ UNCHANGED Rest /\ Rows' = Rows
    BY <1>0, <1>16, <2>1 DEF MarkCreated, AttemptsOK, RestOK, Rest, Rows, Grant, attemptVars
  <2> QED
    BY <1>0, <1>16, <2>2, <2>3, <1>s DEF MarkCreated, SkipOrRaise
<1>17. CASE Restart(c)
  BY <1>0, <1>17, <1>g, <1>r, <1>p DEF Restart, CoordPC
<1>18. CASE CoordCrash(c)
  <2>1. AttemptsOK' /\ RestOK' /\ UNCHANGED Rest /\ Rows' = Rows
    BY <1>0, <1>18 DEF CoordCrash, AttemptsOK, RestOK, Rest, Rows, attemptVars, grantVars, execVars
  <2> QED
    BY <1>0, <1>18, <2>1, <1>r DEF CoordCrash, Forget, CoordsOK, OnRows, CoordPC, Review, NoAttempt
<1> QED
  BY <1>1, <1>2, <1>3, <1>4, <1>5, <1>6, <1>7, <1>8, <1>9, <1>10, <1>11, <1>12, <1>13, <1>14, <1>15, <1>16,
     <1>17, <1>18 DEF CoordStep

LEMMA TypeNext == TypeInv /\ [Next]_vars => TypeInv'
<1> SUFFICES ASSUME TypeInv, [Next]_vars PROVE TypeInv'
  OBVIOUS
<1>1. CASE GateNext /\ UNCHANGED <<reviewVars, coordVars>>
  BY <1>1, ExecType, SweepType DEF GateNext
<1>2. CASE \E c \in Coords : CoordStep(c) \/ Restart(c) \/ CoordCrash(c)
  BY <1>2, CoordType
<1>3. CASE \E a \in AttemptId : ClaimLapse(a)
  BY <1>3 DEF ClaimLapse, TypeInv, TypeOK, GateTypeOK, OnRows, Rows, gateVars, grantVars, attemptVars,
     execVars, coordVars
<1>4. CASE UNCHANGED vars
  BY <1>4 DEF vars, TypeInv, TypeOK, GateTypeOK, OnRows, Rows, gateVars, grantVars, attemptVars,
     execVars, reviewVars, coordVars
<1> QED
  BY <1>1, <1>2, <1>3, <1>4 DEF Next

\* Every variable of the gate and of the recovery keeps its type, and a
\* coordinator only ever works on attempts that exist.
THEOREM RecoveryTypes == Spec => []TypeOK
<1>1. Spec => []TypeInv
  BY TypeInit, TypeNext, PTL DEF Spec
<1>2. TypeInv => TypeOK
  BY DEF TypeInv
<1> QED
  BY <1>1, <1>2, PTL

-----------------------------------------------------------------------------
(* Grants *)

Spending == {"consumed", "nonced"}

\* A revoked grant stays revoked, one whose handler was entered is consumed, and
\* between its consumption and its run it is in the hands of one executor.
GrantInv ==
  /\ \A g \in revoked : gstat[g] = "REVOKED"
  /\ \A g \in Grant : runs[g] > 0 => runs[g] = 1 /\ gstat[g] = "CONSUMED"
  /\ \A p \in Execs : epc[p] \in Spending => gstat[egrant[p]] = "CONSUMED" /\ runs[egrant[p]] = 0
  /\ \A p, q \in Execs : epc[p] \in Spending /\ epc[q] \in Spending /\ egrant[p] = egrant[q] => p = q

LEMMA GrantInit == Init => GrantInv
  BY DEF Init, GateInit, GrantInv, Spending

grantState == <<gstat, runs, revoked>>

\* A registration, of a grant that is new or ACTIVE.
LEMMA RegisterGrant ==
  ASSUME TypeInv, GrantInv, NEW g \in Grant, gstat[g] \in {"none", "ACTIVE"}, Register(g),
         UNCHANGED <<runs, revoked>>,
         \A p \in Execs : epc'[p] \in Spending => epc[p] \in Spending /\ egrant'[p] = egrant[p]
  PROVE  GrantInv' /\ UNCHANGED <<[x \in Grant |-> Phase(x)], runs>>
<1>0. gstat \in [Grant -> GrantStatus] /\ revoked \subseteq Grant /\ egrant \in [Execs -> Grant]
  BY DEF TypeInv, TypeOK, GateTypeOK
<1>1. g \notin revoked
  BY DEF GrantInv
<1>2. GrantInv'
  BY <1>0, <1>1 DEF GrantInv, Register
<1>3. \A x \in Grant : Phase(x)' = Phase(x)
  BY <1>0, <1>1 DEF Phase, Register
<1> QED
  BY <1>2, <1>3

Phases == [g \in Grant |-> Phase(g)]

\* A step that leaves the grants alone and spends nothing.
LEMMA OtherGrant ==
  ASSUME TypeInv, GrantInv, UNCHANGED grantState,
         \A p \in Execs : epc'[p] \in Spending =>
           epc[p] \in Spending /\ egrant'[p] = egrant[p]
  PROVE  GrantInv' /\ UNCHANGED <<Phases, runs>>
<1>1. GrantInv'
  BY DEF TypeInv, TypeOK, GateTypeOK, GrantInv, grantState
<1> QED
  BY <1>1 DEF Phases, Phase, grantState

\* consume() of an ACTIVE grant spends it, in one executor's hands.
LEMMA ConsumeGrant ==
  ASSUME TypeInv, GrantInv, NEW p \in Execs, epc[p] = "leased", StillActive(egrant[p]),
         gstat' = [gstat EXCEPT ![egrant[p]] = "CONSUMED"], Step(p, "consumed"),
         UNCHANGED <<runs, revoked>>
  PROVE  GrantInv' /\ Abstract!Spend(egrant[p])
<1>0. /\ gstat \in [Grant -> GrantStatus] /\ revoked \subseteq Grant /\ runs \in [Grant -> Nat]
      /\ egrant \in [Execs -> Grant] /\ epc \in [Execs -> ExecPC] /\ egrant[p] \in Grant
  BY DEF TypeInv, TypeOK, GateTypeOK
<1>1. egrant[p] \notin revoked /\ runs[egrant[p]] = 0
  BY <1>0 DEF GrantInv, StillActive
<1>2. \A q \in Execs : epc[q] \in Spending => egrant[q] # egrant[p]
  BY <1>0 DEF GrantInv, StillActive
<1>3. GrantInv'
  BY <1>0, <1>1, <1>2 DEF GrantInv, Step, StillActive, Spending
<1>4. Phase(egrant[p]) = "open"
  BY <1>0, <1>1 DEF Phase, StillActive
<1>5. \A g \in Grant : Phase(g)' = IF g = egrant[p] THEN "spent" ELSE Phase(g)
  BY <1>0, <1>1 DEF Phase
<1>6. Phases' = [Phases EXCEPT ![egrant[p]] = "spent"]
  BY <1>0, <1>5 DEF Phases
<1> QED
  BY <1>0, <1>3, <1>4, <1>6 DEF Abstract!Spend, Phases

\* The handler is entered once, and only for a spent grant.
LEMMA StartGrant ==
  ASSUME TypeInv, GrantInv, NEW p \in Execs, epc[p] = "nonced",
         runs' = [runs EXCEPT ![egrant[p]] = @ + 1], Step(p, "invoked"),
         UNCHANGED <<gstat, revoked>>
  PROVE  GrantInv' /\ Abstract!Use(egrant[p])
<1>0. /\ gstat \in [Grant -> GrantStatus] /\ revoked \subseteq Grant /\ runs \in [Grant -> Nat]
      /\ egrant \in [Execs -> Grant] /\ epc \in [Execs -> ExecPC] /\ egrant[p] \in Grant
  BY DEF TypeInv, TypeOK, GateTypeOK
<1>1. gstat[egrant[p]] = "CONSUMED" /\ runs[egrant[p]] = 0 /\ egrant[p] \notin revoked
  BY <1>0 DEF GrantInv, Spending
<1>2. \A q \in Execs : epc[q] \in Spending /\ q # p => egrant[q] # egrant[p]
  BY DEF GrantInv, Spending
<1>3. GrantInv'
  BY <1>0, <1>1, <1>2 DEF GrantInv, Step, Spending
<1>4. Phase(egrant[p]) = "spent" /\ Phases' = Phases
  BY <1>0, <1>1 DEF Phase, Phases
<1>5. runs' = [runs EXCEPT ![egrant[p]] = 1]
  BY <1>0, <1>1
<1> QED
  BY <1>0, <1>1, <1>3, <1>4, <1>5 DEF Abstract!Use, Phases

\* A revocation that returned True.
LEMMA RevokeGrant ==
  ASSUME TypeInv, GrantInv, NEW g \in Grant, revoke(g)
  PROVE  GrantInv' /\ Abstract!Revoke(g)
<1>0. /\ gstat \in [Grant -> GrantStatus] /\ revoked \subseteq Grant /\ runs \in [Grant -> Nat]
      /\ egrant \in [Execs -> Grant] /\ gstat[g] = "ACTIVE" /\ g \notin revoked
  BY DEF TypeInv, TypeOK, GateTypeOK, GrantInv, revoke, StillActive
<1>1. GrantInv'
  BY <1>0 DEF GrantInv, revoke, execVars
<1>2. Phase(g) = "open" /\ Phase(g)' = "revoked" /\ \A x \in Grant : x # g => Phase(x)' = Phase(x)
  BY <1>0 DEF Phase, revoke
<1>3. Phases' = [Phases EXCEPT ![g] = "revoked"]
  BY <1>0, <1>2 DEF Phases
<1> QED
  BY <1>0, <1>1, <1>2, <1>3 DEF Abstract!Revoke, Phases, revoke

\* Every step of the gate and of a recovery is a step of a one-time grant, or none.
LEMMA GrantStep ==
  TypeInv /\ GrantInv /\ [Next]_vars => GrantInv' /\ [Abstract!Next]_<<Phases, runs>>
<1> SUFFICES ASSUME TypeInv, GrantInv, [Next]_vars
             PROVE  GrantInv' /\ (Abstract!Next \/ UNCHANGED <<Phases, runs>>)
  OBVIOUS
<1>t. /\ gstat \in [Grant -> GrantStatus] /\ egrant \in [Execs -> Grant] /\ epc \in [Execs -> ExecPC]
      /\ offered \subseteq Grant
  BY DEF TypeInv, TypeOK, GateTypeOK
<1>1. ASSUME NEW p \in Execs, ExecStep(p) \/ ExecCrash(p)
      PROVE  GrantInv' /\ (Abstract!Next \/ UNCHANGED <<Phases, runs>>)
  <2> DEFINE Calm == \A q \in Execs : epc'[q] \in Spending =>
                        epc[q] \in Spending /\ egrant'[q] = egrant[q]
  <2>l. Leave(p) => Calm
    BY <1>t DEF Leave, Spending
  <2>s. \A l \in ExecPC \ {"consumed"} : Step(p, l) /\ (l = "nonced" => epc[p] = "consumed") => Calm
    BY <1>t DEF Step, Spending
  <2>1. CASE Authorize(p)
    <3>1. Calm
      BY <1>t, <2>1 DEF Authorize, Spending
    <3>2. PICK g \in offered : gstat[g] \in {"none", "ACTIVE"} /\ Register(g)
      BY <2>1 DEF Authorize
    <3>3. UNCHANGED <<runs, revoked>>
      BY <2>1 DEF Authorize
    <3> QED
      BY <1>t, <3>1, <3>2, <3>3, RegisterGrant DEF Phases
  <2>2. CASE CreateRead(p) \/ CreateInsert(p) \/ Lease(p) \/ AbortRefused(p) \/ ConsumeNonce(p) \/ Act(p)
             \/ Finalize(p) \/ ExecCrash(p)
    <3>1. UNCHANGED grantState
      BY <2>2 DEF CreateRead, CreateInsert, Lease, AbortRefused, ConsumeNonce, Act, Finalize, ExecCrash,
         grantVars, grantState
    <3>2. Calm
      <4>1. CASE CreateInsert(p)
        BY <1>t, <2>l, <4>1 DEF CreateInsert, Spending
      <4>2. CASE CreateRead(p) \/ Lease(p) \/ ConsumeNonce(p) \/ Act(p)
        BY <2>l, <2>s, <4>2 DEF CreateRead, Lease, ConsumeNonce, Act, ExecPC
      <4>3. CASE AbortRefused(p) \/ Finalize(p) \/ ExecCrash(p)
        BY <2>l, <4>3 DEF AbortRefused, Finalize, ExecCrash
      <4> QED
        BY <2>2, <4>1, <4>2, <4>3
    <3> QED
      BY <3>1, <3>2, OtherGrant
  <2>3. CASE Consume(p)
    <3>1. CASE StillActive(egrant[p])
      BY <1>t, <2>3, <3>1, ConsumeGrant DEF Consume, Abstract!Next
    <3>2. CASE ~StillActive(egrant[p])
      BY <2>3, <3>2, <2>s, OtherGrant DEF Consume, grantState, ExecPC
    <3> QED
      BY <3>1, <3>2
  <2>4. CASE Start(p)
    <3>1. CASE CanMove(eatt[p], "RUNNING")
      BY <1>t, <2>4, <3>1, StartGrant DEF Start, Abstract!Next
    <3>2. CASE ~CanMove(eatt[p], "RUNNING")
      BY <2>4, <3>2, <2>l, OtherGrant DEF Start, grantState
    <3> QED
      BY <3>1, <3>2
  <2> QED
    BY <1>1, <2>1, <2>2, <2>3, <2>4 DEF ExecStep
<1>2. ASSUME NEW g \in Grant, revoke(g)
      PROVE  GrantInv' /\ Abstract!Next
  BY <1>2, RevokeGrant DEF Abstract!Next
<1>3. CASE \/ \E g \in Grant : Void(g)
           \/ \E a \in AttemptId : Lapse(a) \/ ExpireLease(a) \/ ClaimLapse(a)
  <2>1. UNCHANGED <<grantState, execVars>>
    BY <1>3 DEF Void, Lapse, ExpireLease, ClaimLapse, grantState, grantVars, execVars, gateVars
  <2> QED
    BY <2>1, OtherGrant DEF execVars
<1>4. ASSUME NEW c \in Coords, CoordStep(c) \/ Restart(c) \/ CoordCrash(c)
      PROVE  GrantInv' /\ UNCHANGED <<Phases, runs>>
  <2>1. CASE Reauthorize(c)
    <3>1. UNCHANGED <<runs, revoked, execVars>>
      BY <2>1 DEF Reauthorize
    <3>2. CASE Register(catt[c]) /\ gstat[catt[c]] \in {"none", "ACTIVE"}
      <4>1. catt[c] \in Grant
        BY <2>1 DEF Reauthorize, TypeInv, OnRows, Rows, Grant
      <4> QED
        BY <3>1, <3>2, <4>1, RegisterGrant DEF execVars, Phases
    <3>3. CASE UNCHANGED gstat
      BY <3>1, <3>3, OtherGrant DEF execVars, grantState
    <3> QED
      BY <2>1, <3>2, <3>3 DEF Reauthorize
  <2>2. CASE ~Reauthorize(c)
    <3>1. UNCHANGED <<grantState, execVars>>
      BY <1>4, <2>2 DEF CoordStep, Scan, Take, Open, Verify, Resolve, Settle, Terminalize, Claim, MarkCheck,
         MarkAuthorized, ReadOriginal, CloseOriginal, FindRetry, CreateRetry, MarkCreated, Restart, CoordCrash,
         grantState, grantVars, execVars, gateVars
    <3> QED
      BY <3>1, OtherGrant DEF execVars
  <2> QED
    BY <2>1, <2>2
<1>5. CASE UNCHANGED vars
  <2>1. UNCHANGED <<grantState, execVars>>
    BY <1>5 DEF vars, gateVars, grantVars, execVars, grantState
  <2> QED
    BY <2>1, OtherGrant DEF execVars
<1> QED
  BY <1>1, <1>2, <1>3, <1>4, <1>5 DEF Next, GateNext

\* However many executors hold copies of a grant, whoever is killed and whenever
\* it is revoked, the gate and the recovery beside it spend it once or revoke it,
\* and enter its handler at most once, after it was spent.
THEOREM GateImplementsOneTimeGrant == Spec => ImplementsOneTimeGrant
<1>1. Init => Abstract!Init
  BY DEF Init, GateInit, Abstract!Init, Phase
<1>2. TypeInv /\ GrantInv /\ [Next]_vars =>
        GrantInv' /\ [Abstract!Next]_<<[g \in Grant |-> Phase(g)], runs>>
  BY GrantStep DEF Phases
<1> QED
  BY <1>1, <1>2, TypeInit, TypeNext, GrantInit, PTL DEF Spec, ImplementsOneTimeGrant, Abstract!Spec

-----------------------------------------------------------------------------
(* Attempts of one idempotency key *)

Table == <<ast, akey, anum, agrant, aintent, receipt>>

Received == {"SUCCEEDED", "FAILED"}

\* The ways in which a step changes the attempt table.
Moved == \E a, n, rc : /\ CanMove(a, n) /\ transition(a, n, rc)
                       /\ n \in AttemptState \ {"none"} /\ rc \in BOOLEAN
                       /\ rc => n \in Received
                       /\ n = "RECOVERED" => a \in AttemptId /\ review[a] = "SIDE_EFFECT_CONFIRMED"
First == \E a \in AttemptId, g \in Grant :
           InsertAttempt(a, g, 1, g, IntentOf(g)) /\ ~NumberTaken(g, 1)
Retried == \E a \in AttemptId, c \in Coords :
             /\ cpc[c] = "creating" /\ ~NumberTaken(akey[catt[c]], cnum[c])
             /\ InsertAttempt(a, akey[catt[c]], cnum[c], catt[c], aintent[catt[c]])

LEMMA IsMove ==
  ASSUME NEW a, NEW n \in AttemptState \ {"none"}, NEW rc \in BOOLEAN,
         CanMove(a, n), transition(a, n, rc), rc => n \in Received,
         n = "RECOVERED" => a \in AttemptId /\ review[a] = "SIDE_EFFECT_CONFIRMED"
  PROVE  Moved
  BY DEF Moved

LEMMA TableSteps ==
  ASSUME TypeInv, [Next]_vars
  PROVE  UNCHANGED Table \/ Moved \/ First \/ Retried
<1>t. egrant \in [Execs -> Grant]
  BY DEF TypeInv, TypeOK, GateTypeOK
<1>1. ASSUME NEW p \in Execs, ExecStep(p) \/ ExecCrash(p) PROVE UNCHANGED Table \/ Moved \/ First
  <2>1. CASE CreateInsert(p)
    BY <1>t, <2>1 DEF CreateInsert, First, Table, attemptVars
  <2>2. CASE Lease(p)
    BY <2>2, IsMove DEF Lease, AttemptState
  <2>3. CASE Start(p)
    <3>1. \/ CanMove(eatt[p], "RUNNING") /\ transition(eatt[p], "RUNNING", FALSE)
          \/ UNCHANGED Table
      BY <2>3 DEF Start, Table, attemptVars
    <3> QED
      BY <3>1, IsMove DEF AttemptState
  <2>4. CASE AbortRefused(p)
    <3>1. \/ CanMove(eatt[p], "ABORTED") /\ transition(eatt[p], "ABORTED", FALSE)
          \/ UNCHANGED Table
      BY <2>4 DEF AbortRefused, Table, attemptVars
    <3> QED
      BY <3>1, IsMove DEF AttemptState, Terminal
  <2>5. CASE Finalize(p)
    <3>1. \/ \E n \in Received : CanMove(eatt[p], n) /\ transition(eatt[p], n, TRUE)
          \/ UNCHANGED Table
      BY <2>5 DEF Finalize, Table, Received, attemptVars
    <3> QED
      BY <3>1, IsMove DEF AttemptState, Terminal, Received
  <2>6. CASE Authorize(p) \/ CreateRead(p) \/ Consume(p) \/ ConsumeNonce(p) \/ Act(p) \/ ExecCrash(p)
    BY <2>6 DEF Authorize, CreateRead, Consume, ConsumeNonce, Act, ExecCrash, Table, attemptVars
  <2> QED
    BY <1>1, <2>1, <2>2, <2>3, <2>4, <2>5, <2>6 DEF ExecStep
<1>2. CASE \E a \in AttemptId : ExpireLease(a)
  <2>1. PICK a \in AttemptId : ExpireLease(a)
    BY <1>2
  <2>2. CanMove(a, "TIMED_OUT") /\ transition(a, "TIMED_OUT", FALSE)
    BY <2>1 DEF ExpireLease, CanMove, Allowed
  <2> QED
    BY <2>2, IsMove DEF AttemptState, Terminal
<1>3. CASE \/ \E g \in Grant : revoke(g) \/ Void(g)
           \/ \E a \in AttemptId : Lapse(a) \/ ClaimLapse(a)
           \/ UNCHANGED vars
  BY <1>3 DEF revoke, Void, Lapse, ClaimLapse, vars, gateVars, attemptVars, Table
<1>4. ASSUME NEW c \in Coords, CoordStep(c) \/ Restart(c) \/ CoordCrash(c)
      PROVE  UNCHANGED Table \/ Moved \/ Retried
  <2>1. CASE Terminalize(c)
    <3>1. catt[c] \in AttemptId
      BY <2>1 DEF Terminalize, TypeInv, OnRows, Rows
    <3>2. \/ /\ CanMove(catt[c], Closing(review[catt[c]]))
             /\ transition(catt[c], Closing(review[catt[c]]), FALSE)
          \/ UNCHANGED Table
      BY <2>1 DEF Terminalize, Table, attemptVars
    <3>3. /\ Closing(review[catt[c]]) \in {"RECOVERED", "ABORTED"}
          /\ Closing(review[catt[c]]) = "RECOVERED" => review[catt[c]] = "SIDE_EFFECT_CONFIRMED"
      BY DEF Closing
    <3> QED
      BY <3>1, <3>2, <3>3, IsMove DEF AttemptState, Terminal
  <2>2. CASE CloseOriginal(c)
    <3>1. \/ CanMove(catt[c], "ABORTED") /\ transition(catt[c], "ABORTED", FALSE)
          \/ UNCHANGED Table
      BY <2>2 DEF CloseOriginal, Table, attemptVars
    <3> QED
      BY <3>1, IsMove DEF AttemptState, Terminal
  <2>3. CASE CreateRetry(c)
    BY <2>3 DEF CreateRetry, Retried, Table, attemptVars
  <2>4. CASE ~(Terminalize(c) \/ CloseOriginal(c) \/ CreateRetry(c))
    BY <1>4, <2>4 DEF CoordStep, Scan, Take, Open, Verify, Resolve, Settle, Claim, Reauthorize, MarkCheck,
       MarkAuthorized, ReadOriginal, FindRetry, MarkCreated, Restart, CoordCrash, gateVars, attemptVars, Table
  <2> QED
    BY <2>1, <2>2, <2>3, <2>4
<1> QED
  BY <1>1, <1>2, <1>3, <1>4 DEF Next, GateNext

\* What a row is about never changes, and a terminal row does not change at all.
RowsKept ==
  \A a \in Rows :
    /\ a \in Rows'
    /\ akey'[a] = akey[a] /\ anum'[a] = anum[a] /\ agrant'[a] = agrant[a] /\ aintent'[a] = aintent[a]
    /\ ast[a] \in Terminal => ast'[a] = ast[a] /\ receipt'[a] = receipt[a]

LEMMA RowsStay ==
  ASSUME TypeInv, UNCHANGED Table \/ Moved \/ First \/ Retried PROVE RowsKept
<1>t. AttemptsOK
  BY DEF TypeInv, TypeOK, GateTypeOK, AttemptsOK
<1>1. CASE UNCHANGED Table
  BY <1>1 DEF Table, RowsKept, Rows
<1>2. CASE Moved
  BY <1>t, <1>2 DEF Moved, CanMove, Allowed, transition, RowsKept, Rows, AttemptsOK, Terminal
<1>3. CASE First
  BY <1>t, <1>3 DEF First, InsertAttempt, RowsKept, Rows, AttemptsOK
<1>4. CASE Retried
  BY <1>t, <1>4 DEF Retried, InsertAttempt, RowsKept, Rows, AttemptsOK
<1> QED
  BY <1>1, <1>2, <1>3, <1>4

\* A decided review stays as it is.
LEMMA ReviewsStay ==
  ASSUME TypeInv, [Next]_vars, NEW a \in AttemptId, review[a] \in Verdict
  PROVE  review'[a] = review[a]
<1>1. CASE \E c \in Coords : Open(c) \/ Resolve(c)
  BY <1>1 DEF Open, Resolve, TypeInv, TypeOK, Verdict
<1>2. ASSUME NEW c \in Coords, ~(Open(c) \/ Resolve(c)), CoordStep(c) \/ Restart(c) \/ CoordCrash(c)
      PROVE  UNCHANGED review
  BY <1>2 DEF CoordStep, Scan, Take, Verify, Settle, Terminalize, Claim, Reauthorize, MarkCheck,
     MarkAuthorized, ReadOriginal, CloseOriginal, FindRetry, CreateRetry, MarkCreated, Restart, CoordCrash,
     reviewVars
<1> QED
  BY <1>1, <1>2 DEF Next, ClaimLapse, vars, reviewVars

PastReview == {"claimed", "mark", "marking", "close", "closing", "find", "creating", "created"}

\* The attempts of a key are numbered from 1 without gaps and repetitions, ...
Numbered ==
  /\ \A b \in Rows : anum[b] >= 1 /\ \A n \in 1..anum[b] : NumberTaken(akey[b], n)
  /\ \A a, b \in Rows : akey[a] = akey[b] /\ anum[a] = anum[b] => a = b
\* ... all but the last one are closed, ...
LastOpen ==
  \A a, b \in Rows : akey[a] = akey[b] /\ ast[a] \notin Terminal => anum[b] <= anum[a]
\* ... and a receipt closes its attempt.
Receipted == \A a \in AttemptId : receipt[a] => ast[a] \in Received
\* A coordinator past the review of its candidate retries what may be retried.
Retrying ==
  \A c \in Coords :
    /\ cpc[c] \in PastReview => review[catt[c]] = "SAFE_TO_RETRY"
    /\ cpc[c] \in {"find", "creating"} => ast[catt[c]] = "ABORTED"
    /\ cpc[c] = "creating" => cnum[c] = anum[catt[c]] + 1

KeyInv == Numbered /\ LastOpen /\ Receipted /\ Retrying /\ RetryIsReviewed

LEMMA KeyInit == Init => KeyInv
  BY DEF Init, GateInit, KeyInv, Numbered, LastOpen, Receipted, Retrying, RetryIsReviewed, Rows, PastReview

\* The statements of the coordinators keep what they know of their candidate.
LEMMA RetryingNext ==
  ASSUME TypeInv, KeyInv, [Next]_vars, RowsKept PROVE Retrying'
<1>r. ASSUME NEW a \in AttemptId, review[a] = "SAFE_TO_RETRY" PROVE review'[a] = "SAFE_TO_RETRY"
  BY <1>r, ReviewsStay DEF Verdict
<1>a. \A a \in Rows : ast[a] = "ABORTED" => ast'[a] = "ABORTED"
  BY DEF RowsKept, Terminal
<1>o. \A c \in Coords : cpc[c] \in PastReview => catt[c] \in Rows /\ catt[c] \in AttemptId
  BY DEF TypeInv, OnRows, Rows, PastReview
<1> DEFINE Knows(c) == /\ cpc[c] \in PastReview => review[catt[c]] = "SAFE_TO_RETRY"
                       /\ cpc[c] \in {"find", "creating"} => ast[catt[c]] = "ABORTED"
                       /\ cpc[c] = "creating" => cnum[c] = anum[catt[c]] + 1
<1>k. \A c \in Coords : Knows(c)
  BY DEF KeyInv, Retrying
<1>u. ASSUME NEW c \in Coords, cpc'[c] = cpc[c], catt'[c] = catt[c], cnum'[c] = cnum[c] PROVE Knows(c)'
  BY <1>r, <1>a, <1>o, <1>k, <1>u DEF RowsKept, PastReview
<1>1. ASSUME NEW c \in Coords, CoordStep(c) \/ Restart(c) \/ CoordCrash(c) PROVE Retrying'
  <2>1. ASSUME NEW d \in Coords, d # c PROVE Knows(d)'
    <3>1. cpc'[d] = cpc[d] /\ catt'[d] = catt[d] /\ cnum'[d] = cnum[d]
      BY <1>1, <2>1 DEF CoordStep, Scan, Take, Open, Verify, Resolve, Settle, Terminalize, Claim, Reauthorize,
         MarkCheck, MarkAuthorized, ReadOriginal, CloseOriginal, FindRetry, CreateRetry, MarkCreated, Restart,
         CoordCrash, SkipOrRaise, Proceed, Skip, Raise, Goto, Forget, locals, TypeInv, TypeOK
    <3> QED
      BY <3>1, <1>u
  <2>2. Knows(c)'
    <3>t. /\ cpc \in [Coords -> CoordPC] /\ catt \in [Coords -> AttemptId \cup {NoAttempt}]
          /\ cnum \in [Coords -> Nat] /\ AttemptsOK
      BY DEF TypeInv, TypeOK, GateTypeOK, AttemptsOK
    <3>e. ASSUME cpc'[c] \notin PastReview PROVE Knows(c)'
      BY <3>e DEF PastReview
    <3>s. ASSUME Skip(c) \/ Raise(c) PROVE Knows(c)'
      BY <3>t, <3>s, <3>e DEF Skip, Raise, Goto, PastReview
    <3>p. ASSUME NEW l \in PastReview, cpc'[c] = l, catt'[c] = catt[c], catt[c] \in AttemptId,
                 review[catt[c]] = "SAFE_TO_RETRY", l \in {"find", "creating"} => ast'[catt[c]] = "ABORTED",
                 l # "creating"
          PROVE  Knows(c)'
      BY <3>p, <1>r
    <3>1. CASE Scan(c) \/ Take(c) \/ Open(c) \/ Verify(c) \/ Resolve(c) \/ Settle(c) \/ Terminalize(c)
               \/ Restart(c) \/ CoordCrash(c)
      <4>1. cpc'[c] \notin PastReview
        BY <3>t, <3>1 DEF Scan, Take, Open, Verify, Resolve, Settle, Terminalize, Restart, CoordCrash,
           SkipOrRaise, Proceed, Skip, Raise, Goto, PastReview
      <4> QED
        BY <4>1, <3>e
    <3>2. CASE Claim(c)
      <4>1. catt[c] \in AttemptId /\ review[catt[c]] = "SAFE_TO_RETRY"
        BY <3>2 DEF Claim, TypeInv, OnRows, Rows
      <4>2. \/ Skip(c) \/ Raise(c)
            \/ catt'[c] = catt[c] /\ cpc'[c] \in {"claimed", "mark", "close"}
        BY <3>t, <3>2 DEF Claim, Proceed, Goto, locals
      <4> QED
        BY <4>1, <4>2, <3>s, <3>p DEF PastReview
    <3>3. CASE Reauthorize(c) \/ MarkCheck(c) \/ MarkAuthorized(c)
      <4>1. catt[c] \in AttemptId /\ review[catt[c]] = "SAFE_TO_RETRY"
        BY <3>3, <1>k, <1>o DEF Reauthorize, MarkCheck, MarkAuthorized, PastReview
      <4>2. \/ Skip(c) \/ Raise(c)
            \/ catt'[c] = catt[c] /\ cpc'[c] \in {"mark", "marking", "close"}
        BY <3>t, <3>3 DEF Reauthorize, MarkCheck, MarkAuthorized, SkipOrRaise, Proceed, Goto, locals
      <4> QED
        BY <4>1, <4>2, <3>s, <3>p DEF PastReview
    <3>4. CASE ReadOriginal(c) \/ CloseOriginal(c)
      <4>1. catt[c] \in Rows /\ catt[c] \in AttemptId /\ review[catt[c]] = "SAFE_TO_RETRY"
        BY <3>4, <1>k, <1>o DEF ReadOriginal, CloseOriginal, PastReview
      <4>2. \/ Skip(c) \/ Raise(c)
            \/ catt'[c] = catt[c] /\ cpc'[c] = "closing"
            \/ catt'[c] = catt[c] /\ cpc'[c] = "find" /\ ast'[catt[c]] = "ABORTED"
        BY <3>t, <3>4, <4>1, <1>a DEF ReadOriginal, CloseOriginal, Closed, Proceed, Goto, locals, transition,
           AttemptsOK
      <4> QED
        BY <4>1, <4>2, <3>s, <3>p DEF PastReview
    <3>5. CASE FindRetry(c)
      <4>1. catt[c] \in Rows /\ catt[c] \in AttemptId /\ review[catt[c]] = "SAFE_TO_RETRY"
            /\ ast[catt[c]] = "ABORTED" /\ ast'[catt[c]] = "ABORTED"
        BY <3>5, <1>k, <1>o, <1>a DEF FindRetry, PastReview
      <4>2. CASE Raise(c)
        BY <4>2, <3>s
      <4>3. CASE Goto(c, "created") /\ UNCHANGED catt
        BY <3>t, <4>1, <4>3, <3>p DEF Goto, PastReview
      <4>4. ASSUME RetriesOf(catt[c]) = {}, NEW b \in AttemptId, IsLatest(b, akey[catt[c]]),
                   cnum' = [cnum EXCEPT ![c] = anum[b] + 1], Goto(c, "creating"), UNCHANGED catt
            PROVE  Knows(c)'
        <5>1. b \in Rows /\ akey[b] = akey[catt[c]] /\ anum[catt[c]] <= anum[b]
          BY <4>1, <4>4 DEF IsLatest, WithKey, Rows
        <5>2. anum[b] \in Nat /\ anum[catt[c]] \in Nat /\ anum[catt[c]] >= 1
          BY <3>t, <4>1 DEF AttemptsOK, KeyInv, Numbered
        <5>3. ASSUME anum[catt[c]] < anum[b] PROVE FALSE
          <6>1. anum[catt[c]] + 1 \in 1..anum[b]
            BY <5>2, <5>3
          <6>2. NumberTaken(akey[b], anum[catt[c]] + 1)
            BY <5>1, <6>1 DEF KeyInv, Numbered
          <6>3. PICK s \in WithKey(akey[b]) : anum[s] = anum[catt[c]] + 1
            BY <6>2 DEF NumberTaken
          <6>4. agrant[s] = catt[c]
            BY <4>1, <5>1, <6>3 DEF KeyInv, RetryIsReviewed, WithKey, Rows
          <6> QED
            BY <4>4, <6>3, <6>4 DEF RetriesOf, WithKey
        <5>4. anum[b] = anum[catt[c]]
          BY <5>1, <5>2, <5>3
        <5>5. cpc'[c] = "creating" /\ cnum'[c] = anum[catt[c]] + 1 /\ catt'[c] = catt[c]
          BY <3>t, <4>4, <5>4 DEF Goto
        <5> QED
          BY <4>1, <5>5, <1>r DEF RowsKept
      <4> QED
        BY <3>5, <4>2, <4>3, <4>4 DEF FindRetry
    <3>6. CASE CreateRetry(c) \/ MarkCreated(c)
      <4>1. catt[c] \in AttemptId /\ review[catt[c]] = "SAFE_TO_RETRY"
        BY <3>6, <1>k, <1>o DEF CreateRetry, MarkCreated, PastReview
      <4>2. \/ Skip(c) \/ Raise(c)
            \/ catt'[c] = catt[c] /\ cpc'[c] = "created"
        BY <3>t, <3>6 DEF CreateRetry, MarkCreated, SkipOrRaise, Goto
      <4> QED
        BY <4>1, <4>2, <3>s, <3>p DEF PastReview
    <3> QED
      BY <1>1, <3>1, <3>2, <3>3, <3>4, <3>5, <3>6 DEF CoordStep
  <2> QED
    BY <2>1, <2>2 DEF Retrying
<1>2. CASE UNCHANGED coordVars
  BY <1>2, <1>u DEF Retrying, coordVars
<1> QED
  BY <1>1, <1>2 DEF Next, ClaimLapse, vars

TableInv == Numbered /\ LastOpen /\ Receipted /\ RetryIsReviewed

\* A transition, and a step that leaves the table alone.
LEMMA MovedInv ==
  ASSUME TypeInv, KeyInv, [Next]_vars, RowsKept, UNCHANGED Table \/ Moved
  PROVE  TableInv'
<1>t. AttemptsOK
  BY DEF TypeInv, TypeOK, GateTypeOK, AttemptsOK
<1>1. /\ UNCHANGED <<akey, anum, agrant, aintent>>
      /\ Rows' = Rows
      /\ \A a \in Rows : ast'[a] \notin Terminal => ast[a] \notin Terminal
      /\ \A a \in AttemptId : receipt'[a] => ast'[a] \in Received
  <2>1. CASE UNCHANGED Table
    BY <2>1 DEF Table, Rows, KeyInv, Receipted
  <2>2. CASE Moved
    BY <1>t, <2>2 DEF Moved, CanMove, Allowed, transition, AttemptsOK, Rows, Terminal, Received, KeyInv,
       Receipted
  <2> QED
    BY <2>1, <2>2
<1>2. \A k, n : NumberTaken(k, n)' = NumberTaken(k, n)
  BY <1>1 DEF NumberTaken, WithKey, Rows
<1>3. Numbered'
  BY <1>1, <1>2 DEF KeyInv, Numbered
<1>4. LastOpen' /\ Receipted'
  BY <1>1 DEF KeyInv, LastOpen, Receipted
<1>5. RetryIsReviewed'
  <2> SUFFICES ASSUME NEW a \in AttemptId, NEW b \in AttemptId, ast'[a] # "none", ast'[b] # "none",
                      akey'[a] = akey'[b], anum'[b] = anum'[a] + 1
               PROVE  review'[a] = "SAFE_TO_RETRY" /\ ast'[a] = "ABORTED" /\ ~receipt'[a] /\ agrant'[b] = a
    BY DEF RetryIsReviewed
  <2>1. a \in Rows /\ b \in Rows /\ akey[a] = akey[b] /\ anum[b] = anum[a] + 1
    BY <1>1 DEF Rows
  <2>2. review[a] = "SAFE_TO_RETRY" /\ ast[a] = "ABORTED" /\ ~receipt[a] /\ agrant[b] = a
    BY <2>1 DEF KeyInv, RetryIsReviewed, Rows
  <2>3. review'[a] = "SAFE_TO_RETRY"
    BY <2>2, ReviewsStay DEF Verdict
  <2> QED
    BY <1>1, <2>1, <2>2, <2>3 DEF RowsKept, Terminal
<1> QED
  BY <1>3, <1>4, <1>5 DEF TableInv

\* A new row: the first of its key, or the one after a last one that is closed,
\* reviewed, and the grant of the new row.
LEMMA InsertInv ==
  ASSUME TypeInv, KeyInv, [Next]_vars, RowsKept, NEW x \in AttemptId, NEW k \in Grant, NEW n \in Nat,
         NEW g \in Grant, NEW i, InsertAttempt(x, k, n, g, i), ~NumberTaken(k, n),
         \/ n = 1
         \/ \E a \in Rows : /\ akey[a] = k /\ n = anum[a] + 1 /\ g = a
                            /\ ast[a] = "ABORTED" /\ review[a] = "SAFE_TO_RETRY"
  PROVE  TableInv'
<1>t. AttemptsOK
  BY DEF TypeInv, TypeOK, GateTypeOK, AttemptsOK
<1>1. /\ x \notin Rows /\ Rows' = Rows \cup {x}
      /\ akey'[x] = k /\ anum'[x] = n /\ agrant'[x] = g /\ ast'[x] = "AUTHORIZED"
      /\ \A a \in Rows : /\ akey'[a] = akey[a] /\ anum'[a] = anum[a] /\ agrant'[a] = agrant[a]
                         /\ ast'[a] = ast[a] /\ receipt'[a] = receipt[a]
      /\ receipt' = receipt
  BY <1>t DEF InsertAttempt, AttemptsOK, Rows
<1>2. \A a \in Rows : anum[a] \in Nat /\ anum[a] >= 1
  BY <1>t DEF AttemptsOK, Rows, KeyInv, Numbered
<1>3. \A a \in Rows : akey[a] = k => anum[a] < n
  BY <1>2 DEF KeyInv, Numbered
<1>4. \A a \in Rows, m \in Nat : NumberTaken(akey[a], m) => NumberTaken(akey[a], m)'
  BY <1>1 DEF NumberTaken, WithKey, Rows
<1>5. \A a \in Rows : akey[a] = k => ast[a] \in Terminal
  <2> SUFFICES ASSUME NEW a \in Rows, akey[a] = k PROVE ast[a] \in Terminal
    OBVIOUS
  <2>1. n # 1
    BY <1>2, <1>3
  <2>2. PICK b \in Rows : akey[b] = k /\ n = anum[b] + 1 /\ ast[b] = "ABORTED"
    BY <2>1
  <2>3. CASE a = b
    BY <2>2, <2>3 DEF Terminal
  <2>4. CASE a # b
    <3>1. anum[a] < anum[b]
      BY <1>2, <1>3, <2>2, <2>4 DEF KeyInv, Numbered
    <3> QED
      BY <1>2, <2>2, <3>1 DEF KeyInv, LastOpen
  <2> QED
    BY <2>3, <2>4
<1>6. \A m \in 1..n : NumberTaken(k, m)'
  <2> SUFFICES ASSUME NEW m \in 1..n PROVE NumberTaken(k, m)'
    OBVIOUS
  <2>1. CASE m = n
    BY <1>1, <2>1 DEF NumberTaken, WithKey, Rows
  <2>2. CASE m # n
    <3>1. PICK a \in Rows : akey[a] = k /\ n = anum[a] + 1
      BY <2>2
    <3>2. m \in 1..anum[a] /\ m \in Nat
      BY <1>2, <2>2, <3>1
    <3>3. NumberTaken(akey[a], m)
      BY <3>1, <3>2 DEF KeyInv, Numbered
    <3>4. NumberTaken(akey[a], m)'
      BY <1>4, <3>1, <3>2, <3>3
    <3>5. akey'[a] = k
      BY <1>1, <3>1
    <3> QED
      BY <1>1, <3>1, <3>4, <3>5 DEF NumberTaken, WithKey
  <2> QED
    BY <2>1, <2>2
<1>7. Numbered'
  <2>1. \A b \in Rows' : anum'[b] >= 1 /\ \A m \in 1..anum'[b] : NumberTaken(akey[b], m)'
    <3> SUFFICES ASSUME NEW b \in Rows' PROVE anum'[b] >= 1 /\ \A m \in 1..anum'[b] : NumberTaken(akey[b], m)'
      OBVIOUS
    <3>1. CASE b = x
      <4>1. \A m \in 1..n : NumberTaken(akey[x], m)'
        BY <1>1, <1>6 DEF NumberTaken, WithKey
      <4>2. anum'[b] = n /\ n >= 1
        BY <1>1, <1>2, <3>1
      <4>3. \A m \in 1..n : NumberTaken(akey[b], m)'
        BY <3>1, <4>1
      <4> QED
        BY <4>2, <4>3
    <3>2. CASE b \in Rows
      BY <1>1, <1>2, <1>4, <3>2 DEF KeyInv, Numbered
    <3> QED
      BY <1>1, <3>1, <3>2
  <2>2. \A a, b \in Rows' : akey'[a] = akey'[b] /\ anum'[a] = anum'[b] => a = b
    BY <1>1, <1>3 DEF KeyInv, Numbered
  <2> QED
    BY <2>1, <2>2 DEF Numbered
<1>8. LastOpen'
  BY <1>1, <1>2, <1>3, <1>5 DEF KeyInv, LastOpen, Terminal
<1>9. Receipted'
  BY <1>1, <1>t DEF KeyInv, Receipted, Received, Rows
<1>10. RetryIsReviewed'
  <2> SUFFICES ASSUME NEW a \in Rows', NEW b \in Rows', akey'[a] = akey'[b], anum'[b] = anum'[a] + 1
               PROVE  review'[a] = "SAFE_TO_RETRY" /\ ast'[a] = "ABORTED" /\ ~receipt'[a] /\ agrant'[b] = a
    BY DEF RetryIsReviewed, Rows
  <2>1. a \in Rows
    BY <1>1, <1>2, <1>3
  <2>2. review[a] = "SAFE_TO_RETRY" /\ ast[a] = "ABORTED" /\ agrant'[b] = a
    <3>1. CASE b \in Rows
      BY <1>1, <2>1, <3>1 DEF KeyInv, RetryIsReviewed, Rows
    <3>2. CASE b = x
      <4>1. n # 1 /\ akey[a] = k /\ n = anum[a] + 1
        BY <1>1, <1>2, <2>1, <3>2
      <4>2. PICK e \in Rows : /\ akey[e] = k /\ n = anum[e] + 1 /\ g = e
                              /\ ast[e] = "ABORTED" /\ review[e] = "SAFE_TO_RETRY"
        BY <4>1
      <4>3. e = a
        BY <1>2, <2>1, <4>1, <4>2 DEF KeyInv, Numbered
      <4> QED
        BY <1>1, <3>2, <4>2, <4>3
    <3> QED
      BY <1>1, <3>1, <3>2
  <2>3. review'[a] = "SAFE_TO_RETRY"
    BY <2>1, <2>2, ReviewsStay DEF Verdict, Rows
  <2>4. ~receipt'[a]
    BY <1>1, <2>1, <2>2 DEF KeyInv, Receipted, Received, Rows
  <2> QED
    BY <1>1, <2>1, <2>2, <2>3, <2>4
<1> QED
  BY <1>7, <1>8, <1>9, <1>10 DEF TableInv

LEMMA KeyNext == TypeInv /\ KeyInv /\ [Next]_vars => KeyInv'
<1> SUFFICES ASSUME TypeInv, KeyInv, [Next]_vars PROVE KeyInv'
  OBVIOUS
<1>t. AttemptsOK
  BY DEF TypeInv, TypeOK, GateTypeOK, AttemptsOK
<1>1. UNCHANGED Table \/ Moved \/ First \/ Retried
  BY TableSteps
<1>2. RowsKept
  BY <1>1, RowsStay
<1>3. Retrying'
  BY <1>2, RetryingNext
<1>4. ASSUME UNCHANGED Table \/ Moved PROVE TableInv'
  BY <1>2, <1>4, MovedInv
<1>5. ASSUME First PROVE TableInv'
  <2>1. PICK x \in AttemptId, g \in Grant :
          InsertAttempt(x, g, 1, g, IntentOf(g)) /\ ~NumberTaken(g, 1)
    BY <1>5 DEF First
  <2> QED
    BY <1>2, <2>1, InsertInv
<1>6. ASSUME Retried PROVE TableInv'
  <2>1. PICK x \in AttemptId, c \in Coords :
          /\ cpc[c] = "creating" /\ ~NumberTaken(akey[catt[c]], cnum[c])
          /\ InsertAttempt(x, akey[catt[c]], cnum[c], catt[c], aintent[catt[c]])
    BY <1>6 DEF Retried
  <2>2. catt[c] \in Rows
    BY <2>1 DEF TypeInv, OnRows
  <2>3. catt[c] \in Grant /\ akey[catt[c]] \in Grant /\ cnum[c] \in Nat
    BY <1>t, <2>2 DEF Rows, AttemptsOK, Grant, TypeInv, TypeOK
  <2>4. /\ cnum[c] = anum[catt[c]] + 1
        /\ ast[catt[c]] = "ABORTED" /\ review[catt[c]] = "SAFE_TO_RETRY"
    BY <2>1 DEF KeyInv, Retrying, PastReview
  <2> QED
    BY <1>2, <2>1, <2>2, <2>3, <2>4, InsertInv
<1> QED
  BY <1>1, <1>3, <1>4, <1>5, <1>6 DEF KeyInv, TableInv

\* However many coordinators and executors race over it, an idempotency key has
\* one attempt that is not terminal: create() refuses while the last one is
\* open, and the unique index refuses the second of two that both read it closed.
THEOREM KeysHaveOneActiveAttempt == Spec => []OneActivePerKey
<1>1. Spec => [](TypeInv /\ KeyInv)
  BY TypeInit, TypeNext, KeyInit, KeyNext, PTL DEF Spec
<1>2. TypeInv /\ KeyInv => OneActivePerKey
  <2> SUFFICES ASSUME TypeInv, KeyInv, NEW a \in AttemptId, NEW b \in AttemptId,
                      akey[a] = akey[b],
                      ast[a] \notin Terminal \cup {"none"}, ast[b] \notin Terminal \cup {"none"}
               PROVE  a = b
    BY DEF OneActivePerKey
  <2>1. a \in Rows /\ b \in Rows /\ anum[a] \in Nat /\ anum[b] \in Nat
    BY DEF Rows, TypeInv, TypeOK, GateTypeOK
  <2>2. anum[a] = anum[b]
    BY <2>1 DEF KeyInv, LastOpen
  <2> QED
    BY <2>1, <2>2 DEF KeyInv, Numbered
<1> QED
  BY <1>1, <1>2, PTL

\* An attempt is retried only after a review that found it safe, when it was
\* closed without a receipt, and under the grant issued for that retry:
\* whatever coordinator, killed wherever, carries the retry out.
THEOREM RetriesAreReviewed == Spec => []RetryIsReviewed
<1>1. Spec => [](TypeInv /\ KeyInv)
  BY TypeInit, TypeNext, KeyInit, KeyNext, PTL DEF Spec
<1>2. KeyInv => RetryIsReviewed
  BY DEF KeyInv
<1> QED
  BY <1>1, <1>2, PTL

-----------------------------------------------------------------------------
(* The verdict that a side effect is there *)

\* An intent whose side effect a review has seen, or is about to record.
Confirmed(i) ==
  \/ \E a \in Rows : /\ aintent[a] = i
                     /\ ast[a] = "RECOVERED" \/ review[a] = "SIDE_EFFECT_CONFIRMED"
  \/ \E c \in Coords : /\ cpc[c] = "resolve" /\ aintent[catt[c]] = i
                        /\ cobs[c] = "SIDE_EFFECT_CONFIRMED"

RealInv == \A i \in BaseGrants : Confirmed(i) => effects[i] > 0

LEMMA RealInit == Init => RealInv
  BY DEF Init, GateInit, RealInv, Confirmed, Rows

\* Side effects are not undone.
LEMMA EffectsGrow ==
  ASSUME TypeInv, [Next]_vars, NEW i \in BaseGrants, effects[i] > 0 PROVE effects'[i] > 0
<1>t. effects \in [BaseGrants -> Nat]
  BY DEF TypeInv, TypeOK, GateTypeOK
<1>1. ASSUME NEW p \in Execs, Act(p) PROVE effects'[i] > 0
  <2> DEFINE j == IntentOf(egrant[p])
  <2>1. effects' = [effects EXCEPT ![j] = @ + 1]
    BY <1>1 DEF Act
  <2> QED
    BY <1>t, <2>1
<1>2. ASSUME NEW p \in Execs, ~Act(p), ExecStep(p) \/ ExecCrash(p) PROVE UNCHANGED effects
  BY <1>2 DEF ExecStep, ExecCrash, Authorize, CreateRead, CreateInsert, Lease, Consume, AbortRefused,
     ConsumeNonce, Start, Finalize
<1>3. ASSUME NEW c \in Coords, CoordStep(c) \/ Restart(c) \/ CoordCrash(c) PROVE UNCHANGED effects
  BY <1>3 DEF CoordStep, Scan, Take, Open, Verify, Resolve, Settle, Terminalize, Claim, Reauthorize,
     MarkCheck, MarkAuthorized, ReadOriginal, CloseOriginal, FindRetry, CreateRetry, MarkCreated, Restart,
     CoordCrash, gateVars
<1>4. CASE \/ \E g \in Grant : revoke(g) \/ Void(g)
           \/ \E a \in AttemptId : Lapse(a) \/ ExpireLease(a) \/ ClaimLapse(a)
           \/ UNCHANGED vars
  BY <1>4 DEF revoke, Void, Lapse, ExpireLease, ClaimLapse, vars, gateVars
<1> QED
  BY <1>1, <1>2, <1>3, <1>4 DEF Next, GateNext

\* Who gets to "resolve", and who records a verdict.
LEMMA ResolveSteps ==
  ASSUME TypeInv, [Next]_vars, NEW c \in Coords, cpc'[c] = "resolve"
  PROVE  \/ Verify(c)
         \/ cpc[c] = "resolve" /\ catt'[c] = catt[c] /\ cobs'[c] = cobs[c]
<1>t. /\ cpc \in [Coords -> CoordPC] /\ catt \in [Coords -> AttemptId \cup {NoAttempt}]
      /\ cobs \in [Coords -> Review]
  BY DEF TypeInv, TypeOK
<1>1. ASSUME NEW d \in Coords, d # c, CoordStep(d) \/ Restart(d) \/ CoordCrash(d)
      PROVE  cpc[c] = "resolve" /\ catt'[c] = catt[c] /\ cobs'[c] = cobs[c]
  <2>1. CASE Scan(d) \/ Take(d) \/ Open(d) \/ Verify(d) \/ Resolve(d) \/ Settle(d) \/ Terminalize(d) \/ Claim(d)
    BY <1>t, <1>1, <2>1 DEF Scan, Take, Open, Verify, Resolve, Settle, Terminalize, Claim, SkipOrRaise,
       Skip, Raise, Proceed, Goto, Forget, locals
  <2>2. CASE \/ Reauthorize(d) \/ MarkCheck(d) \/ MarkAuthorized(d) \/ ReadOriginal(d) \/ CloseOriginal(d)
             \/ FindRetry(d) \/ CreateRetry(d) \/ MarkCreated(d)
    BY <1>t, <1>1, <2>2 DEF Reauthorize, MarkCheck, MarkAuthorized, ReadOriginal, CloseOriginal, FindRetry,
       CreateRetry, MarkCreated, SkipOrRaise, Skip, Raise, Proceed, Goto, Forget, locals
  <2>3. CASE Restart(d) \/ CoordCrash(d)
    BY <1>t, <1>1, <2>3 DEF Restart, CoordCrash, Proceed, Goto, Forget, locals
  <2> QED
    BY <1>1, <2>1, <2>2, <2>3 DEF CoordStep
<1>2. ASSUME CoordStep(c) \/ Restart(c) \/ CoordCrash(c) PROVE Verify(c)
  <2>1. CASE Scan(c) \/ Take(c) \/ Open(c) \/ Resolve(c) \/ Settle(c) \/ Terminalize(c) \/ Claim(c)
    BY <1>t, <2>1 DEF Scan, Take, Open, Resolve, Settle, Terminalize, Claim, SkipOrRaise,
       Skip, Raise, Proceed, Goto, Forget, locals
  <2>2. CASE \/ Reauthorize(c) \/ MarkCheck(c) \/ MarkAuthorized(c) \/ ReadOriginal(c) \/ CloseOriginal(c)
             \/ FindRetry(c) \/ CreateRetry(c) \/ MarkCreated(c)
    BY <1>t, <2>2 DEF Reauthorize, MarkCheck, MarkAuthorized, ReadOriginal, CloseOriginal, FindRetry,
       CreateRetry, MarkCreated, SkipOrRaise, Skip, Raise, Proceed, Goto, Forget, locals
  <2>3. CASE Restart(c) \/ CoordCrash(c)
    BY <1>t, <2>3 DEF Restart, CoordCrash, Proceed, Goto, Forget, locals
  <2> QED
    BY <1>2, <2>1, <2>2, <2>3 DEF CoordStep
<1>3. CASE UNCHANGED coordVars
  BY <1>3 DEF coordVars
<1> QED
  BY <1>1, <1>2, <1>3 DEF Next, ClaimLapse, vars

LEMMA VerdictSteps ==
  ASSUME TypeInv, [Next]_vars, NEW a \in AttemptId, review'[a] = "SIDE_EFFECT_CONFIRMED",
         review[a] # "SIDE_EFFECT_CONFIRMED"
  PROVE  \E c \in Coords : cpc[c] = "resolve" /\ catt[c] = a /\ cobs[c] = "SIDE_EFFECT_CONFIRMED"
<1>t. review \in [AttemptId -> Review]
  BY DEF TypeInv, TypeOK
<1>1. CASE \E c \in Coords : Open(c) \/ Resolve(c)
  BY <1>t, <1>1 DEF Open, Resolve
<1>2. ASSUME NEW c \in Coords, ~(Open(c) \/ Resolve(c)), CoordStep(c) \/ Restart(c) \/ CoordCrash(c)
      PROVE  UNCHANGED review
  BY <1>2 DEF CoordStep, Scan, Take, Verify, Settle, Terminalize, Claim, Reauthorize, MarkCheck,
     MarkAuthorized, ReadOriginal, CloseOriginal, FindRetry, CreateRetry, MarkCreated, Restart, CoordCrash,
     reviewVars
<1> QED
  BY <1>1, <1>2 DEF Next, ClaimLapse, vars, reviewVars

\* A coordinator that is about to record that the side effect is there has a row
\* in hand, and every step towards that verdict starts from a real side effect.
LEMMA ConfirmedNext ==
  ASSUME TypeInv, [Next]_vars, RowsKept, UNCHANGED Table \/ Moved \/ First \/ Retried,
         NEW i \in BaseGrants, Confirmed(i)', ~Confirmed(i)
  PROVE  effects[i] > 0
<1>t. AttemptsOK
  BY DEF TypeInv, TypeOK, GateTypeOK, AttemptsOK
<1>o. \A c \in Coords : cpc[c] \notin {"idle", "loop", "raised"} => catt[c] \in Rows
  BY DEF TypeInv, OnRows
<1>r. \A a \in Rows : aintent'[a] = aintent[a]
  BY DEF RowsKept
<1>1. ASSUME NEW a \in Rows', aintent'[a] = i, ast'[a] = "RECOVERED"
      PROVE  FALSE
  <2>1. a \in Rows /\ (ast[a] = "RECOVERED" \/ review[a] = "SIDE_EFFECT_CONFIRMED")
    BY <1>t, <1>1 DEF Table, Moved, First, Retried, transition, InsertAttempt, AttemptsOK, Rows, CanMove, Allowed
  <2>2. aintent[a] = i
    BY <1>r, <1>1, <2>1
  <2> QED
    BY <2>1, <2>2 DEF Confirmed
<1>2. ASSUME NEW a \in Rows', aintent'[a] = i, review'[a] = "SIDE_EFFECT_CONFIRMED"
      PROVE  FALSE
  <2>1. CASE review[a] = "SIDE_EFFECT_CONFIRMED"
    <3>1. a \in Rows
      BY <2>1 DEF TypeInv, OnRows, Rows
    <3> QED
      BY <1>r, <1>2, <2>1, <3>1 DEF Confirmed
  <2>2. CASE review[a] # "SIDE_EFFECT_CONFIRMED"
    <3>1. PICK c \in Coords : cpc[c] = "resolve" /\ catt[c] = a /\ cobs[c] = "SIDE_EFFECT_CONFIRMED"
      BY <1>2, <2>2, VerdictSteps DEF Rows
    <3>2. aintent[catt[c]] = i
      BY <1>o, <1>r, <1>2, <3>1
    <3> QED
      BY <3>1, <3>2 DEF Confirmed
  <2> QED
    BY <2>1, <2>2
<1>3. ASSUME NEW c \in Coords, cpc'[c] = "resolve", aintent'[catt'[c]] = i,
             cobs'[c] = "SIDE_EFFECT_CONFIRMED"
      PROVE  effects[i] > 0
  <2>1. CASE Verify(c)
    <3>1. catt[c] \in Rows /\ catt'[c] = catt[c]
      BY <1>o, <1>3, <2>1 DEF Verify, Raise, Goto, TypeInv, TypeOK
    <3>2. aintent[catt[c]] = i
      BY <1>r, <1>3, <3>1
    <3>3. "SIDE_EFFECT_CONFIRMED" \in Verdicts(aintent[catt[c]])
      BY <1>3, <2>1 DEF Verify, Raise, Goto, TypeInv, TypeOK
    <3> QED
      BY <3>2, <3>3 DEF Verdicts
  <2>2. CASE cpc[c] = "resolve" /\ catt'[c] = catt[c] /\ cobs'[c] = cobs[c]
    <3>1. aintent[catt[c]] = i
      BY <1>o, <1>r, <1>3, <2>2
    <3> QED
      BY <1>3, <2>2, <3>1 DEF Confirmed
  <2> QED
    BY <1>3, <2>1, <2>2, ResolveSteps
<1> QED
  BY <1>1, <1>2, <1>3 DEF Confirmed

LEMMA RealNext == TypeInv /\ RealInv /\ [Next]_vars => RealInv'
<1> SUFFICES ASSUME TypeInv, RealInv, [Next]_vars, NEW i \in BaseGrants, Confirmed(i)'
             PROVE  effects'[i] > 0
  BY DEF RealInv
<1>1. UNCHANGED Table \/ Moved \/ First \/ Retried
  BY TableSteps
<1>2. RowsKept
  BY <1>1, RowsStay
<1>3. effects[i] > 0
  BY <1>1, <1>2, ConfirmedNext DEF RealInv
<1> QED
  BY <1>3, EffectsGrow

\* A recovery closes an attempt as RECOVERED only for a side effect that is
\* really there, however late the handler it gave up on is, whoever else reviews
\* the attempt, and wherever a coordinator was killed in between.
THEOREM RecoveriesAreReal == Spec => []RecoveredIsReal
<1>1. Spec => [](TypeInv /\ RealInv)
  BY TypeInit, TypeNext, RealInit, RealNext, PTL DEF Spec
<1>2. TypeInv /\ RealInv => RecoveredIsReal
  BY DEF TypeInv, TypeOK, GateTypeOK, RealInv, Confirmed, RecoveredIsReal, Rows
<1> QED
  BY <1>1, <1>2, PTL
=============================================================================
