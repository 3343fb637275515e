------------------------------ MODULE Recovery ------------------------------
(***************************************************************************)
(* Recovery of executions that were interrupted: the coordinator           *)
(* (shared/execution_recovery_coordinator.py) over the review and          *)
(* operation tables (execution_recovery.py), beside the gate and its       *)
(* executors (module ExecutionGate).  A coordinator is stateless between   *)
(* passes, so a killed one starts a new pass.                              *)
(*                                                                         *)
(* One action is one transaction of recover_stale_running / retry_if_safe. *)
(* Raising ends the whole pass; "raised" is the state in which it has.     *)
(***************************************************************************)
EXTENDS ExecutionGate

CONSTANTS Coords,      \* coordinator processes
          MaxClaims    \* bound: claims of one retry operation

ASSUME RecoveryAssumption == MaxClaims \in Nat

VARIABLES
  review,    \* decision column of execution_recovery_reviews
  op,        \* state column of execution_recovery_operations
  otoken,    \* claim_token: 0 is NULL, claims are numbered
  olapsed,   \* the claim's lease has passed
  oretry,    \* retry_attempt_id
  claims,    \* tokens handed out so far
  cpc, ccand, catt, cobs, ctok, cnum, cnew   \* a coordinator's locals

reviewVars == <<review, op, otoken, olapsed, oretry, claims>>
coordVars  == <<cpc, ccand, catt, cobs, ctok, cnum, cnew>>
vars == <<gateVars, reviewVars, coordVars>>

Verdict  == {"SIDE_EFFECT_CONFIRMED", "SAFE_TO_RETRY", "QUARANTINED"}
Review   == {"none", "UNKNOWN"} \cup Verdict
OpState  == {"none", "CLAIMED", "AUTHORIZED", "CREATED"}
CoordPC  == {"idle", "loop", "taken", "verify", "resolve", "decided", "settling",
             "claimed", "mark", "marking", "close", "closing", "find", "creating",
             "created", "raised"}

\* Type correctness of the gate's tables, the reviews, the retry operations and
\* the coordinators.
TypeOK ==
  /\ GateTypeOK
  /\ review \in [AttemptId -> Review]
  /\ op \in [AttemptId -> OpState]
  /\ otoken \in [AttemptId -> Nat] /\ olapsed \in [AttemptId -> BOOLEAN]
  /\ oretry \in [AttemptId -> AttemptId \cup {NoAttempt}]
  /\ claims \in [AttemptId -> Nat]
  /\ cpc \in [Coords -> CoordPC]
  /\ ccand \in [Coords -> SUBSET AttemptId]
  /\ catt \in [Coords -> AttemptId \cup {NoAttempt}]
  /\ cobs \in [Coords -> Review]
  /\ ctok \in [Coords -> Nat] /\ cnum \in [Coords -> Nat]
  /\ cnew \in [Coords -> AttemptId \cup {NoAttempt}]

Init ==
  /\ GateInit
  /\ review = [a \in AttemptId |-> "none"]
  /\ op = [a \in AttemptId |-> "none"]
  /\ otoken = [a \in AttemptId |-> 0]
  /\ olapsed = [a \in AttemptId |-> FALSE]
  /\ oretry = [a \in AttemptId |-> NoAttempt]
  /\ claims = [a \in AttemptId |-> 0]
  /\ cpc = [c \in Coords |-> "idle"]
  /\ ccand = [c \in Coords |-> {}]
  /\ catt = [c \in Coords |-> NoAttempt]
  /\ cobs = [c \in Coords |-> "none"]
  /\ ctok = [c \in Coords |-> 0]
  /\ cnum = [c \in Coords |-> 0]
  /\ cnew = [c \in Coords |-> NoAttempt]

locals == <<catt, cobs, ctok, cnum, cnew>>

\* To the next statement; to the next candidate; or out of the pass.
Goto(c, l) == cpc' = [cpc EXCEPT ![c] = l] /\ UNCHANGED ccand
Forget(c) == /\ catt' = [catt EXCEPT ![c] = NoAttempt]
             /\ cobs' = [cobs EXCEPT ![c] = "none"]
             /\ ctok' = [ctok EXCEPT ![c] = 0]
             /\ cnum' = [cnum EXCEPT ![c] = 0]
             /\ cnew' = [cnew EXCEPT ![c] = NoAttempt]
Proceed(c, l) == Goto(c, l) /\ UNCHANGED locals
Skip(c) == Goto(c, "loop") /\ Forget(c)
Raise(c) == /\ cpc' = [cpc EXCEPT ![c] = "raised"]
            /\ ccand' = [ccand EXCEPT ![c] = {}]
            /\ Forget(c)

-----------------------------------------------------------------------------
(* One pass of recover_stale_running *)

\* find_stale_running: a read-only snapshot.
StaleRunning == {a \in AttemptId : ast[a] = "RUNNING" /\ lapsed[a] /\ ~receipt[a]}

Scan(c) ==
  /\ cpc[c] = "idle" /\ StaleRunning # {}
  /\ ccand' = [ccand EXCEPT ![c] = StaleRunning]
  /\ cpc' = [cpc EXCEPT ![c] = "loop"]
  /\ UNCHANGED <<gateVars, reviewVars, locals>>

\* The next candidate of the snapshot, or the end of the pass.
Take(c) ==
  /\ cpc[c] = "loop"
  /\ \/ ccand[c] = {} /\ Proceed(c, "idle")
     \/ \E a \in ccand[c] :
          /\ catt' = [catt EXCEPT ![c] = a]
          /\ ccand' = [ccand EXCEPT ![c] = @ \ {a}]
          /\ cpc' = [cpc EXCEPT ![c] = "taken"]
          /\ UNCHANGED <<cobs, ctok, cnum, cnew>>
  /\ UNCHANGED <<gateVars, reviewVars>>

\* review(): open() refuses an attempt that is not RUNNING any more, and the
\* pass then skips the candidate; a resolved review is used as it is.
Open(c) ==
  /\ cpc[c] = "taken"
  /\ \/ /\ review[catt[c]] \in Verdict
        /\ Proceed(c, "decided")
        /\ UNCHANGED review
     \/ /\ review[catt[c]] \notin Verdict /\ ast[catt[c]] = "RUNNING" /\ ~receipt[catt[c]]
        /\ review' = [review EXCEPT ![catt[c]] = "UNKNOWN"]
        /\ Proceed(c, "verify")
     \/ /\ review[catt[c]] \notin Verdict /\ ast[catt[c]] # "RUNNING"
        /\ Skip(c)
        /\ UNCHANGED review
  /\ UNCHANGED <<gateVars, op, otoken, olapsed, oretry, claims>>

\* The independent verifiers read the outside world, or raise.
Verdicts(i) == {"QUARANTINED"} \cup
               IF effects[i] > 0 THEN {"SIDE_EFFECT_CONFIRMED"} ELSE {"SAFE_TO_RETRY"}

Verify(c) ==
  /\ cpc[c] = "verify"
  /\ \/ /\ \E v \in Verdicts(aintent[catt[c]]) : cobs' = [cobs EXCEPT ![c] = v]
        /\ Goto(c, "resolve")
        /\ UNCHANGED <<catt, ctok, cnum, cnew>>
     \/ Raise(c)
  /\ UNCHANGED <<gateVars, reviewVars>>

\* The handler of an ExecutionRecoveryError: a candidate that is not RUNNING
\* any more is skipped, otherwise the error goes on.
SkipOrRaise(c) == \/ ast[catt[c]] # "RUNNING" /\ Skip(c)
                  \/ ast[catt[c]] = "RUNNING" /\ Raise(c)

\* resolve(): only an UNKNOWN review takes a decision.
Resolve(c) ==
  /\ cpc[c] = "resolve"
  /\ \/ /\ review[catt[c]] = "UNKNOWN"
        /\ review' = [review EXCEPT ![catt[c]] = cobs[c]]
        /\ Proceed(c, "decided")
     \/ /\ review[catt[c]] # "UNKNOWN"
        /\ SkipOrRaise(c)
        /\ UNCHANGED review
  /\ UNCHANGED <<gateVars, op, otoken, olapsed, oretry, claims>>

\* The two closing states swapped.
SeededClosing(v) == IF v = "QUARANTINED" THEN "RECOVERED" ELSE "ABORTED"

\* Which terminal state a decision without a retry gives the attempt.
Closing(v) == IF v = "SIDE_EFFECT_CONFIRMED" THEN "RECOVERED" ELSE "ABORTED"

\* The attempt is closed if it is still RUNNING, ...
Settle(c) ==
  /\ cpc[c] = "decided" /\ review[catt[c]] # "SAFE_TO_RETRY"
  /\ \/ ast[catt[c]] = "RUNNING" /\ Proceed(c, "settling")
     \/ ast[catt[c]] # "RUNNING" /\ Skip(c)
  /\ UNCHANGED <<gateVars, reviewVars>>

\* ... and when it has stopped RUNNING in between, the pass ends in an error.
Terminalize(c) ==
  /\ cpc[c] = "settling"
  /\ LET n == Closing(review[catt[c]]) IN
     \/ CanMove(catt[c], n) /\ transition(catt[c], n, FALSE) /\ Skip(c)
     \/ ~CanMove(catt[c], n) /\ Raise(c) /\ UNCHANGED attemptVars
  /\ UNCHANGED <<grantVars, execVars, effects, crashes, reviewVars>>

-----------------------------------------------------------------------------
(* The retry of an execution that was found safe to retry *)

\* claim_retry.  The row is read back after the commit, so a coordinator that
\* acquired nothing still holds the token of the one that did; it goes on when
\* the retry grant is already in the grant store.
Claim(c) ==
  /\ cpc[c] = "decided" /\ review[catt[c]] = "SAFE_TO_RETRY"
  /\ LET a == catt[c] IN
     \/ /\ op[a] = "none" \/ (op[a] = "CLAIMED" /\ olapsed[a])
        /\ claims[a] < MaxClaims
        /\ op' = [op EXCEPT ![a] = "CLAIMED"]
        /\ claims' = [claims EXCEPT ![a] = @ + 1]
        /\ otoken' = [otoken EXCEPT ![a] = claims[a] + 1]
        /\ olapsed' = [olapsed EXCEPT ![a] = FALSE]
        /\ ctok' = [ctok EXCEPT ![c] = claims[a] + 1]
        /\ Goto(c, "claimed") /\ UNCHANGED <<catt, cobs, cnum, cnew>>
     \/ /\ op[a] = "CLAIMED" /\ ~olapsed[a]
        /\ \/ /\ gstat[a] # "none"
              /\ ctok' = [ctok EXCEPT ![c] = otoken[a]]
              /\ Goto(c, "mark") /\ UNCHANGED <<catt, cobs, cnum, cnew>>
           \/ gstat[a] = "none" /\ Raise(c)
        /\ UNCHANGED <<op, claims, otoken, olapsed>>
     \/ /\ \/ op[a] = "AUTHORIZED" /\ Proceed(c, "close")
           \/ op[a] = "CREATED" /\ Skip(c)
        /\ UNCHANGED <<op, claims, otoken, olapsed>>
  /\ UNCHANGED <<gateVars, review, oretry>>

\* _reauthorize_retry: a fresh grant with the operation's grant id goes through
\* the gate's authorize, which registers it; any refusal ends the pass.
Reauthorize(c) ==
  /\ cpc[c] = "claimed"
  /\ \/ /\ gstat[catt[c]] \in {"none", "ACTIVE"}
        /\ Register(catt[c])
        /\ Proceed(c, "mark") \/ Raise(c)
     \/ Raise(c) /\ UNCHANGED gstat
  /\ UNCHANGED <<nonces, valid, offered, runs, revoked, attemptVars, execVars, effects,
                 crashes, reviewVars>>

HoldsClaim(c) == /\ op[catt[c]] = "CLAIMED" /\ otoken[catt[c]] = ctok[c]
                 /\ ~olapsed[catt[c]]

\* update_retry_operation(AUTHORIZED): the token and its lease are checked on
\* the row that was read, ...
MarkCheck(c) ==
  /\ cpc[c] = "mark"
  /\ \/ HoldsClaim(c) /\ Proceed(c, "marking")
     \/ op[catt[c]] = "AUTHORIZED" /\ Proceed(c, "close")
     \/ ~HoldsClaim(c) /\ op[catt[c]] # "AUTHORIZED" /\ SkipOrRaise(c)
  /\ UNCHANGED <<gateVars, reviewVars>>

\* ... and the UPDATE that follows looks at the state only, not at the token.
MarkAuthorized(c) ==
  /\ cpc[c] = "marking"
  /\ \/ /\ op[catt[c]] = "CLAIMED"
        /\ op' = [op EXCEPT ![catt[c]] = "AUTHORIZED"]
        /\ otoken' = [otoken EXCEPT ![catt[c]] = 0]
        /\ olapsed' = [olapsed EXCEPT ![catt[c]] = FALSE]
        /\ Proceed(c, "close")
     \/ /\ op[catt[c]] # "CLAIMED"
        /\ SkipOrRaise(c)
        /\ UNCHANGED <<op, otoken, olapsed>>
  /\ UNCHANGED <<gateVars, review, oretry, claims>>

\* "elif current.state != ABORTED: raise" dropped.
SeededClosed(s) == s # "RUNNING"

\* The states of the original attempt in which the retry may go on.
Closed(s) == s = "ABORTED"

ReadOriginal(c) ==
  /\ cpc[c] = "close"
  /\ LET st == ast[catt[c]] IN
     \/ st = "RUNNING" /\ Proceed(c, "closing")
     \/ st # "RUNNING" /\ Closed(st) /\ Proceed(c, "find")
     \/ st # "RUNNING" /\ ~Closed(st) /\ Raise(c)
  /\ UNCHANGED <<gateVars, reviewVars>>

CloseOriginal(c) ==
  /\ cpc[c] = "closing"
  /\ \/ /\ CanMove(catt[c], "ABORTED")
        /\ transition(catt[c], "ABORTED", FALSE)
        /\ Proceed(c, "find")
     \/ ~CanMove(catt[c], "ABORTED") /\ Raise(c) /\ UNCHANGED attemptVars
  /\ UNCHANGED <<grantVars, execVars, effects, crashes, reviewVars>>

\* find_by_grant_id
RetriesOf(a) == {b \in AttemptId : ast[b] # "none" /\ agrant[b] = a}

\* An existing retry, or else the SELECT of create(retry=True), which refuses
\* while the latest attempt of the key is not terminal.
FindRetry(c) ==
  /\ cpc[c] = "find"
  /\ \/ \E b \in RetriesOf(catt[c]) :
          /\ cnew' = [cnew EXCEPT ![c] = b]
          /\ Goto(c, "created") /\ UNCHANGED <<catt, cobs, ctok, cnum>>
     \/ /\ RetriesOf(catt[c]) = {}
        /\ \E b \in AttemptId :
             /\ IsLatest(b, akey[catt[c]])
             /\ \/ /\ ast[b] \in Terminal
                   /\ cnum' = [cnum EXCEPT ![c] = anum[b] + 1]
                   /\ Goto(c, "creating") /\ UNCHANGED <<catt, cobs, ctok, cnew>>
                \/ ast[b] \notin Terminal /\ Raise(c)
  /\ UNCHANGED <<gateVars, reviewVars>>

\* The INSERT, which the unique index may refuse.
CreateRetry(c) ==
  /\ cpc[c] = "creating"
  /\ LET a == catt[c] IN
     \/ /\ NumberTaken(akey[a], cnum[c])
        /\ Raise(c)
        /\ UNCHANGED attemptVars
     \/ /\ ~NumberTaken(akey[a], cnum[c])
        /\ \E b \in AttemptId :
             /\ InsertAttempt(b, akey[a], cnum[c], a, aintent[a])
             /\ cnew' = [cnew EXCEPT ![c] = b]
        /\ Goto(c, "created") /\ UNCHANGED <<catt, cobs, ctok, cnum>>
  /\ UNCHANGED <<grantVars, execVars, effects, crashes, reviewVars>>

\* update_retry_operation(CREATED); the caller gets the attempt and its grant.
MarkCreated(c) ==
  /\ cpc[c] = "created"
  /\ LET a == catt[c] IN
     \/ /\ op[a] = "AUTHORIZED" \/ (op[a] = "CREATED" /\ oretry[a] = cnew[c])
        /\ op' = [op EXCEPT ![a] = "CREATED"]
        /\ oretry' = [oretry EXCEPT ![a] = cnew[c]]
        /\ offered' = offered \cup {a}
        /\ Skip(c)
     \/ /\ op[a] = "CREATED" /\ oretry[a] # cnew[c]
        /\ SkipOrRaise(c)
        /\ UNCHANGED <<op, oretry, offered>>
  /\ UNCHANGED <<gstat, nonces, valid, runs, revoked, attemptVars, execVars, effects,
                 crashes, review, otoken, olapsed, claims>>

CoordStep(c) ==
  \/ Scan(c) \/ Take(c) \/ Open(c) \/ Verify(c) \/ Resolve(c)
  \/ Settle(c) \/ Terminalize(c)
  \/ Claim(c) \/ Reauthorize(c) \/ MarkCheck(c) \/ MarkAuthorized(c)
  \/ ReadOriginal(c) \/ CloseOriginal(c) \/ FindRetry(c) \/ CreateRetry(c) \/ MarkCreated(c)

\* The caller of a pass that raised starts another one some time.
Restart(c) ==
  /\ cpc[c] = "raised"
  /\ Proceed(c, "idle")
  /\ UNCHANGED <<gateVars, reviewVars>>

CoordCrash(c) ==
  /\ crashes < MaxCrashes /\ cpc[c] \notin {"idle", "raised"}
  /\ crashes' = crashes + 1
  /\ cpc' = [cpc EXCEPT ![c] = "idle"]
  /\ ccand' = [ccand EXCEPT ![c] = {}]
  /\ Forget(c)
  /\ UNCHANGED <<grantVars, attemptVars, execVars, effects, reviewVars>>

\* The sixty seconds of a claim pass.
ClaimLapse(a) ==
  /\ op[a] = "CLAIMED" /\ ~olapsed[a] /\ claims[a] < MaxClaims
  /\ olapsed' = [olapsed EXCEPT ![a] = TRUE]
  /\ UNCHANGED <<gateVars, review, op, otoken, oretry, claims, coordVars>>

Next ==
  \/ GateNext /\ UNCHANGED <<reviewVars, coordVars>>
  \/ \E c \in Coords : CoordStep(c) \/ Restart(c) \/ CoordCrash(c)
  \/ \E a \in AttemptId : ClaimLapse(a)

Spec == Init /\ [][Next]_vars

-----------------------------------------------------------------------------
(* Properties *)

\* A grant in any number of hands is spent once or revoked, and its handler is
\* entered at most once and only after it was spent: a revoke() that returned
\* True guarantees that nothing was and nothing will be executed.
Phase(g) == CASE g \in revoked -> "revoked"
              [] g \notin revoked /\ gstat[g] = "CONSUMED" -> "spent"
              [] OTHER -> "open"

Abstract == INSTANCE OneTimeGrant WITH phase <- [g \in Grant |-> Phase(g)], uses <- runs
ImplementsOneTimeGrant == Abstract!Spec

\* An attempt is followed by another one of its idempotency key only when a
\* review found the retry safe, the attempt was closed without a receipt, and
\* the retry runs under a grant of its own.
RetryIsReviewed ==
  \A a, b \in AttemptId :
    /\ ast[a] # "none" /\ ast[b] # "none"
    /\ akey[a] = akey[b] /\ anum[b] = anum[a] + 1
    => /\ review[a] = "SAFE_TO_RETRY"
       /\ ast[a] = "ABORTED" /\ ~receipt[a]
       /\ agrant[b] = a

\* However many coordinators race, a key has one attempt that is not terminal.
OneActivePerKey ==
  \A a, b \in AttemptId :
    /\ akey[a] = akey[b]
    /\ ast[a] \notin Terminal \cup {"none"} /\ ast[b] \notin Terminal \cup {"none"}
    => a = b

\* An attempt is closed as RECOVERED only when its side effect is really there.
RecoveredIsReal ==
  \A a \in AttemptId : ast[a] = "RECOVERED" => effects[aintent[a]] > 0
=============================================================================
