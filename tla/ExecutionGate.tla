---------------------------- MODULE ExecutionGate ----------------------------
(***************************************************************************)
(* The execution boundary: shared/execution_gate.py over the grant store   *)
(* (capability_grant_store.py) and the attempt store (execution_attempt.py)*)
(* of one SQLite database.  Several executor processes may hold the same   *)
(* signed grant (a handoff that was claimed twice).                        *)
(*                                                                         *)
(* One action is one transaction of ExecutionGate.execute; a process may   *)
(* be killed between any two.  transition() reads the row and updates it   *)
(* WHERE state is still what it read, so it is one atomic step that        *)
(* succeeds or raises.                                                     *)
(*                                                                         *)
(* A grant is identified with its nonce, which is also the idempotency key *)
(* of the attempt the gate makes for it.  The grant that a recovery issues *)
(* for the retry of attempt a has an id derived from a, and is a itself.   *)
(***************************************************************************)
EXTENDS Naturals, FiniteSets

CONSTANTS BaseGrants,    \* grants issued for validated execution requests
          Execs,         \* executor processes
          MaxAttempts,   \* bound: rows of execution_attempts
          MaxCrashes     \* bound: killed processes

AttemptId == 1..MaxAttempts
NoAttempt == 0
Grant == BaseGrants \cup AttemptId

ASSUME GateAssumption ==
  /\ MaxAttempts \in Nat /\ MaxCrashes \in Nat
  /\ BaseGrants \cap (AttemptId \cup {NoAttempt}) = {}
  /\ BaseGrants # {}

VARIABLES
  gstat,     \* status column of capability_grants
  nonces,    \* rows of capability_grant_consumptions
  valid,     \* grants that neither expiry nor an authority change has voided
  offered,   \* signed grants an executor process may be handed
  ast,       \* state column of execution_attempts
  akey,      \* idempotency_key
  anum,      \* attempt_number
  agrant,    \* grant_id
  aintent,   \* intent_hash
  receipt,   \* receipt_id is set
  lapsed,    \* lease_expires_at has passed (of an attempt not terminal yet)
  epc, egrant, eatt,   \* an executor: program point, grant, attempt
  runs,      \* history: how often a grant's handler was entered
  revoked,   \* history: grants whose revoke() returned True
  effects,   \* the outside world: how often an intent's side effect happened
  crashes    \* bound

grantVars   == <<gstat, nonces, valid, offered, runs, revoked>>
attemptVars == <<ast, akey, anum, agrant, aintent, receipt, lapsed>>
execVars    == <<epc, egrant, eatt>>
gateVars    == <<grantVars, attemptVars, execVars, effects, crashes>>

GrantStatus  == {"none", "ACTIVE", "CONSUMED", "REVOKED"}
Terminal     == {"SUCCEEDED", "RECOVERED", "FAILED", "TIMED_OUT", "ABORTED"}
AttemptState == {"none", "AUTHORIZED", "LEASED", "RUNNING"} \cup Terminal
ExecPC == {"idle", "authorized", "creating", "created", "leased", "refused",
           "consumed", "nonced", "invoked", "acted"}

\* Type correctness of the grant, nonce and attempt tables and of the executors.
GateTypeOK ==
  /\ gstat \in [Grant -> GrantStatus]
  /\ nonces \subseteq Grant /\ valid \subseteq Grant /\ offered \subseteq Grant
  /\ ast \in [AttemptId -> AttemptState]
  /\ akey \in [AttemptId -> Grant] /\ agrant \in [AttemptId -> Grant]
  /\ aintent \in [AttemptId -> BaseGrants]
  /\ anum \in [AttemptId -> Nat]
  /\ receipt \in [AttemptId -> BOOLEAN] /\ lapsed \in [AttemptId -> BOOLEAN]
  /\ epc \in [Execs -> ExecPC]
  /\ egrant \in [Execs -> Grant]
  /\ eatt \in [Execs -> AttemptId \cup {NoAttempt}]
  /\ runs \in [Grant -> Nat] /\ revoked \subseteq Grant
  /\ effects \in [BaseGrants -> Nat]
  /\ crashes \in Nat

AnyBase == CHOOSE g \in BaseGrants : TRUE

GateInit ==
  /\ gstat = [g \in Grant |-> "none"]
  /\ nonces = {} /\ valid = Grant /\ offered = BaseGrants
  /\ ast = [a \in AttemptId |-> "none"]
  /\ akey = [a \in AttemptId |-> AnyBase]
  /\ agrant = [a \in AttemptId |-> AnyBase]
  /\ aintent = [a \in AttemptId |-> AnyBase]
  /\ anum = [a \in AttemptId |-> 0]
  /\ receipt = [a \in AttemptId |-> FALSE]
  /\ lapsed = [a \in AttemptId |-> FALSE]
  /\ epc = [p \in Execs |-> "idle"]
  /\ egrant = [p \in Execs |-> AnyBase]
  /\ eatt = [p \in Execs |-> NoAttempt]
  /\ runs = [g \in Grant |-> 0] /\ revoked = {}
  /\ effects = [i \in BaseGrants |-> 0]
  /\ crashes = 0

-----------------------------------------------------------------------------
(* ExecutionAttemptStore *)

Allowed(s, n) ==
  \/ s = "AUTHORIZED" /\ n \in {"LEASED", "ABORTED"}
  \/ s = "LEASED" /\ n \in {"RUNNING", "TIMED_OUT", "ABORTED"}
  \/ s = "RUNNING" /\ n \in Terminal

CanMove(a, n) == Allowed(ast[a], n)

\* transition() of a row whose state allows it.
transition(a, n, rc) ==
  /\ ast' = [ast EXCEPT ![a] = n]
  /\ receipt' = [receipt EXCEPT ![a] = @ \/ rc]
  /\ lapsed' = [lapsed EXCEPT ![a] = @ /\ n \notin Terminal]
  /\ UNCHANGED <<akey, anum, agrant, aintent>>

WithKey(k) == {a \in AttemptId : ast[a] # "none" /\ akey[a] = k}

\* find_by_idempotency_key: the row with the highest attempt_number.
IsLatest(a, k) == a \in WithKey(k) /\ \A b \in WithKey(k) : anum[b] <= anum[a]

\* The unique index dropped.
SeededNumberTaken(k, n) == FALSE

\* The unique index on (idempotency_key, attempt_number).
NumberTaken(k, n) == \E a \in WithKey(k) : anum[a] = n

\* The INSERT of create(); rows get their ids in the order of insertion.
InsertAttempt(a, k, n, g, i) ==
  /\ ast[a] = "none" /\ \A b \in AttemptId : b < a => ast[b] # "none"
  /\ ast' = [ast EXCEPT ![a] = "AUTHORIZED"]
  /\ akey' = [akey EXCEPT ![a] = k]
  /\ anum' = [anum EXCEPT ![a] = n]
  /\ agrant' = [agrant EXCEPT ![a] = g]
  /\ aintent' = [aintent EXCEPT ![a] = i]
  /\ UNCHANGED <<receipt, lapsed>>

-----------------------------------------------------------------------------
(* ExecutionGate.execute, one transaction after the other *)

IntentOf(g) == IF g \in BaseGrants THEN g ELSE aintent[g]

\* To the next statement, or out of execute with its locals gone.
Step(p, l) == /\ epc' = [epc EXCEPT ![p] = l]
              /\ UNCHANGED <<egrant, eatt>>
Leave(p) == /\ epc' = [epc EXCEPT ![p] = "idle"]
            /\ egrant' = [egrant EXCEPT ![p] = AnyBase]
            /\ eatt' = [eatt EXCEPT ![p] = NoAttempt]

\* ensure_registered: the row is inserted unless it is there.
Register(g) == gstat' = [gstat EXCEPT ![g] = "ACTIVE"]

\* authorize.  Authority is checked before the grant is registered, expiry and
\* binding after: a voided grant is refused with or without a new row.
Authorize(p) ==
  /\ epc[p] = "idle"
  /\ \E g \in offered :
       /\ gstat[g] \in {"none", "ACTIVE"}
       /\ Register(g)
       /\ \/ /\ g \in valid
             /\ epc' = [epc EXCEPT ![p] = "authorized"]
             /\ egrant' = [egrant EXCEPT ![p] = g]
          \/ /\ g \notin valid
             /\ UNCHANGED <<epc, egrant>>
  /\ UNCHANGED <<nonces, valid, offered, runs, revoked, attemptVars, eatt, effects, crashes>>

\* create(retry=False), the SELECT: any earlier attempt of the key refuses.
CreateRead(p) ==
  /\ epc[p] = "authorized"
  /\ \/ WithKey(egrant[p]) = {} /\ Step(p, "creating")
     \/ WithKey(egrant[p]) # {} /\ Leave(p)
  /\ UNCHANGED <<grantVars, attemptVars, effects, crashes>>

\* create(), the INSERT of attempt 1: the unique index refuses a second one.
CreateInsert(p) ==
  /\ epc[p] = "creating"
  /\ \/ /\ NumberTaken(egrant[p], 1)
        /\ Leave(p)
        /\ UNCHANGED attemptVars
     \/ /\ ~NumberTaken(egrant[p], 1)
        /\ \E a \in AttemptId :
             /\ InsertAttempt(a, egrant[p], 1, egrant[p], IntentOf(egrant[p]))
             /\ eatt' = [eatt EXCEPT ![p] = a]
        /\ epc' = [epc EXCEPT ![p] = "created"]
        /\ UNCHANGED egrant
  /\ UNCHANGED <<grantVars, effects, crashes>>

Lease(p) ==
  /\ epc[p] = "created" /\ CanMove(eatt[p], "LEASED")
  /\ transition(eatt[p], "LEASED", FALSE)
  /\ Step(p, "leased")
  /\ UNCHANGED <<grantVars, effects, crashes>>

\* AND status='ACTIVE' weakened to status <> 'CONSUMED'.
SeededStillActive(g) == gstat[g] # "CONSUMED"

\* The WHERE clause of consume() and of revoke().
StillActive(g) == gstat[g] = "ACTIVE"

Consume(p) ==
  /\ epc[p] = "leased"
  /\ \/ /\ StillActive(egrant[p])
        /\ gstat' = [gstat EXCEPT ![egrant[p]] = "CONSUMED"]
        /\ Step(p, "consumed")
     \/ /\ ~StillActive(egrant[p])
        /\ Step(p, "refused")
        /\ UNCHANGED gstat
  /\ UNCHANGED <<nonces, valid, offered, runs, revoked, attemptVars, effects, crashes>>

\* The attempt of a refused grant is closed, unless its lease was expired first.
AbortRefused(p) ==
  /\ epc[p] = "refused"
  /\ \/ CanMove(eatt[p], "ABORTED") /\ transition(eatt[p], "ABORTED", FALSE)
     \/ ~CanMove(eatt[p], "ABORTED") /\ UNCHANGED attemptVars
  /\ Leave(p)
  /\ UNCHANGED <<grantVars, effects, crashes>>

\* _consume_nonce.  The primary key would refuse a nonce that is there; no
\* process gets here with one, because consume() let only one through.
ConsumeNonce(p) ==
  /\ epc[p] = "consumed" /\ egrant[p] \notin nonces
  /\ nonces' = nonces \cup {egrant[p]}
  /\ Step(p, "nonced")
  /\ UNCHANGED <<gstat, valid, offered, runs, revoked, attemptVars, effects, crashes>>

\* The attempt becomes RUNNING and the handler is entered; an expired lease
\* refuses, with the grant spent.
Start(p) ==
  /\ epc[p] = "nonced"
  /\ \/ /\ CanMove(eatt[p], "RUNNING")
        /\ transition(eatt[p], "RUNNING", FALSE)
        /\ runs' = [runs EXCEPT ![egrant[p]] = @ + 1]
        /\ Step(p, "invoked")
     \/ /\ ~CanMove(eatt[p], "RUNNING")
        /\ Leave(p)
        /\ UNCHANGED <<attemptVars, runs>>
  /\ UNCHANGED <<gstat, nonces, valid, offered, revoked, effects, crashes>>

\* The handler's side effect, however late the handler is.
Act(p) ==
  /\ epc[p] = "invoked"
  /\ effects' = [effects EXCEPT ![IntentOf(egrant[p])] = @ + 1]
  /\ Step(p, "acted")
  /\ UNCHANGED <<grantVars, attemptVars, crashes>>

\* The handler returned or raised, and its receipt is recorded, unless a
\* recovery has closed the attempt: transition() then raises and it is lost.
Finalize(p) ==
  /\ epc[p] \in {"invoked", "acted"}
  /\ \E n \in {"SUCCEEDED", "FAILED"} :
       /\ n = "SUCCEEDED" => epc[p] = "acted"
       /\ \/ CanMove(eatt[p], n) /\ transition(eatt[p], n, TRUE)
          \/ ~CanMove(eatt[p], n) /\ UNCHANGED attemptVars
  /\ Leave(p)
  /\ UNCHANGED <<grantVars, effects, crashes>>

ExecStep(p) ==
  \/ Authorize(p) \/ CreateRead(p) \/ CreateInsert(p) \/ Lease(p)
  \/ Consume(p) \/ AbortRefused(p) \/ ConsumeNonce(p)
  \/ Start(p) \/ Act(p) \/ Finalize(p)

ExecCrash(p) ==
  /\ crashes < MaxCrashes /\ epc[p] # "idle"
  /\ crashes' = crashes + 1
  /\ Leave(p)
  /\ UNCHANGED <<grantVars, attemptVars, effects>>

-----------------------------------------------------------------------------
(* Governance, the lease sweep and time *)

revoke(g) ==
  /\ StillActive(g)
  /\ gstat' = [gstat EXCEPT ![g] = "REVOKED"]
  /\ revoked' = revoked \cup {g}
  /\ UNCHANGED <<nonces, valid, offered, runs, attemptVars, execVars, effects, crashes>>

\* The grant expires, or the agent's authority epoch moves on.  Only authorize
\* looks, so it matters while the grant is in somebody's hands and not spent.
Void(g) ==
  /\ g \in valid \cap offered /\ gstat[g] # "CONSUMED"
  /\ valid' = valid \ {g}
  /\ UNCHANGED <<gstat, nonces, offered, runs, revoked, attemptVars, execVars,
                 effects, crashes>>

\* The five minutes of a lease pass.
Lapse(a) ==
  /\ ast[a] \in {"LEASED", "RUNNING"} /\ ~lapsed[a]
  /\ lapsed' = [lapsed EXCEPT ![a] = TRUE]
  /\ UNCHANGED <<grantVars, ast, akey, anum, agrant, aintent, receipt, execVars,
                 effects, crashes>>

\* expire_leases, one row.
ExpireLease(a) ==
  /\ ast[a] = "LEASED" /\ lapsed[a]
  /\ transition(a, "TIMED_OUT", FALSE)
  /\ UNCHANGED <<grantVars, execVars, effects, crashes>>

GateNext ==
  \/ \E p \in Execs : ExecStep(p) \/ ExecCrash(p)
  \/ \E g \in Grant : revoke(g) \/ Void(g)
  \/ \E a \in AttemptId : Lapse(a) \/ ExpireLease(a)
=============================================================================
