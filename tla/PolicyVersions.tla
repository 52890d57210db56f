--------------------------- MODULE PolicyVersions ---------------------------
(***************************************************************************)
(* The life of a scope's routing policy in Postgres, as the API service    *)
(* drives it: the per-scope body of post_events_batch                      *)
(* (api/routes/routing.py), the pipeline _bump_and_activate it calls, and  *)
(* the SQL of AsyncRoutingStore and async_activate_policy_version          *)
(* (core/routing_store.py).                                                *)
(*                                                                         *)
(* A worker is one in-flight pass of the loop over the scopes of a batch.  *)
(* The handler is a coroutine: other workers run at each await, so a step  *)
(* below is what happens between two awaits whose order can be told apart  *)
(* by another connection: a statement's snapshot, a row lock, a commit.    *)
(* Postgres runs at READ COMMITTED, the default nothing in the repository  *)
(* overrides.  Weights are left out; what matters of a version's content   *)
(* is the version it was computed from (base).                             *)
(***************************************************************************)
EXTENDS Integers, Sequences, FiniteSets

CONSTANTS Worker,     \* concurrent passes of the per-scope loop
          Scope,      \* scope keys
          NoScope,    \* the scope of an idle worker
          MaxAudit    \* bound: audit rows written in a behaviour

ASSUME NoScopeAssumption  == NoScope \notin Scope
ASSUME MaxAuditAssumption == MaxAudit \in Nat

Version == 1..MaxAudit

(***************************************************************************)
(* absent: no row.  staged: activated_at is NULL.  active: activated_at is *)
(* set and superseded_at is NULL.  superseded: both are set.               *)
(***************************************************************************)
Status == {"absent", "staged", "active", "superseded"}

VARIABLES
  \* committed tables
  status,     \* status[s][v]: the routing_policy_versions row (s, v)
  base,       \* base[s][v]: the version its weights were computed from, or 0
  auditOf,    \* auditOf[s][v]: its audit_id, a position of auditLog, or 0
  pointer,    \* pointer[s]: routing_policies.active_version, 0 without a row
  auditLog,   \* the audit rows of bumps, each the scope it names (target_id)
  \* one in-flight pass per worker
  pc,         \* where the pass is suspended
  scope,      \* scope_key
  basis,      \* the version read as `active`, 0 for none
  audit,      \* audit_id
  ver,        \* new_version
  pending,    \* rows the supersede UPDATE has yet to lock
  locked,     \* rows it has locked and marked superseded, not yet committed
  \* history, read by the properties only
  racedBump,       \* scopes where a bump overlapped another pass
  racedActivation  \* scopes where two activation transactions overlapped

tables  == <<status, base, auditOf, pointer, auditLog>>
tasks   == <<pc, scope, basis, audit, ver, pending, locked>>
history == <<racedBump, racedActivation>>
vars    == <<status, base, auditOf, pointer, auditLog,
             pc, scope, basis, audit, ver, pending, locked,
             racedBump, racedActivation>>

Control == {"idle", "decide", "audited", "selected", "staged", "superseding"}

\* The pass writes a version once it has committed to a bump.
Bumping == {"audited", "selected", "staged", "superseding"}

Rows(s)   == {v \in Version : status[s][v] # "absent"}

\* Mutant: the WHERE clause without activated_at IS NOT NULL.
Active_StagedToo(s) == {v \in Version : status[s][v] \in {"staged", "active"}}

Active(s) == {v \in Version : status[s][v] = "active"}

\* v is COALESCE(MAX(policy_version), 0) + 1 over the rows of the scope.
IsNextVersion(s, v) == /\ \A r \in Rows(s) : r < v
                       /\ v = 1 \/ v - 1 \in Rows(s)

\* Mutant: only the version numbered just before v is superseded.
SupersedeTargets_PreviousNumber(s, v) == Active(s) \cap {v - 1}

\* The rows the supersede UPDATE of version v finds in its snapshot.
SupersedeTargets(s, v) == Active(s) \ {v}

Others(w, s) == {u \in Worker \ {w} : scope[u] = s}

\* Mutant: the connection is returned with its transaction still open.
RolledBack_Never(held, w) == held

RolledBack(held, w) == [held EXCEPT ![w] = {}]

\* The pass ends, whichever way: an open transaction is rolled back.
Finish(w) == /\ pc'      = [pc      EXCEPT ![w] = "idle"]
             /\ scope'   = [scope   EXCEPT ![w] = NoScope]
             /\ basis'   = [basis   EXCEPT ![w] = 0]
             /\ audit'   = [audit   EXCEPT ![w] = 0]
             /\ ver'     = [ver     EXCEPT ![w] = 0]
             /\ pending' = RolledBack(pending, w)
             /\ locked'  = RolledBack(locked, w)

Init == /\ status   = [s \in Scope |-> [v \in Version |-> "absent"]]
        /\ base     = [s \in Scope |-> [v \in Version |-> 0]]
        /\ auditOf  = [s \in Scope |-> [v \in Version |-> 0]]
        /\ pointer  = [s \in Scope |-> 0]
        /\ auditLog = <<>>
        /\ pc       = [w \in Worker |-> "idle"]
        /\ scope    = [w \in Worker |-> NoScope]
        /\ basis    = [w \in Worker |-> 0]
        /\ audit    = [w \in Worker |-> 0]
        /\ ver      = [w \in Worker |-> 0]
        /\ pending  = [w \in Worker |-> {}]
        /\ locked   = [w \in Worker |-> {}]
        /\ racedBump = {}
        /\ racedActivation = {}

-----------------------------------------------------------------------------
(***************************************************************************)
(* _read_active_policy: one SELECT on a connection of its own; fetchone    *)
(* takes any of the rows it finds.  GET /v1/routing/policies is this step  *)
(* followed by Keep.                                                       *)
(***************************************************************************)
ReadActive(w, s) ==
  /\ pc[w] = "idle"
  /\ \E b \in (IF Active(s) = {} THEN {0} ELSE Active(s)) :
       basis' = [basis EXCEPT ![w] = b]
  /\ pc'    = [pc EXCEPT ![w] = "decide"]
  /\ scope' = [scope EXCEPT ![w] = s]
  /\ racedBump' = IF \E u \in Others(w, s) : pc[u] \in Bumping
                  THEN racedBump \cup {s} ELSE racedBump
  /\ UNCHANGED <<tables, audit, ver, pending, locked, racedActivation>>

\* The deltas stay below the threshold (or the pass only reads): no write.
Keep(w) == /\ pc[w] = "decide"
           /\ Finish(w)
           /\ UNCHANGED <<tables, history>>

\* Mutant: write_signed returns the id of the previous row.
NewAuditId_Previous == Len(auditLog)

NewAuditId == Len(auditLog) + 1

\* should_bump: AsyncAuditWriter.write_signed inserts the row and commits.
WriteAudit(w) ==
  /\ pc[w] = "decide"
  /\ Len(auditLog) < MaxAudit
  /\ auditLog' = Append(auditLog, scope[w])
  /\ audit' = [audit EXCEPT ![w] = NewAuditId]
  /\ pc'    = [pc EXCEPT ![w] = "audited"]
  /\ racedBump' = IF Others(w, scope[w]) # {}
                  THEN racedBump \cup {scope[w]} ELSE racedBump
  /\ UNCHANGED <<status, base, auditOf, pointer, scope, basis, ver, pending,
                 locked, racedActivation>>

\* insert_policy_version, first statement: the number is read, not reserved.
SelectMax(w) ==
  /\ pc[w] = "audited"
  /\ \E v \in Version : /\ IsNextVersion(scope[w], v)
                        /\ ver' = [ver EXCEPT ![w] = v]
  /\ pc' = [pc EXCEPT ![w] = "selected"]
  /\ UNCHANGED <<tables, scope, basis, audit, pending, locked, history>>

\* Mutant: a number that is taken is overwritten.
IsFree_Always(s, v) == TRUE

\* UNIQUE (scope_key, policy_version)
IsFree(s, v) == status[s][v] = "absent"

(***************************************************************************)
(* insert_policy_version, second statement and commit.  An INSERT of the   *)
(* same key by another open transaction makes this one wait for its        *)
(* commit, so statement and commit are one step.                           *)
(***************************************************************************)
InsertStaged(w) ==
  /\ pc[w] = "selected"
  /\ IsFree(scope[w], ver[w])
  /\ status'  = [status  EXCEPT ![scope[w]][ver[w]] = "staged"]
  /\ base'    = [base    EXCEPT ![scope[w]][ver[w]] = basis[w]]
  /\ auditOf' = [auditOf EXCEPT ![scope[w]][ver[w]] = audit[w]]
  /\ pc' = [pc EXCEPT ![w] = "staged"]
  /\ UNCHANGED <<pointer, auditLog, scope, basis, audit, ver, pending, locked,
                 history>>

\* The INSERT is refused: the request fails.
UniqueViolation(w) ==
  /\ pc[w] = "selected"
  /\ ~IsFree(scope[w], ver[w])
  /\ Finish(w)
  /\ UNCHANGED <<tables, history>>

\* async_activate_policy_version: the supersede UPDATE takes its snapshot.
SupersedeBegin(w) ==
  /\ pc[w] = "staged"
  /\ pending' = [pending EXCEPT ![w] = SupersedeTargets(scope[w], ver[w])]
  /\ pc' = [pc EXCEPT ![w] = "superseding"]
  /\ racedActivation' = IF \E u \in Others(w, scope[w]) : pc[u] = "superseding"
                        THEN racedActivation \cup {scope[w]}
                        ELSE racedActivation
  /\ UNCHANGED <<tables, scope, basis, audit, ver, locked, racedBump>>

(***************************************************************************)
(* The UPDATE comes to row r.  It waits while another open transaction has *)
(* the row locked; then it tests the WHERE clause again on the committed   *)
(* row, and skips a row that is no longer active.                          *)
(***************************************************************************)
LockedByOther(w, r) == \E u \in Others(w, scope[w]) : r \in locked[u]

SupersedeRow(w, r) ==
  /\ pc[w] = "superseding"
  /\ r \in pending[w]
  /\ ~LockedByOther(w, r)
  /\ pending' = [pending EXCEPT ![w] = @ \ {r}]
  /\ locked'  = [locked  EXCEPT ![w] = IF status[scope[w]][r] = "active"
                                       THEN @ \cup {r} ELSE @]
  /\ UNCHANGED <<tables, pc, scope, basis, audit, ver, history>>

(***************************************************************************)
(* The UPDATE of the version's own row, the upsert of the pointer, the     *)
(* commit that publishes all three statements, and the end of the pass.    *)
(* Another transaction cannot see or contend for the own row before the    *)
(* commit, and one that meets the pointer row locked waits for the commit. *)
(***************************************************************************)
ActivatedRow(s, v, superseded) ==
  [r \in Version |-> CASE r = v -> "active"
                       [] r # v /\ r \in superseded -> "superseded"
                       [] OTHER -> status[s][r]]

\* Mutant: the upsert of the pointer is ON CONFLICT DO NOTHING.
Repointed_FirstStays(s, v) ==
  IF pointer[s] = 0 THEN [pointer EXCEPT ![s] = v] ELSE pointer

Repointed(s, v) == [pointer EXCEPT ![s] = v]

ActivateCommit(w) ==
  /\ pc[w] = "superseding"
  /\ pending[w] = {}
  /\ status'  = [status EXCEPT ![scope[w]] =
                   ActivatedRow(scope[w], ver[w], locked[w])]
  /\ pointer' = Repointed(scope[w], ver[w])
  /\ Finish(w)
  /\ UNCHANGED <<base, auditOf, auditLog, history>>

(***************************************************************************)
(* A statement fails, the connection or the process is lost, or the        *)
(* request is cancelled at an await.  What was committed stays.            *)
(***************************************************************************)
Fail(w) == /\ pc[w] # "idle"
           /\ Finish(w)
           /\ UNCHANGED <<tables, history>>

(***************************************************************************)
(* Postgres aborts a transaction that is part of a cycle of transactions   *)
(* each waiting for a row another one of them has locked.                  *)
(***************************************************************************)
Blocked(w) == /\ pc[w] = "superseding"
              /\ pending[w] # {}
              /\ \A r \in pending[w] : LockedByOther(w, r)

DeadlockAbort(w) ==
  /\ \E cycle \in SUBSET Worker :
       /\ w \in cycle
       /\ \A u \in cycle : /\ Blocked(u)
                           /\ \E x \in Others(u, scope[u]) \cap cycle :
                                pending[u] \cap locked[x] # {}
  /\ Finish(w)
  /\ UNCHANGED <<tables, history>>

\* What the code does next when nothing goes wrong.
Advance(w) == \/ Keep(w)
              \/ WriteAudit(w)
              \/ SelectMax(w)
              \/ InsertStaged(w)
              \/ UniqueViolation(w)
              \/ SupersedeBegin(w)
              \/ \E r \in Version : SupersedeRow(w, r)
              \/ ActivateCommit(w)
              \/ DeadlockAbort(w)

Next == \E w \in Worker : \/ \E s \in Scope : ReadActive(w, s)
                          \/ Advance(w)
                          \/ Fail(w)

Spec == Init /\ [][Next]_vars

\* The event loop resumes every coroutine and Postgres answers or aborts.
FairSpec == Spec /\ \A w \in Worker : WF_vars(Advance(w))

-----------------------------------------------------------------------------
TypeOK ==
  /\ status   \in [Scope -> [Version -> Status]]
  /\ base     \in [Scope -> [Version -> Version \cup {0}]]
  /\ auditOf  \in [Scope -> [Version -> Version \cup {0}]]
  /\ pointer  \in [Scope -> Version \cup {0}]
  /\ auditLog \in Seq(Scope)
  /\ Len(auditLog) <= MaxAudit
  /\ pc       \in [Worker -> Control]
  /\ scope    \in [Worker -> Scope \cup {NoScope}]
  /\ basis    \in [Worker -> Version \cup {0}]
  /\ audit    \in [Worker -> Version \cup {0}]
  /\ ver      \in [Worker -> Version \cup {0}]
  /\ pending  \in [Worker -> SUBSET Version]
  /\ locked   \in [Worker -> SUBSET Version]
  /\ racedBump \subseteq Scope
  /\ racedActivation \subseteq Scope
  /\ \A w \in Worker :
       /\ pc[w] = "idle" <=> scope[w] = NoScope
       /\ pc[w] \in Bumping => audit[w] # 0
       /\ pc[w] \in {"selected", "staged", "superseding"} => ver[w] # 0
       /\ pc[w] # "superseding" => pending[w] = {} /\ locked[w] = {}

(***************************************************************************)
(* The pointer of routing_policies and the rows of routing_policy_versions *)
(* are two records of one fact: whatever overlaps or fails, the version    *)
(* the pointer names is active, so a scope that once had a policy never    *)
(* answers 404 again.                                                      *)
(***************************************************************************)
PointerNamesActive ==
  \A s \in Scope : pointer[s] # 0 => pointer[s] \in Active(s)

(***************************************************************************)
(* "supersede any previously active" holds of the table, staged rows left  *)
(* by failed bumps included, as long as no two activation transactions of  *)
(* the scope have overlapped: the pointer's version is the only active     *)
(* one.                                                                    *)
(***************************************************************************)
SoleActive ==
  \A s \in Scope \ racedActivation :
    Active(s) = IF pointer[s] = 0 THEN {} ELSE {pointer[s]}

(***************************************************************************)
(* A superseded version stays superseded and an active one is never taken  *)
(* back to staged, although activation writes superseded_at = NULL: a      *)
(* worker activates only the row it inserted itself.                       *)
(***************************************************************************)
Activated(s, v) == status[s][v] \in {"active", "superseded"}

StatusMovesForward ==
  [][\A s \in Scope, v \in Version :
       /\ status[s][v] = "superseded" => status'[s][v] = "superseded"
       /\ status[s][v] = "active" => status'[s][v] \in {"active", "superseded"}
       /\ status[s][v] = "staged" => status'[s][v] \in {"staged", "active"}]_vars

(***************************************************************************)
(* Every version row refers to an audit row that was committed before it,  *)
(* names its scope, and belongs to no other version, across scopes too.    *)
(***************************************************************************)
EveryVersionAudited ==
  \A s \in Scope : \A v \in Rows(s) :
    /\ auditOf[s][v] \in 1..Len(auditLog)
    /\ auditLog[auditOf[s][v]] = s
    /\ \A t \in Scope : \A u \in Rows(t) :
         auditOf[t][u] = auditOf[s][v] => t = s /\ u = v

(***************************************************************************)
(* Learning accumulates: while no bump of a scope has overlapped another   *)
(* pass, every version was computed from the newest version activated      *)
(* before it, however many bumps failed half way in between.               *)
(***************************************************************************)
NewestActivatedBefore(s, v, b) ==
  /\ b = 0 \/ (b < v /\ Activated(s, b))
  /\ \A u \in (b + 1)..(v - 1) : ~Activated(s, u)

LearningAccumulates ==
  \A s \in Scope \ racedBump : \A v \in Rows(s) :
    NewestActivatedBefore(s, v, base[s][v])

(***************************************************************************)
(* While no bump of a scope has overlapped another pass, the pointer names *)
(* the newest version ever activated: activation never goes back to an     *)
(* older one.                                                              *)
(***************************************************************************)
PointerIsNewest ==
  \A s \in Scope \ racedBump : \A v \in Version :
    Activated(s, v) => v <= pointer[s]

\* Every pass ends: no lock is waited for forever.
PassesEnd == \A w \in Worker : pc[w] # "idle" ~> pc[w] = "idle"

(***************************************************************************)
(* The tables implement the register their readers rely on: each change of *)
(* the pointer publishes, in one step, a version never published before,   *)
(* and nothing is unpublished.                                             *)
(***************************************************************************)
Register == INSTANCE PolicyRegister
  WITH published <- [s \in Scope |-> {v \in Version : Activated(s, v)}],
       current   <- pointer

ImplementsRegister == Register!Spec

(***************************************************************************)
(* What the docstring of activate_policy_version says, with no condition:  *)
(* "Mark the named version as active; supersede any previously active."    *)
(***************************************************************************)
SupersedesAnyPreviouslyActive ==
  [][\A s \in Scope : pointer'[s] # pointer[s] =>
       \A v \in Active(s) \ {pointer'[s]} : status'[s][v] = "superseded"]_vars
=============================================================================
