------------------------ MODULE PolicyVersions_proofs ------------------------
(***************************************************************************)
(* Theorems about PolicyVersions, for any number of workers, scopes and    *)
(* versions.                                                               *)
(***************************************************************************)
EXTENDS PolicyVersions, TLAPS

\* An ended pass is in its initial state, and only this worker's changes.
LEMMA FinishType ==
  ASSUME TypeOK, NEW w \in Worker, Finish(w)
  PROVE  /\ pc'      \in [Worker -> Control]
         /\ scope'   \in [Worker -> Scope \cup {NoScope}]
         /\ basis'   \in [Worker -> Version \cup {0}]
         /\ audit'   \in [Worker -> Version \cup {0}]
         /\ ver'     \in [Worker -> Version \cup {0}]
         /\ pending' \in [Worker -> SUBSET Version]
         /\ locked'  \in [Worker -> SUBSET Version]
         /\ pc'[w] = "idle" /\ scope'[w] = NoScope
         /\ pending'[w] = {} /\ locked'[w] = {}
         /\ \A u \in Worker \ {w} :
              /\ pc'[u] = pc[u] /\ scope'[u] = scope[u] /\ basis'[u] = basis[u]
              /\ audit'[u] = audit[u] /\ ver'[u] = ver[u]
              /\ pending'[u] = pending[u] /\ locked'[u] = locked[u]
         /\ \A u \in Worker :
              /\ pc'[u] = "idle" <=> scope'[u] = NoScope
              /\ pc'[u] \in Bumping => audit'[u] # 0
              /\ pc'[u] \in {"selected", "staged", "superseding"} => ver'[u] # 0
              /\ pc'[u] # "superseding" => pending'[u] = {} /\ locked'[u] = {}
BY DEF TypeOK, Finish, RolledBack, Control, Bumping

-----------------------------------------------------------------------------
\* The initial state is well typed.
LEMMA TypeInit == Init => TypeOK
  BY NoScopeAssumption, MaxAuditAssumption
     DEF Init, TypeOK, Status, Control, Bumping, Version

\* Every step preserves the types.
LEMMA TypeStep == TypeOK /\ [Next]_vars => TypeOK'
<1> USE NoScopeAssumption, MaxAuditAssumption
<1> SUFFICES ASSUME TypeOK, [Next]_vars PROVE TypeOK'
  OBVIOUS
<1>1. ASSUME NEW w \in Worker, NEW s \in Scope, ReadActive(w, s) PROVE TypeOK'
  BY <1>1 DEF ReadActive, TypeOK, tables, Active, Control, Bumping
<1>2. ASSUME NEW w \in Worker, Keep(w) PROVE TypeOK'
  BY <1>2, FinishType DEF Keep, TypeOK, tables, history
<1>3. ASSUME NEW w \in Worker, WriteAudit(w) PROVE TypeOK'
  <2>1. /\ scope[w] \in Scope
        /\ Len(auditLog) \in Nat
    BY <1>3 DEF WriteAudit, NewAuditId, TypeOK
  <2>2. /\ auditLog' \in Seq(Scope)
        /\ Len(auditLog') = Len(auditLog) + 1
        /\ Len(auditLog) + 1 \in Version \ {0}
    BY <1>3, <2>1 DEF WriteAudit, NewAuditId, TypeOK, Version
  <2>3. Len(auditLog') <= MaxAudit
    BY <1>3, <2>1, <2>2 DEF WriteAudit, NewAuditId
  <2>4. audit' = [audit EXCEPT ![w] = Len(auditLog) + 1]
    BY <1>3 DEF WriteAudit, NewAuditId
  <2> QED
    BY <1>3, <2>1, <2>2, <2>3, <2>4 DEF WriteAudit, NewAuditId, TypeOK, Control, Bumping
<1>4. ASSUME NEW w \in Worker, SelectMax(w) PROVE TypeOK'
  BY <1>4 DEF SelectMax, TypeOK, tables, history, Control, Bumping, Version
<1>5. ASSUME NEW w \in Worker, InsertStaged(w) PROVE TypeOK'
  <2>1. scope[w] \in Scope /\ ver[w] \in Version
    BY <1>5 DEF InsertStaged, IsFree, TypeOK
  <2> QED
    BY <1>5, <2>1 DEF InsertStaged, IsFree, TypeOK, history, Control, Bumping, Status
<1>6. ASSUME NEW w \in Worker, UniqueViolation(w) PROVE TypeOK'
  BY <1>6, FinishType DEF UniqueViolation, TypeOK, tables, history
<1>7. ASSUME NEW w \in Worker, SupersedeBegin(w) PROVE TypeOK'
  BY <1>7 DEF SupersedeBegin, TypeOK, tables, SupersedeTargets, Active,
              Control, Bumping
<1>8. ASSUME NEW w \in Worker, NEW r \in Version, SupersedeRow(w, r)
      PROVE TypeOK'
  BY <1>8 DEF SupersedeRow, TypeOK, tables, history, Control, Bumping
<1>9. ASSUME NEW w \in Worker, ActivateCommit(w) PROVE TypeOK'
  <2>1. scope[w] \in Scope /\ ver[w] \in Version
    BY <1>9 DEF ActivateCommit, Repointed, TypeOK
  <2>2. ActivatedRow(scope[w], ver[w], locked[w]) \in [Version -> Status]
    BY <2>1 DEF ActivatedRow, TypeOK, Status
  <2>3. status' \in [Scope -> [Version -> Status]]
    BY <1>9, <2>1, <2>2 DEF ActivateCommit, Repointed, TypeOK
  <2>4. pointer' \in [Scope -> Version \cup {0}]
    BY <1>9, <2>1 DEF ActivateCommit, Repointed, TypeOK
  <2> QED
    BY <1>9, <2>3, <2>4, FinishType DEF ActivateCommit, Repointed, TypeOK, history
<1>10. ASSUME NEW w \in Worker, DeadlockAbort(w) PROVE TypeOK'
  BY <1>10, FinishType DEF DeadlockAbort, TypeOK, tables, history
<1>11. ASSUME NEW w \in Worker, Fail(w) PROVE TypeOK'
  BY <1>11, FinishType DEF Fail, TypeOK, tables, history
<1>12. CASE UNCHANGED vars
  BY <1>12 DEF vars, TypeOK
<1> QED
  BY <1>1, <1>2, <1>3, <1>4, <1>5, <1>6, <1>7, <1>8, <1>9, <1>10, <1>11,
     <1>12 DEF Next, Advance

\* Every state of every behaviour is well typed: the tables, the tasks, and
\* how a task's position relates to what it holds.
THEOREM TypeInvariant == Spec => []TypeOK
  BY TypeInit, TypeStep, PTL DEF Spec

-----------------------------------------------------------------------------
(***************************************************************************)
(* The inductive invariant.  A worker past its INSERT owns a staged row no *)
(* other worker owns; a locked row is active and locked once; and while no *)
(* two activation transactions of a scope have overlapped, the one that is *)
(* open has every active row of the scope in its lists.                    *)
(***************************************************************************)
Owning(w) == pc[w] \in {"staged", "superseding"}

OwnedRowsStaged ==
  \A w \in Worker : Owning(w) => status[scope[w]][ver[w]] = "staged"

OwnedRowsDiffer ==
  \A u, w \in Worker :
    u # w /\ Owning(u) /\ Owning(w) /\ scope[u] = scope[w] => ver[u] # ver[w]

LockedRowsActive ==
  \A w \in Worker : \A r \in locked[w] : status[scope[w]][r] = "active"

LocksExclusive ==
  \A u, w \in Worker :
    u # w /\ scope[u] = scope[w] => locked[u] \cap locked[w] = {}

ActivatesAlone ==
  \A u, w \in Worker :
    /\ u # w
    /\ pc[u] = "superseding"
    /\ pc[w] = "superseding"
    /\ scope[u] = scope[w]
    => scope[w] \in racedActivation

SupersedeCoversActive ==
  \A w \in Worker :
    pc[w] = "superseding" /\ scope[w] \notin racedActivation
      => Active(scope[w]) \subseteq pending[w] \cup locked[w]

IInv == /\ TypeOK
        /\ OwnedRowsStaged
        /\ OwnedRowsDiffer
        /\ LockedRowsActive
        /\ LocksExclusive
        /\ ActivatesAlone
        /\ SupersedeCoversActive
        /\ PointerNamesActive
        /\ SoleActive

\* A pass that ends without a commit takes nothing the others rely on.
LEMMA EndStep ==
  ASSUME IInv, TypeOK', NEW w \in Worker, Finish(w),
         UNCHANGED <<tables, history>>
  PROVE  IInv'
<1> USE FinishType DEF IInv, tables, history
<1>1. Owning(w)' = FALSE
  BY DEF Owning
<1>2. \A u \in Worker \ {w} : Owning(u)' = Owning(u)
  BY DEF Owning
<1>3. OwnedRowsStaged' /\ OwnedRowsDiffer'
  BY <1>1, <1>2 DEF OwnedRowsStaged, OwnedRowsDiffer
<1>4. LockedRowsActive' /\ LocksExclusive'
  BY DEF LockedRowsActive, LocksExclusive
<1>5. ActivatesAlone'
  BY DEF ActivatesAlone
<1>6. SupersedeCoversActive'
  BY DEF SupersedeCoversActive, Active
<1>7. PointerNamesActive' /\ SoleActive'
  BY DEF PointerNamesActive, SoleActive, Active
<1> QED
  BY <1>3, <1>4, <1>5, <1>6, <1>7

\* Steps before the INSERT touch no version row and own none.
LEMMA EarlyStep ==
  ASSUME IInv, TypeOK', NEW w \in Worker,
         UNCHANGED <<status, pointer, pending, locked, racedActivation>>,
         ~Owning(w), ~Owning(w)', locked[w] = {},
         \A u \in Worker \ {w} :
           pc'[u] = pc[u] /\ scope'[u] = scope[u] /\ ver'[u] = ver[u]
  PROVE  IInv'
<1> USE DEF IInv
<1>1. \A u \in Worker \ {w} : Owning(u)' = Owning(u)
  BY DEF Owning
<1>2. pc[w] # "superseding" /\ pc'[w] # "superseding"
  BY DEF Owning
<1>3. OwnedRowsStaged' /\ OwnedRowsDiffer'
  BY <1>1 DEF OwnedRowsStaged, OwnedRowsDiffer
<1>4. LockedRowsActive' /\ LocksExclusive'
  BY DEF LockedRowsActive, LocksExclusive
<1>5. ActivatesAlone'
  BY <1>2 DEF ActivatesAlone
<1>6. SupersedeCoversActive'
  BY <1>2 DEF SupersedeCoversActive, Active
<1>7. PointerNamesActive' /\ SoleActive'
  BY DEF PointerNamesActive, SoleActive, Active
<1> QED
  BY <1>3, <1>4, <1>5, <1>6, <1>7

\* The INSERT gives its worker a row of its own and disturbs no other.
LEMMA InsertStep ==
  ASSUME IInv, TypeOK', NEW w \in Worker, InsertStaged(w)
  PROVE  IInv'
<1> USE DEF IInv
<1> DEFINE s == scope[w]
           v == ver[w]
<1>1. /\ s \in Scope /\ v \in Version
      /\ status[s][v] = "absent"
      /\ status'[s][v] = "staged"
      /\ pending[w] = {} /\ locked[w] = {}
  BY DEF InsertStaged, IsFree, TypeOK
<1>2. \A x \in Scope, r \in Version :
        x # s \/ r # v => status'[x][r] = status[x][r]
  BY <1>1 DEF InsertStaged, IsFree, TypeOK
<1>3. /\ Owning(w)' /\ pc'[w] = "staged"
      /\ \A u \in Worker \ {w} : Owning(u)' = Owning(u) /\ pc'[u] = pc[u]
  BY DEF InsertStaged, IsFree, TypeOK, Owning
<1>4. UNCHANGED <<pointer, scope, ver, pending, locked, racedActivation>>
  BY DEF InsertStaged, IsFree, history
<1>5. \A u \in Worker : Owning(u) => scope[u] \in Scope /\ ver[u] \in Version
  BY DEF TypeOK, Owning
<1>6. \A u \in Worker : locked[u] # {} => scope[u] \in Scope
  BY DEF TypeOK
<1>7. \A x \in Scope : Active(x)' = Active(x)
  BY <1>1, <1>2 DEF Active
<1>8. OwnedRowsStaged'
  BY <1>1, <1>2, <1>3, <1>4, <1>5 DEF OwnedRowsStaged
<1>9. OwnedRowsDiffer'
  BY <1>1, <1>3, <1>4 DEF OwnedRowsDiffer, OwnedRowsStaged
<1>10. LockedRowsActive'
  BY <1>1, <1>2, <1>4, <1>6 DEF LockedRowsActive, TypeOK
<1>11. LocksExclusive'
  BY <1>4 DEF LocksExclusive
<1>12. ActivatesAlone'
  BY <1>3, <1>4, SMTT(20) DEF ActivatesAlone
<1>13. SupersedeCoversActive'
  BY <1>3, <1>4, <1>7 DEF SupersedeCoversActive, TypeOK
<1>14. PointerNamesActive' /\ SoleActive'
  BY <1>4, <1>7 DEF PointerNamesActive, SoleActive
<1> QED
  BY <1>8, <1>9, <1>10, <1>11, <1>12, <1>13, <1>14

\* The snapshot lists every active row, or another activation is open.
LEMMA SupersedeBeginStep ==
  ASSUME IInv, TypeOK', NEW w \in Worker, SupersedeBegin(w)
  PROVE  IInv'
<1> USE DEF IInv
<1>1. /\ pc[w] = "staged" /\ pc'[w] = "superseding"
      /\ pending'[w] = Active(scope[w]) \ {ver[w]}
      /\ UNCHANGED <<status, pointer, scope, ver, locked>>
      /\ racedActivation \subseteq racedActivation'
      /\ \A u \in Worker \ {w} : pc'[u] = pc[u] /\ pending'[u] = pending[u]
  BY DEF SupersedeBegin, SupersedeTargets, TypeOK, tables
<1>2. \A u \in Worker : Owning(u)' = Owning(u)
  BY <1>1 DEF Owning
<1>3. OwnedRowsStaged' /\ OwnedRowsDiffer'
  BY <1>1, <1>2 DEF OwnedRowsStaged, OwnedRowsDiffer
<1>4. LockedRowsActive' /\ LocksExclusive'
  BY <1>1 DEF LockedRowsActive, LocksExclusive
<1>5. ActivatesAlone'
  <2>1. ASSUME NEW u \in Worker \ {w}, pc[u] = "superseding", scope[u] = scope[w]
        PROVE  scope[w] \in racedActivation'
    BY <2>1 DEF SupersedeBegin, Others
  <2> QED
    BY <1>1, <2>1 DEF ActivatesAlone
<1>6. ver[w] \notin Active(scope[w])
  BY <1>1 DEF OwnedRowsStaged, Owning, Active
<1>7. SupersedeCoversActive'
  BY <1>1, <1>6 DEF SupersedeCoversActive, Active
<1>8. PointerNamesActive' /\ SoleActive'
  BY <1>1 DEF PointerNamesActive, SoleActive, Active
<1> QED
  BY <1>3, <1>4, <1>5, <1>7, <1>8

\* A row leaves the list when it is locked or no longer active.
LEMMA SupersedeRowStep ==
  ASSUME IInv, TypeOK', NEW w \in Worker, NEW r \in Version, SupersedeRow(w, r)
  PROVE  IInv'
<1> USE DEF IInv
<1>1. /\ UNCHANGED <<status, pointer, pc, scope, ver, racedActivation>>
      /\ pending'[w] = pending[w] \ {r}
      /\ locked'[w] = IF status[scope[w]][r] = "active"
                      THEN locked[w] \cup {r} ELSE locked[w]
      /\ \A u \in Worker \ {w} : /\ pending'[u] = pending[u]
                                 /\ locked'[u] = locked[u]
  BY DEF SupersedeRow, TypeOK, tables, history
<1>2. OwnedRowsStaged' /\ OwnedRowsDiffer'
  BY <1>1 DEF OwnedRowsStaged, OwnedRowsDiffer, Owning
<1>3. LockedRowsActive'
  BY <1>1 DEF LockedRowsActive
<1>4. LocksExclusive'
  <2>1. \A u \in Worker \ {w} : scope[u] = scope[w] => r \notin locked[u]
    BY DEF SupersedeRow, LockedByOther, Others
  <2> QED
    BY <1>1, <2>1 DEF LocksExclusive
<1>5. ActivatesAlone'
  BY <1>1 DEF ActivatesAlone
<1>6. SupersedeCoversActive'
  BY <1>1 DEF SupersedeCoversActive, Active
<1>7. PointerNamesActive' /\ SoleActive'
  BY <1>1 DEF PointerNamesActive, SoleActive, Active
<1> QED
  BY <1>2, <1>3, <1>4, <1>5, <1>6, <1>7

\* What a commit does to the rows and the pointer of its scope, and that it
\* takes no row another worker owns or has locked.
LEMMA CommitEffect ==
  ASSUME IInv, NEW w \in Worker, ActivateCommit(w)
  PROVE  /\ scope[w] \in Scope /\ ver[w] \in Version /\ ver[w] # 0
         /\ ver[w] \notin locked[w]
         /\ locked[w] \subseteq Active(scope[w])
         /\ pointer' = [pointer EXCEPT ![scope[w]] = ver[w]]
         /\ \A s \in Scope, r \in Version :
              status'[s][r] = IF s = scope[w] /\ r = ver[w] THEN "active"
                              ELSE IF s = scope[w] /\ r \in locked[w]
                              THEN "superseded" ELSE status[s][r]
         /\ \A s \in Scope :
              Active(s)' = IF s = scope[w]
                           THEN (Active(s) \ locked[w]) \cup {ver[w]}
                           ELSE Active(s)
<1> USE DEF IInv
<1>1. /\ pc[w] = "superseding"
      /\ scope[w] \in Scope /\ ver[w] \in Version /\ ver[w] # 0
      /\ pointer' = [pointer EXCEPT ![scope[w]] = ver[w]]
  BY DEF ActivateCommit, Repointed, TypeOK
<1>2. ver[w] \notin locked[w] /\ locked[w] \subseteq Active(scope[w])
  BY <1>1 DEF OwnedRowsStaged, Owning, LockedRowsActive, TypeOK, Active
<1>3. \A s \in Scope, r \in Version :
        status'[s][r] = IF s = scope[w] /\ r = ver[w] THEN "active"
                        ELSE IF s = scope[w] /\ r \in locked[w]
                        THEN "superseded" ELSE status[s][r]
  BY <1>1 DEF ActivateCommit, Repointed, ActivatedRow, TypeOK
<1>4. \A s \in Scope :
        Active(s)' = IF s = scope[w]
                     THEN (Active(s) \ locked[w]) \cup {ver[w]}
                     ELSE Active(s)
  BY <1>1, <1>2, <1>3 DEF Active
<1> QED
  BY <1>1, <1>2, <1>3, <1>4

\* A commit preserves the invariant: what it supersedes is what it locked.
LEMMA CommitStep ==
  ASSUME IInv, TypeOK', NEW w \in Worker, ActivateCommit(w)
  PROVE  IInv'
<1> USE DEF IInv
<1> DEFINE s == scope[w]
<1>1. /\ pc[w] = "superseding" /\ pending[w] = {}
      /\ Finish(w) /\ racedActivation' = racedActivation
  BY DEF ActivateCommit, Repointed, history
<1>2. /\ ~Owning(w)' /\ pc'[w] = "idle" /\ locked'[w] = {}
      /\ \A u \in Worker \ {w} :
           /\ Owning(u)' = Owning(u) /\ pc'[u] = pc[u] /\ ver'[u] = ver[u]
           /\ scope'[u] = scope[u] /\ pending'[u] = pending[u]
           /\ locked'[u] = locked[u]
  BY <1>1, FinishType DEF Owning
<1>3. \A u \in Worker : /\ Owning(u) => scope[u] \in Scope /\ ver[u] \in Version
                        /\ locked[u] # {} => scope[u] \in Scope
                        /\ locked[u] \subseteq Version
  BY DEF TypeOK, Owning
<1>4. Owning(w)
  BY <1>1 DEF Owning
<1>5. OwnedRowsStaged'
  <2> SUFFICES ASSUME NEW u \in Worker \ {w}, Owning(u)
               PROVE  status'[scope[u]][ver[u]] = "staged"
    BY <1>2 DEF OwnedRowsStaged
  <2>1. status[scope[u]][ver[u]] = "staged"
    BY DEF OwnedRowsStaged
  <2>2. scope[u] = s => ver[u] # ver[w] /\ ver[u] \notin locked[w]
    BY <1>4, <2>1 DEF OwnedRowsDiffer, LockedRowsActive
  <2> QED
    BY <1>3, <2>1, <2>2, CommitEffect
<1>6. OwnedRowsDiffer'
  BY <1>2 DEF OwnedRowsDiffer
<1>7. LockedRowsActive'
  <2> SUFFICES ASSUME NEW u \in Worker \ {w}, NEW r \in locked[u]
               PROVE  status'[scope[u]][r] = "active"
    BY <1>2 DEF LockedRowsActive
  <2>1. status[scope[u]][r] = "active"
    BY DEF LockedRowsActive
  <2>2. scope[u] = s => r \notin locked[w]
    BY DEF LocksExclusive
  <2> QED
    BY <1>3, <2>1, <2>2, CommitEffect
<1>8. LocksExclusive'
  BY <1>2 DEF LocksExclusive
<1>9. ActivatesAlone'
  BY <1>1, <1>2 DEF ActivatesAlone
<1>10. SupersedeCoversActive'
  <2> SUFFICES ASSUME NEW u \in Worker \ {w}, pc[u] = "superseding",
                      NEW x \in Scope, x = scope[u], x \notin racedActivation
               PROVE  Active(x)' \subseteq pending[u] \cup locked[u]
    BY <1>1, <1>2, <1>3 DEF SupersedeCoversActive, Active, Owning
  <2>1. x # s
    BY <1>1 DEF ActivatesAlone
  <2>2. Active(x)' = Active(x)
    BY <2>1, CommitEffect
  <2> QED
    BY <2>2 DEF SupersedeCoversActive
<1>11. PointerNamesActive'
  BY CommitEffect DEF PointerNamesActive, TypeOK
<1>12. SoleActive'
  <2> SUFFICES ASSUME NEW x \in Scope \ racedActivation
               PROVE  Active(x)' = IF pointer'[x] = 0 THEN {} ELSE {pointer'[x]}
    BY <1>1 DEF SoleActive
  <2>1. CASE x # s
    BY <2>1, CommitEffect DEF SoleActive, TypeOK
  <2>2. CASE x = s
    <3>1. Active(x) \subseteq locked[w]
      BY <1>1, <2>2 DEF SupersedeCoversActive
    <3>2. Active(x)' = {ver[w]}
      BY <2>2, <3>1, CommitEffect
    <3>3. pointer'[x] = ver[w] /\ ver[w] # 0
      BY <2>2, CommitEffect DEF TypeOK
    <3> QED
      BY <3>2, <3>3
  <2> QED
    BY <2>1, <2>2
<1> QED
  BY <1>5, <1>6, <1>7, <1>8, <1>9, <1>10, <1>11, <1>12

\* The invariant is inductive.
LEMMA InvariantStep == IInv /\ [Next]_vars => IInv'
<1> SUFFICES ASSUME IInv, [Next]_vars PROVE IInv'
  OBVIOUS
<1>0. TypeOK /\ TypeOK'
  BY TypeStep DEF IInv
<1>1. ASSUME NEW w \in Worker, NEW s \in Scope, ReadActive(w, s) PROVE IInv'
  <2>1. /\ pc[w] = "idle" /\ pc'[w] = "decide" /\ locked[w] = {}
        /\ \A u \in Worker \ {w} : pc'[u] = pc[u] /\ scope'[u] = scope[u]
        /\ UNCHANGED <<status, pointer, ver, pending, locked, racedActivation>>
    BY <1>0, <1>1 DEF ReadActive, TypeOK, tables
  <2> QED
    BY <1>0, <2>1, EarlyStep DEF Owning
<1>2. ASSUME NEW w \in Worker, Keep(w) PROVE IInv'
  BY <1>0, <1>2, EndStep DEF Keep
<1>3. ASSUME NEW w \in Worker, WriteAudit(w) PROVE IInv'
  <2>1. /\ pc[w] = "decide" /\ pc'[w] = "audited" /\ locked[w] = {}
        /\ \A u \in Worker \ {w} : pc'[u] = pc[u] /\ scope'[u] = scope[u]
        /\ UNCHANGED <<status, pointer, ver, pending, locked, racedActivation>>
    BY <1>0, <1>3 DEF WriteAudit, NewAuditId, TypeOK
  <2> QED
    BY <1>0, <2>1, EarlyStep DEF Owning
<1>4. ASSUME NEW w \in Worker, SelectMax(w) PROVE IInv'
  <2>1. /\ pc[w] = "audited" /\ pc'[w] = "selected" /\ locked[w] = {}
        /\ \A u \in Worker \ {w} :
             pc'[u] = pc[u] /\ scope'[u] = scope[u] /\ ver'[u] = ver[u]
        /\ UNCHANGED <<status, pointer, pending, locked, racedActivation>>
    BY <1>0, <1>4 DEF SelectMax, TypeOK, tables, history
  <2> QED
    BY <1>0, <2>1, EarlyStep DEF Owning
<1>5. ASSUME NEW w \in Worker, InsertStaged(w) PROVE IInv'
  BY <1>0, <1>5, InsertStep
<1>6. ASSUME NEW w \in Worker, UniqueViolation(w) PROVE IInv'
  BY <1>0, <1>6, EndStep DEF UniqueViolation
<1>7. ASSUME NEW w \in Worker, SupersedeBegin(w) PROVE IInv'
  BY <1>0, <1>7, SupersedeBeginStep
<1>8. ASSUME NEW w \in Worker, NEW r \in Version, SupersedeRow(w, r) PROVE IInv'
  BY <1>0, <1>8, SupersedeRowStep
<1>9. ASSUME NEW w \in Worker, ActivateCommit(w) PROVE IInv'
  BY <1>0, <1>9, CommitStep
<1>10. ASSUME NEW w \in Worker, DeadlockAbort(w) PROVE IInv'
  BY <1>0, <1>10, EndStep DEF DeadlockAbort
<1>11. ASSUME NEW w \in Worker, Fail(w) PROVE IInv'
  BY <1>0, <1>11, EndStep DEF Fail
<1>12. CASE UNCHANGED vars
  BY <1>12 DEF vars, IInv, TypeOK, OwnedRowsStaged, OwnedRowsDiffer, Owning,
               LockedRowsActive, LocksExclusive, ActivatesAlone,
               SupersedeCoversActive, PointerNamesActive, SoleActive, Active
<1> QED
  BY <1>1, <1>2, <1>3, <1>4, <1>5, <1>6, <1>7, <1>8, <1>9, <1>10, <1>11,
     <1>12 DEF Next, Advance

\* It holds of the empty tables.
LEMMA InvariantInit == Init => IInv
<1> SUFFICES ASSUME Init PROVE IInv
  OBVIOUS
<1>1. TypeOK
  BY TypeInit
<1>2. \A w \in Worker : ~Owning(w) /\ pc[w] = "idle" /\ locked[w] = {}
  BY DEF Init, Owning
<1>3. \A s \in Scope : Active(s) = {} /\ pointer[s] = 0
  BY DEF Init, Active
<1> QED
  BY <1>1, <1>2, <1>3 DEF IInv, OwnedRowsStaged, OwnedRowsDiffer,
     LockedRowsActive, LocksExclusive, ActivatesAlone, SupersedeCoversActive,
     PointerNamesActive, SoleActive

\* The version the pointer names is active, whatever overlaps or fails.
THEOREM PointerNamesActiveHolds == Spec => []PointerNamesActive
<1>1. IInv => PointerNamesActive
  BY DEF IInv
<1> QED
  BY <1>1, InvariantInit, InvariantStep, PTL DEF Spec

\* Two activations must overlap for a scope to have two active versions, for
\* any number of workers and however many bumps have failed half way.
THEOREM SoleActiveHolds == Spec => []SoleActive
<1>1. IInv => SoleActive
  BY DEF IInv
<1> QED
  BY <1>1, InvariantInit, InvariantStep, PTL DEF Spec

\* No step takes a version back, in particular none resurrects a superseded one.
THEOREM StatusMovesForwardHolds == Spec => StatusMovesForward
<1> DEFINE Forward ==
      \A s \in Scope, v \in Version :
        /\ status[s][v] = "superseded" => status'[s][v] = "superseded"
        /\ status[s][v] = "active" => status'[s][v] \in {"active", "superseded"}
        /\ status[s][v] = "staged" => status'[s][v] \in {"staged", "active"}
<1>1. IInv /\ [Next]_vars => Forward
  <2> SUFFICES ASSUME IInv, [Next]_vars PROVE Forward
    OBVIOUS
  <2>1. ASSUME NEW w \in Worker, InsertStaged(w) PROVE Forward
    BY <2>1 DEF InsertStaged, IsFree, IInv, TypeOK
  <2>2. ASSUME NEW w \in Worker, ActivateCommit(w) PROVE Forward
    <3>1. \A r \in locked[w] : status[scope[w]][r] = "active"
      BY DEF IInv, LockedRowsActive
    <3>2. status[scope[w]][ver[w]] = "staged"
      BY <2>2 DEF IInv, OwnedRowsStaged, Owning, ActivateCommit, Repointed
    <3> QED
      BY <2>2, <3>1, <3>2, CommitEffect
  <2>3. CASE UNCHANGED status
    BY <2>3
  <2> QED
    BY <2>1, <2>2, <2>3 DEF Next, Advance, ReadActive, Keep, WriteAudit, NewAuditId,
       SelectMax, UniqueViolation, SupersedeBegin, SupersedeRow,
       DeadlockAbort, Fail, tables, vars
<1> QED
  BY <1>1, InvariantInit, InvariantStep, PTL DEF Spec, StatusMovesForward

(***************************************************************************)
(* The tables implement the abstract register: a commit publishes the      *)
(* worker's own version, every other step leaves what is published and the *)
(* pointer alone.                                                          *)
(***************************************************************************)
THEOREM RegisterImplemented == Spec => ImplementsRegister
<1> DEFINE published == [s \in Scope |-> {v \in Version : Activated(s, v)}]
<1>1. Init => Register!Init
  BY DEF Init, Register!Init, Activated
<1>2. IInv /\ [Next]_vars => [Register!Next]_<<published, pointer>>
  <2> SUFFICES ASSUME IInv, [Next]_vars
               PROVE  Register!Next \/ UNCHANGED <<published, pointer>>
    OBVIOUS
  <2>1. ASSUME NEW w \in Worker, InsertStaged(w)
        PROVE  UNCHANGED <<published, pointer>>
    <3>1. \A s \in Scope, v \in Version :
            Activated(s, v)' <=> Activated(s, v)
      BY <2>1 DEF InsertStaged, IsFree, IInv, TypeOK, Activated
    <3> QED
      BY <2>1, <3>1 DEF InsertStaged, IsFree
  <2>2. ASSUME NEW w \in Worker, ActivateCommit(w) PROVE Register!Next
    <3>1. \A r \in locked[w] : status[scope[w]][r] = "active"
      BY DEF IInv, LockedRowsActive
    <3>2. status[scope[w]][ver[w]] = "staged"
      BY <2>2 DEF IInv, OwnedRowsStaged, Owning, ActivateCommit, Repointed
    <3>3. PICK s \in Scope, v \in Version : s = scope[w] /\ v = ver[w]
      BY CommitEffect, <2>2
    <3>4. ~Activated(s, v)
      BY <3>2, <3>3 DEF Activated
    <3>5. \A t \in Scope, u \in Version :
            Activated(t, u)' <=> Activated(t, u) \/ (t = s /\ u = v)
      BY <2>2, <3>1, <3>3, CommitEffect DEF Activated
    <3>6. published' = [published EXCEPT ![s] = @ \cup {v}]
      BY <3>5
    <3>7. pointer' = [pointer EXCEPT ![s] = v]
      BY <2>2, <3>3, CommitEffect
    <3>8. v \notin published[s]
      BY <3>4
    <3> QED
      BY <3>6, <3>7, <3>8 DEF Register!Next, Register!Publish
  <2>3. CASE UNCHANGED <<status, pointer>>
    BY <2>3 DEF Activated
  <2> QED
    BY <2>1, <2>2, <2>3 DEF Next, Advance, ReadActive, Keep, WriteAudit, NewAuditId,
       SelectMax, UniqueViolation, SupersedeBegin, SupersedeRow,
       DeadlockAbort, Fail, tables, vars
<1> QED
  BY <1>1, <1>2, InvariantInit, InvariantStep, PTL
     DEF Spec, ImplementsRegister, Register!Spec
-----------------------------------------------------------------------------
(***************************************************************************)
(* Audit rows.  A bump holds the number of an audit row of its scope that  *)
(* no other bump holds, and until its INSERT no version refers to it.      *)
(***************************************************************************)
BumpsAudited ==
  \A w \in Worker : pc[w] \in Bumping =>
    audit[w] \in 1..Len(auditLog) /\ auditLog[audit[w]] = scope[w]

BumpAuditsDiffer ==
  \A u, w \in Worker :
    u # w /\ pc[u] \in Bumping /\ pc[w] \in Bumping => audit[u] # audit[w]

UnusedAudits ==
  \A w \in Worker : pc[w] \in {"audited", "selected"} =>
    \A s \in Scope : \A v \in Rows(s) : auditOf[s][v] # audit[w]

AuditInv == /\ EveryVersionAudited
            /\ BumpsAudited
            /\ BumpAuditsDiffer
            /\ UnusedAudits

(***************************************************************************)
(* Learning.  In a scope where no bump has overlapped another pass, a bump *)
(* is alone, the version it was computed from is the pointer's, and its    *)
(* number is above every row of the scope.                                 *)
(***************************************************************************)
RacesAreBumpRaces == racedActivation \subseteq racedBump

BumpsAlone ==
  \A w \in Worker : pc[w] \in Bumping /\ scope[w] \notin racedBump =>
    Others(w, scope[w]) = {}

FreshBasis ==
  \A w \in Worker : pc[w] # "idle" /\ scope[w] \notin racedBump =>
    basis[w] = pointer[scope[w]]

NumberAboveRows ==
  \A w \in Worker :
    scope[w] \notin racedBump =>
      /\ pc[w] = "selected" => \A r \in Rows(scope[w]) : r < ver[w]
      /\ Owning(w) => \A r \in Rows(scope[w]) : r <= ver[w]

LearnInv == /\ RacesAreBumpRaces
            /\ BumpsAlone
            /\ FreshBasis
            /\ NumberAboveRows
            /\ PointerIsNewest
            /\ LearningAccumulates

\* A step that inserts neither an audit row nor a version: bumps may end.
LEMMA AuditFrame ==
  ASSUME AuditInv,
         UNCHANGED <<auditOf, auditLog>>,
         \A s \in Scope : Rows(s)' = Rows(s),
         \A w \in Worker : pc'[w] \in Bumping =>
           /\ pc[w] \in Bumping
           /\ audit'[w] = audit[w] /\ scope'[w] = scope[w]
           /\ pc'[w] \in {"audited", "selected"} =>
                pc[w] \in {"audited", "selected"}
  PROVE  AuditInv'
<1> USE DEF AuditInv
<1>1. EveryVersionAudited'
  BY DEF EveryVersionAudited
<1>2. BumpsAudited'
  BY DEF BumpsAudited
<1>3. BumpAuditsDiffer'
  BY DEF BumpAuditsDiffer
<1>4. UnusedAudits'
  BY DEF UnusedAudits, Bumping
<1> QED
  BY <1>1, <1>2, <1>3, <1>4

\* A new audit row has the next number: no bump and no version has it.
LEMMA WriteAuditStep ==
  ASSUME TypeOK, AuditInv, NEW w \in Worker, WriteAudit(w)
  PROVE  AuditInv'
<1> USE DEF AuditInv
<1>1. /\ pc[w] = "decide" /\ pc'[w] = "audited" /\ scope[w] \in Scope
      /\ auditLog' = Append(auditLog, scope[w])
      /\ audit'[w] = Len(auditLog) + 1
      /\ \A u \in Worker \ {w} : pc'[u] = pc[u] /\ audit'[u] = audit[u]
      /\ UNCHANGED <<status, auditOf, scope>>
  BY DEF WriteAudit, NewAuditId, TypeOK
<1>2. /\ auditLog \in Seq(Scope) /\ Len(auditLog) \in Nat
      /\ Len(auditLog') = Len(auditLog) + 1
      /\ auditLog'[Len(auditLog) + 1] = scope[w]
      /\ \A i \in 1..Len(auditLog) : auditLog'[i] = auditLog[i]
  BY <1>1 DEF TypeOK
<1>3. \A s \in Scope : Rows(s)' = Rows(s)
  BY <1>1 DEF Rows
<1>4. EveryVersionAudited'
  BY <1>1, <1>2, <1>3 DEF EveryVersionAudited
<1>5. BumpsAudited'
  BY <1>1, <1>2 DEF BumpsAudited
<1>6. BumpAuditsDiffer'
  BY <1>1, <1>2 DEF BumpAuditsDiffer, BumpsAudited
<1>7. UnusedAudits'
  BY <1>1, <1>2, <1>3 DEF UnusedAudits, EveryVersionAudited
<1> QED
  BY <1>4, <1>5, <1>6, <1>7

\* What an INSERT adds to the rows of its scope, and only there.
LEMMA InsertEffect ==
  ASSUME TypeOK, NEW w \in Worker, InsertStaged(w)
  PROVE  /\ scope[w] \in Scope /\ ver[w] \in Version
         /\ ver[w] \notin Rows(scope[w])
         /\ \A s \in Scope : Rows(s)' = IF s = scope[w]
                                        THEN Rows(s) \cup {ver[w]} ELSE Rows(s)
         /\ \A s \in Scope, v \in Version :
              /\ Activated(s, v)' <=> Activated(s, v)
              /\ auditOf'[s][v] = IF s = scope[w] /\ v = ver[w]
                                  THEN audit[w] ELSE auditOf[s][v]
              /\ base'[s][v] = IF s = scope[w] /\ v = ver[w]
                               THEN basis[w] ELSE base[s][v]
  BY DEF InsertStaged, IsFree, TypeOK, Rows, Activated

\* The version takes the bump's audit number, which the bump no longer offers.
LEMMA InsertAuditStep ==
  ASSUME TypeOK, AuditInv, NEW w \in Worker, InsertStaged(w)
  PROVE  AuditInv'
<1> USE DEF AuditInv
<1>1. /\ pc[w] = "selected" /\ pc'[w] = "staged"
      /\ \A u \in Worker \ {w} : pc'[u] = pc[u]
      /\ UNCHANGED <<auditLog, scope, audit>>
  BY DEF InsertStaged, TypeOK, history
<1>2. /\ audit[w] \in 1..Len(auditLog) /\ auditLog[audit[w]] = scope[w]
      /\ \A s \in Scope : \A v \in Rows(s) : auditOf[s][v] # audit[w]
  BY <1>1 DEF BumpsAudited, UnusedAudits, Bumping
<1>3. \A s \in Scope : Rows(s) \subseteq Version
  BY DEF Rows
<1>4. EveryVersionAudited'
  BY <1>1, <1>2, <1>3, InsertEffect DEF EveryVersionAudited
<1>5. BumpsAudited' /\ BumpAuditsDiffer'
  BY <1>1 DEF BumpsAudited, BumpAuditsDiffer, Bumping
<1>6. UnusedAudits'
  <2> SUFFICES ASSUME NEW u \in Worker \ {w}, pc[u] \in {"audited", "selected"},
                      NEW s \in Scope, NEW v \in Rows(s)'
               PROVE  auditOf'[s][v] # audit[u]
    BY <1>1 DEF UnusedAudits
  <2>1. audit[u] # audit[w]
    BY <1>1 DEF BumpAuditsDiffer, Bumping
  <2> QED
    BY <1>3, <2>1, InsertEffect DEF UnusedAudits
<1> QED
  BY <1>4, <1>5, <1>6

\* The audit invariant is inductive, given the one above.
LEMMA AuditStep == IInv /\ AuditInv /\ [Next]_vars => AuditInv'
<1> SUFFICES ASSUME IInv, AuditInv, [Next]_vars PROVE AuditInv'
  OBVIOUS
<1>1. TypeOK
  BY DEF IInv
<1>2. ASSUME NEW w \in Worker, WriteAudit(w) PROVE AuditInv'
  BY <1>1, <1>2, WriteAuditStep
<1>3. ASSUME NEW w \in Worker, InsertStaged(w) PROVE AuditInv'
  BY <1>1, <1>3, InsertAuditStep
<1>4. ASSUME NEW w \in Worker, ActivateCommit(w) PROVE AuditInv'
  <2>1. \A s \in Scope : Rows(s)' = Rows(s)
    <3>1. status[scope[w]][ver[w]] = "staged"
      BY <1>4 DEF IInv, OwnedRowsStaged, Owning, ActivateCommit
    <3>2. locked[w] \subseteq Rows(scope[w])
      BY <1>4, CommitEffect DEF Active, Rows
    <3> QED
      BY <1>4, <3>1, <3>2, CommitEffect DEF Rows
  <2> QED
    BY <1>1, <1>4, <2>1, FinishType, AuditFrame DEF ActivateCommit, Bumping
<1>5. ASSUME NEW w \in Worker, Finish(w), UNCHANGED tables PROVE AuditInv'
  <2>1. \A s \in Scope : Rows(s)' = Rows(s)
    BY <1>5 DEF Rows, tables
  <2> QED
    BY <1>1, <1>5, <2>1, FinishType, AuditFrame DEF Bumping, tables
<1>6. ASSUME NEW w \in Worker,
             \/ \E s \in Scope : ReadActive(w, s)
             \/ SelectMax(w) \/ SupersedeBegin(w)
             \/ \E r \in Version : SupersedeRow(w, r)
      PROVE  AuditInv'
  <2>1. /\ UNCHANGED tables
        /\ \A u \in Worker \ {w} : pc'[u] = pc[u] /\ scope'[u] = scope[u]
                                   /\ audit'[u] = audit[u]
    BY <1>1, <1>6 DEF ReadActive, SelectMax, SupersedeBegin, SupersedeRow,
                      tables, TypeOK
  <2>2. pc'[w] \in Bumping =>
           /\ pc[w] \in Bumping
           /\ audit'[w] = audit[w] /\ scope'[w] = scope[w]
           /\ pc'[w] \in {"audited", "selected"} =>
                pc[w] \in {"audited", "selected"}
    BY <1>1, <1>6 DEF ReadActive, SelectMax, SupersedeBegin, SupersedeRow,
                      tables, TypeOK, Bumping
  <2>3. \A s \in Scope : Rows(s)' = Rows(s)
    BY <2>1 DEF Rows, tables
  <2> QED
    BY <2>1, <2>2, <2>3, AuditFrame DEF tables
<1>7. CASE UNCHANGED vars
  <2>1. \A s \in Scope : Rows(s)' = Rows(s)
    BY <1>7 DEF vars, Rows
  <2> QED
    BY <1>7, <2>1, AuditFrame DEF vars
<1> QED
  BY <1>2, <1>3, <1>4, <1>5, <1>6, <1>7
     DEF Next, Advance, Keep, UniqueViolation, DeadlockAbort, Fail

\* Every version ever written refers to an audit row of its scope, committed
\* before it and its own, however many bumps overlap or fail half way.
THEOREM EveryVersionAuditedHolds == Spec => []EveryVersionAudited
<1>1. Init => AuditInv
  BY DEF Init, AuditInv, EveryVersionAudited, BumpsAudited, BumpAuditsDiffer,
         UnusedAudits, Rows, Bumping
<1>2. AuditInv => EveryVersionAudited
  BY DEF AuditInv
<1> QED
  BY <1>1, <1>2, AuditStep, InvariantInit, InvariantStep, PTL DEF Spec

-----------------------------------------------------------------------------
\* A step that changes no row and no pointer keeps what is said of them.
LEMMA TablesFrame ==
  ASSUME TypeOK, PointerIsNewest, LearningAccumulates,
         UNCHANGED <<base, pointer>>, racedBump \subseteq racedBump',
         \A s \in Scope : /\ Rows(s)' = Rows(s)
                          /\ \A v \in Version : Activated(s, v)' <=> Activated(s, v)
  PROVE  PointerIsNewest' /\ LearningAccumulates'
<1>1. PointerIsNewest'
  BY DEF PointerIsNewest
<1>2. ASSUME NEW s \in Scope \ racedBump', NEW v \in Rows(s)
      PROVE  NewestActivatedBefore(s, v, base[s][v])'
  <2>1. v \in Version /\ base[s][v] \in Version \cup {0}
    BY DEF Rows, TypeOK
  <2>2. NewestActivatedBefore(s, v, base[s][v])
    BY <1>2 DEF LearningAccumulates
  <2>3. (base[s][v] + 1)..(v - 1) \subseteq Version
    BY <2>1, MaxAuditAssumption DEF Version
  <2> QED
    BY <1>2, <2>1, <2>2, <2>3 DEF NewestActivatedBefore
<1> QED
  BY <1>1, <1>2 DEF LearningAccumulates

\* Such a step that starts no bump and no pass, either: passes may end, and
\* a bump that advances keeps what it knows.
LEMMA LearnFrame ==
  ASSUME TypeOK, LearnInv,
         UNCHANGED <<base, pointer, racedBump>>,
         racedActivation' \subseteq racedBump,
         \A s \in Scope : /\ Rows(s)' = Rows(s)
                          /\ \A v \in Version : Activated(s, v)' <=> Activated(s, v),
         \A w \in Worker :
           \/ pc'[w] = "idle" /\ scope'[w] = NoScope
           \/ /\ pc[w] # "idle" /\ scope[w] \in Scope
              /\ scope'[w] = scope[w] /\ basis'[w] = basis[w]
              /\ pc'[w] \in Bumping => pc[w] \in Bumping
              /\ pc'[w] = "selected" =>
                   \/ pc[w] = "selected" /\ ver'[w] = ver[w]
                   \/ \A r \in Rows(scope[w]) : r < ver'[w]
              /\ Owning(w)' => Owning(w) /\ ver'[w] = ver[w]
  PROVE  LearnInv'
<1> USE DEF LearnInv
<1>1. RacesAreBumpRaces'
  BY DEF RacesAreBumpRaces
<1>2. BumpsAlone'
  BY NoScopeAssumption DEF BumpsAlone, Others, Bumping
<1>3. FreshBasis'
  BY DEF FreshBasis
<1>4. NumberAboveRows'
  BY DEF NumberAboveRows, Owning
<1>5. PointerIsNewest' /\ LearningAccumulates'
  BY TablesFrame
<1> QED
  BY <1>1, <1>2, <1>3, <1>4, <1>5

\* A pass reads the pointer's version, the only active one, unless a bump of
\* the scope is under way: then the scope counts as raced.
LEMMA ReadActiveLearnStep ==
  ASSUME IInv, LearnInv, NEW w \in Worker, NEW s \in Scope, ReadActive(w, s)
  PROVE  LearnInv'
<1> USE DEF LearnInv
<1>1. /\ TypeOK /\ pc[w] = "idle" /\ scope[w] = NoScope
      /\ pc'[w] = "decide" /\ scope'[w] = s
      /\ \A u \in Worker \ {w} :
           pc'[u] = pc[u] /\ scope'[u] = scope[u] /\ basis'[u] = basis[u]
      /\ basis'[w] \in IF Active(s) = {} THEN {0} ELSE Active(s)
      /\ UNCHANGED <<status, base, pointer, ver, racedActivation>>
      /\ racedBump \subseteq racedBump'
  BY DEF ReadActive, IInv, TypeOK, tables
<1>2. RacesAreBumpRaces'
  BY <1>1 DEF RacesAreBumpRaces
<1>3. BumpsAlone'
  <2> SUFFICES ASSUME NEW u \in Worker \ {w}, pc[u] \in Bumping,
                      scope[u] \notin racedBump'
               PROVE  Others(u, scope[u])' = {}
    BY <1>1 DEF BumpsAlone, Bumping
  <2>1. scope[u] # s
    BY DEF ReadActive, Others
  <2> QED
    BY <1>1, <2>1 DEF BumpsAlone, Others
<1>4. FreshBasis'
  <2>1. s \notin racedBump' => basis'[w] = pointer[s]
    BY <1>1 DEF IInv, SoleActive, RacesAreBumpRaces
  <2> QED
    BY <1>1, <2>1 DEF FreshBasis
<1>5. \A x \in Scope : /\ Rows(x)' = Rows(x)
                       /\ \A v \in Version : Activated(x, v)' <=> Activated(x, v)
  BY <1>1 DEF Rows, Activated
<1>6. NumberAboveRows'
  <2> SUFFICES ASSUME NEW u \in Worker \ {w}, scope[u] \notin racedBump'
               PROVE  /\ pc[u] = "selected" => \A r \in Rows(scope[u])' : r < ver[u]
                      /\ Owning(u) => \A r \in Rows(scope[u])' : r <= ver[u]
    BY <1>1 DEF NumberAboveRows, Owning
  <2>1. pc[u] # "idle" => scope[u] \in Scope
    BY <1>1 DEF TypeOK
  <2> QED
    BY <1>1, <1>5, <2>1 DEF NumberAboveRows, Owning
<1>7. PointerIsNewest' /\ LearningAccumulates'
  BY <1>1, <1>5, TablesFrame
<1> QED
  BY <1>2, <1>3, <1>4, <1>6, <1>7

\* A bump begins alone in its scope, or the scope counts as raced.
LEMMA WriteAuditLearnStep ==
  ASSUME IInv, LearnInv, NEW w \in Worker, WriteAudit(w)
  PROVE  LearnInv'
<1> USE DEF LearnInv
<1>1. /\ TypeOK /\ pc[w] = "decide" /\ pc'[w] = "audited" /\ scope[w] \in Scope
      /\ \A u \in Worker \ {w} : pc'[u] = pc[u]
      /\ UNCHANGED <<status, base, pointer, ver, racedActivation, scope, basis>>
      /\ racedBump \subseteq racedBump'
      /\ scope[w] \notin racedBump' => Others(w, scope[w]) = {}
  BY DEF WriteAudit, IInv, TypeOK
<1>2. RacesAreBumpRaces'
  BY <1>1 DEF RacesAreBumpRaces
<1>3. BumpsAlone'
  BY <1>1 DEF BumpsAlone, Others
<1>4. FreshBasis'
  BY <1>1 DEF FreshBasis
<1>5. NumberAboveRows'
  BY <1>1 DEF NumberAboveRows, Owning, Rows
<1>6. \A x \in Scope : /\ Rows(x)' = Rows(x)
                       /\ \A v \in Version : Activated(x, v)' <=> Activated(x, v)
  BY <1>1 DEF Rows, Activated
<1>7. PointerIsNewest' /\ LearningAccumulates'
  BY <1>1, <1>6, TablesFrame
<1> QED
  BY <1>2, <1>3, <1>4, <1>5, <1>7

\* A version is staged above every row, computed from the pointer's version.
LEMMA InsertLearnStep ==
  ASSUME IInv, LearnInv, NEW w \in Worker, InsertStaged(w)
  PROVE  LearnInv'
<1> USE DEF LearnInv
<1> DEFINE s == scope[w]
           v == ver[w]
<1>1. /\ TypeOK /\ pc[w] = "selected" /\ pc'[w] = "staged"
      /\ \A u \in Worker \ {w} : pc'[u] = pc[u]
      /\ UNCHANGED <<pointer, ver, scope, basis, racedBump, racedActivation>>
  BY DEF InsertStaged, IInv, TypeOK, history
<1>2. \A x \in Scope : Rows(x) \subseteq Version
  BY DEF Rows
<1>3. RacesAreBumpRaces' /\ FreshBasis'
  BY <1>1 DEF RacesAreBumpRaces, FreshBasis
<1>4. BumpsAlone'
  BY <1>1 DEF BumpsAlone, Others, Bumping
<1>5. NumberAboveRows'
  <2>1. \A u \in Worker \ {w} : pc[u] \in Bumping /\ scope[u] \notin racedBump
                                  => scope[u] # s
    BY <1>1 DEF BumpsAlone, Others, Bumping
  <2>2. ASSUME NEW u \in Worker, scope[u] \notin racedBump, pc'[u] = "selected"
        PROVE  \A r \in Rows(scope[u])' : r < ver[u]
    <3>1. u # w /\ scope[u] # s /\ scope[u] \in Scope
      BY <1>1, <2>1, <2>2 DEF Bumping, TypeOK
    <3> QED
      BY <1>1, <2>2, <3>1, InsertEffect DEF NumberAboveRows
  <2>3. ASSUME NEW u \in Worker, scope[u] \notin racedBump, Owning(u)'
        PROVE  \A r \in Rows(scope[u])' : r <= ver[u]
    <3>1. CASE u = w
      BY <1>1, <1>2, <2>3, <3>1, InsertEffect, MaxAuditAssumption
         DEF NumberAboveRows, Version
    <3>2. CASE u # w
      <4>1. Owning(u) /\ scope[u] # s /\ scope[u] \in Scope
        BY <1>1, <2>1, <2>3, <3>2 DEF Bumping, TypeOK, Owning
      <4> QED
        BY <1>1, <2>3, <4>1, InsertEffect DEF NumberAboveRows
    <3> QED
      BY <3>1, <3>2
  <2> QED
    BY <1>1, <2>2, <2>3 DEF NumberAboveRows
<1>6. PointerIsNewest'
  BY <1>1, InsertEffect DEF PointerIsNewest
<1>7. LearningAccumulates'
  <2> SUFFICES ASSUME NEW x \in Scope \ racedBump, NEW r \in Rows(x)'
               PROVE  NewestActivatedBefore(x, r, base[x][r])'
    BY <1>1 DEF LearningAccumulates
  <2>0. TypeOK'
    BY TypeStep DEF IInv, Next, Advance
  <2>1. /\ r \in Version /\ r \in Nat
        /\ base'[x][r] \in Version \cup {0}
        /\ base'[x][r] \in Nat
    BY <2>0, MaxAuditAssumption DEF TypeOK, Rows, Version
  <2>2. \A u \in (base'[x][r] + 1)..(r - 1) : u \in Version
    BY <2>1, MaxAuditAssumption DEF Version
  <2>3. CASE x = s /\ r = v
    <3>1. base'[x][r] = pointer[x]
      BY <1>1, <2>3, InsertEffect DEF FreshBasis
    <3>2. pointer[x] # 0 => pointer[x] \in Active(x) /\ pointer[x] \in Rows(x)
      BY <2>3 DEF IInv, PointerNamesActive, Active, Rows
    <3>3. pointer[x] # 0 => pointer[x] < r /\ Activated(x, pointer[x])
      BY <1>1, <2>3, <3>2 DEF NumberAboveRows, Active, Activated
    <3>4. \A u \in (pointer[x] + 1)..(r - 1) : u \in Version => ~Activated(x, u)
      BY <2>1, <2>3, <3>1 DEF PointerIsNewest
    <3>5. \A u \in (pointer[x] + 1)..(r - 1) : ~Activated(x, u)'
      BY <1>1, <2>2, <2>3, <3>1, <3>4, InsertEffect
    <3>6. pointer[x] # 0 => Activated(x, pointer[x])'
      BY <1>1, <2>1, <3>1, <3>3, InsertEffect
    <3> QED
      BY <1>1, <2>3, <3>1, <3>3, <3>5, <3>6 DEF NewestActivatedBefore
  <2>4. CASE ~(x = s /\ r = v)
    <3>1. r \in Rows(x) /\ base'[x][r] = base[x][r]
      BY <1>1, <2>1, <2>4, InsertEffect
    <3>2. NewestActivatedBefore(x, r, base[x][r])
      BY <3>1 DEF LearningAccumulates
    <3>3. \A u \in (base[x][r] + 1)..(r - 1) : ~Activated(x, u)'
      BY <1>1, <2>2, <3>1, <3>2, InsertEffect DEF NewestActivatedBefore
    <3>4. base[x][r] # 0 => Activated(x, base[x][r])'
      BY <1>1, <2>1, <3>1, <3>2, InsertEffect DEF NewestActivatedBefore
    <3> QED
      BY <2>1, <3>1, <3>2, <3>3, <3>4 DEF NewestActivatedBefore
  <2> QED
    BY <2>3, <2>4
<1> QED
  BY <1>3, <1>4, <1>5, <1>6, <1>7

\* A commit changes the status of rows of its scope only, and adds no row.
LEMMA CommitRows ==
  ASSUME IInv, NEW w \in Worker, ActivateCommit(w)
  PROVE  \A s \in Scope :
           /\ Rows(s)' = Rows(s)
           /\ \A v \in Version :
                Activated(s, v)' <=>
                  Activated(s, v) \/ (s = scope[w] /\ v = ver[w])
<1>1. status[scope[w]][ver[w]] = "staged"
  BY DEF IInv, OwnedRowsStaged, Owning, ActivateCommit
<1>2. locked[w] \subseteq Active(scope[w])
  BY CommitEffect
<1> QED
  BY <1>1, <1>2, CommitEffect DEF Rows, Active, Activated

\* A bump that was alone activates the highest number of its scope.
LEMMA CommitLearnStep ==
  ASSUME IInv, LearnInv, NEW w \in Worker, ActivateCommit(w)
  PROVE  LearnInv'
<1> USE DEF LearnInv
<1> DEFINE s == scope[w]
           v == ver[w]
<1>1. /\ TypeOK /\ pc[w] = "superseding" /\ Finish(w)
      /\ UNCHANGED <<base, racedBump, racedActivation>>
  BY DEF ActivateCommit, IInv, history
<1>2. /\ pc'[w] = "idle" /\ scope'[w] = NoScope
      /\ \A u \in Worker \ {w} : /\ pc'[u] = pc[u] /\ scope'[u] = scope[u]
                                 /\ basis'[u] = basis[u] /\ ver'[u] = ver[u]
  BY <1>1, FinishType
<1>3. s \notin racedBump =>
        /\ \A u \in Worker \ {w} : scope[u] # s
        /\ \A r \in Rows(s) : r <= v
  BY <1>1 DEF BumpsAlone, Others, Bumping, NumberAboveRows, Owning
<1>4. RacesAreBumpRaces'
  BY <1>1 DEF RacesAreBumpRaces
<1>5. BumpsAlone'
  BY <1>1, <1>2, NoScopeAssumption DEF BumpsAlone, Others, Bumping, TypeOK
<1>6. FreshBasis'
  <2> SUFFICES ASSUME NEW u \in Worker \ {w}, pc[u] # "idle",
                      scope[u] \notin racedBump
               PROVE  basis[u] = pointer'[scope[u]]
    BY <1>1, <1>2 DEF FreshBasis
  <2>1. scope[u] # s /\ scope[u] \in Scope
    BY <1>1, <1>3 DEF TypeOK
  <2> QED
    BY <2>1, <1>1, CommitEffect DEF FreshBasis, TypeOK
<1>7. NumberAboveRows'
  <2>1. \A u \in Worker : pc[u] # "idle" => scope[u] \in Scope
    BY <1>1 DEF TypeOK
  <2> QED
    BY <1>1, <1>2, <2>1, CommitRows DEF NumberAboveRows, Owning
<1>8. PointerIsNewest'
  <2> SUFFICES ASSUME NEW x \in Scope \ racedBump, NEW r \in Version,
                      Activated(x, r)'
               PROVE  r <= pointer'[x]
    BY <1>1 DEF PointerIsNewest
  <2>1. CASE x = s
    <3>1. r \in Rows(s) /\ pointer'[x] = v
      BY <1>1, <2>1, CommitRows, CommitEffect DEF Rows, Activated, TypeOK
    <3> QED
      BY <1>3, <2>1, <3>1
  <2>2. CASE x # s
    BY <1>1, <2>2, CommitRows, CommitEffect DEF PointerIsNewest, TypeOK
  <2> QED
    BY <2>1, <2>2
<1>9. LearningAccumulates'
  <2> SUFFICES ASSUME NEW x \in Scope \ racedBump, NEW r \in Rows(x)
               PROVE  NewestActivatedBefore(x, r, base[x][r])'
    BY <1>1, CommitRows DEF LearningAccumulates
  <2>1. r \in Version /\ base[x][r] \in Version \cup {0}
    BY <1>1 DEF Rows, TypeOK
  <2>2. NewestActivatedBefore(x, r, base[x][r])
    BY DEF LearningAccumulates
  <2>3. \A u \in (base[x][r] + 1)..(r - 1) : u \in Version /\ (x = s => u # v)
    BY <1>3, <2>1, MaxAuditAssumption, CommitEffect DEF Version
  <2> QED
    BY <1>1, <2>1, <2>2, <2>3, CommitRows DEF NewestActivatedBefore
<1> QED
  BY <1>4, <1>5, <1>6, <1>7, <1>8, <1>9

\* The learning invariant is inductive, given the first one.
LEMMA LearnStep == IInv /\ LearnInv /\ [Next]_vars => LearnInv'
<1> SUFFICES ASSUME IInv, LearnInv, [Next]_vars PROVE LearnInv'
  OBVIOUS
<1>1. TypeOK /\ RacesAreBumpRaces
  BY DEF IInv, LearnInv
<1>2. ASSUME UNCHANGED status
      PROVE  \A s \in Scope :
               /\ Rows(s)' = Rows(s)
               /\ \A v \in Version : Activated(s, v)' <=> Activated(s, v)
  BY <1>2 DEF Rows, Activated
<1>3. \A u \in Worker : pc[u] # "idle" => scope[u] \in Scope
  BY <1>1 DEF TypeOK
<1>4. ASSUME NEW w \in Worker, NEW s \in Scope, ReadActive(w, s) PROVE LearnInv'
  BY <1>4, ReadActiveLearnStep
<1>5. ASSUME NEW w \in Worker, WriteAudit(w) PROVE LearnInv'
  BY <1>5, WriteAuditLearnStep
<1>6. ASSUME NEW w \in Worker, InsertStaged(w) PROVE LearnInv'
  BY <1>6, InsertLearnStep
<1>7. ASSUME NEW w \in Worker, ActivateCommit(w) PROVE LearnInv'
  BY <1>7, CommitLearnStep
<1>8. ASSUME NEW w \in Worker, SelectMax(w) PROVE LearnInv'
  <2>1. /\ UNCHANGED <<status, base, pointer, scope, basis, history>>
        /\ pc[w] = "audited" /\ pc'[w] = "selected"
        /\ \A r \in Rows(scope[w]) : r < ver'[w]
        /\ \A u \in Worker \ {w} : pc'[u] = pc[u] /\ ver'[u] = ver[u]
    BY <1>1, <1>8 DEF SelectMax, IsNextVersion, TypeOK, tables
  <2>2. ASSUME NEW u \in Worker
        PROVE  \/ pc'[u] = "idle" /\ scope'[u] = NoScope
               \/ /\ pc[u] # "idle" /\ scope[u] \in Scope
                  /\ scope'[u] = scope[u] /\ basis'[u] = basis[u]
                  /\ pc'[u] \in Bumping => pc[u] \in Bumping
                  /\ pc'[u] = "selected" =>
                       \/ pc[u] = "selected" /\ ver'[u] = ver[u]
                       \/ \A r \in Rows(scope[u]) : r < ver'[u]
                  /\ Owning(u)' => Owning(u) /\ ver'[u] = ver[u]
    <3>1. CASE u = w
      BY <1>3, <2>1, <3>1 DEF Bumping, Owning
    <3>2. CASE u # w
      <4>1. \/ pc[u] = "idle" /\ scope[u] = NoScope
            \/ pc[u] # "idle" /\ scope[u] \in Scope
        BY <1>1 DEF TypeOK
      <4> QED
        BY <2>1, <3>2, <4>1 DEF Owning
    <3> QED
      BY <3>1, <3>2
  <2>3. racedActivation' \subseteq racedBump /\ UNCHANGED racedBump
    BY <1>1, <2>1 DEF history, RacesAreBumpRaces
  <2> QED
    BY <1>1, <1>2, <2>1, <2>2, <2>3, LearnFrame
<1>9. ASSUME NEW w \in Worker, SupersedeBegin(w) PROVE LearnInv'
  <2>1. /\ UNCHANGED <<status, base, pointer, scope, basis, ver, racedBump>>
        /\ pc[w] = "staged" /\ pc'[w] = "superseding"
        /\ \A u \in Worker \ {w} : pc'[u] = pc[u]
    BY <1>1, <1>9 DEF SupersedeBegin, TypeOK, tables
  <2>2. racedActivation' \subseteq racedBump
    <3>1. ASSUME NEW u \in Others(w, scope[w]) PROVE scope[w] \in racedBump
      BY <2>1 DEF LearnInv, BumpsAlone, Bumping
    <3> QED
      BY <1>1, <1>9, <3>1 DEF SupersedeBegin, RacesAreBumpRaces
  <2>3. \A u \in Worker : \/ pc[u] = "idle" /\ scope[u] = NoScope
                          \/ pc[u] # "idle" /\ scope[u] \in Scope
    BY <1>1 DEF TypeOK
  <2> QED
    BY <1>1, <1>2, <2>1, <2>2, <2>3, LearnFrame DEF Owning, Bumping
<1>10. ASSUME NEW w \in Worker, NEW r \in Version, SupersedeRow(w, r)
       PROVE  LearnInv'
  <2>1. UNCHANGED <<status, base, pointer, scope, basis, ver, pc, history>>
    BY <1>10 DEF SupersedeRow, tables
  <2>2. \A u \in Worker : \/ pc[u] = "idle" /\ scope[u] = NoScope
                          \/ pc[u] # "idle" /\ scope[u] \in Scope
    BY <1>1 DEF TypeOK
  <2> QED
    BY <1>1, <1>2, <2>1, <2>2, LearnFrame DEF Owning, history, RacesAreBumpRaces
<1>11. ASSUME NEW w \in Worker, Finish(w), UNCHANGED <<tables, history>>
       PROVE  LearnInv'
  <2>1. \A u \in Worker : \/ pc[u] = "idle" /\ scope[u] = NoScope
                          \/ pc[u] # "idle" /\ scope[u] \in Scope
    BY <1>1 DEF TypeOK
  <2>2. ASSUME NEW u \in Worker
        PROVE  \/ pc'[u] = "idle" /\ scope'[u] = NoScope
               \/ /\ pc[u] # "idle" /\ scope[u] \in Scope
                  /\ pc'[u] = pc[u] /\ scope'[u] = scope[u]
                  /\ basis'[u] = basis[u] /\ ver'[u] = ver[u]
    BY <1>1, <1>11, <2>1, FinishType
  <2> QED
    BY <1>1, <1>2, <1>11, <2>2, LearnFrame
       DEF tables, history, Owning, RacesAreBumpRaces
<1>12. CASE UNCHANGED vars
  <2>1. \A u \in Worker : \/ pc[u] = "idle" /\ scope[u] = NoScope
                          \/ pc[u] # "idle" /\ scope[u] \in Scope
    BY <1>1 DEF TypeOK
  <2> QED
    BY <1>1, <1>2, <1>12, <2>1, LearnFrame DEF vars, Owning, RacesAreBumpRaces
<1> QED
  BY <1>4, <1>5, <1>6, <1>7, <1>8, <1>9, <1>10, <1>11, <1>12
     DEF Next, Advance, Keep, UniqueViolation, DeadlockAbort, Fail

\* It holds of the empty tables.
LEMMA LearnInit == Init => LearnInv
  BY DEF Init, LearnInv, RacesAreBumpRaces, BumpsAlone, FreshBasis,
         NumberAboveRows, PointerIsNewest, LearningAccumulates, Rows,
         Activated, Bumping, Owning

\* While no bump of a scope has overlapped another pass, every version was
\* computed from the newest version activated before it.
THEOREM LearningAccumulatesHolds == Spec => []LearningAccumulates
<1>1. LearnInv => LearningAccumulates
  BY DEF LearnInv
<1> QED
  BY <1>1, LearnInit, LearnStep, InvariantInit, InvariantStep, PTL DEF Spec

\* Nor does activation go back to an older version in such a scope.
THEOREM PointerIsNewestHolds == Spec => []PointerIsNewest
<1>1. LearnInv => PointerIsNewest
  BY DEF LearnInv
<1> QED
  BY <1>1, LearnInit, LearnStep, InvariantInit, InvariantStep, PTL DEF Spec

-----------------------------------------------------------------------------
(***************************************************************************)
(* Overlap is the whole of the exceptions: where the passes of each scope  *)
(* come one after the other, as under a lock per scope, the version the    *)
(* pointer names is the only active one, is the newest, and each version   *)
(* was computed from the one before it, whatever fails half way.           *)
(***************************************************************************)
OnePassPerScope ==
  \A u, w \in Worker : u # w /\ scope[u] # NoScope => scope[u] # scope[w]

ExactPolicies ==
  \A s \in Scope :
    /\ Active(s) = IF pointer[s] = 0 THEN {} ELSE {pointer[s]}
    /\ \A v \in Version : Activated(s, v) => v <= pointer[s]
    /\ \A v \in Rows(s) : NewestActivatedBefore(s, v, base[s][v])

NoRaces == racedBump = {} /\ racedActivation = {}

LEMMA NoRacesStep ==
  ASSUME TypeOK, NoRaces, OnePassPerScope, OnePassPerScope', [Next]_vars
  PROVE  NoRaces'
<1>1. ASSUME NEW w \in Worker, NEW s \in Scope, ReadActive(w, s) PROVE NoRaces'
  <2>1. /\ scope' = [scope EXCEPT ![w] = s] /\ racedActivation' = racedActivation
        /\ racedBump' = IF \E u \in Others(w, s) : pc[u] \in Bumping
                        THEN racedBump \cup {s} ELSE racedBump
    BY <1>1 DEF ReadActive
  <2>2. Others(w, s) = {}
    <3> SUFFICES ASSUME NEW u \in Worker \ {w}, scope[u] = s PROVE FALSE
      BY DEF Others
    <3>1. scope'[u] = s /\ scope'[w] = s /\ s # NoScope
      BY <2>1, NoScopeAssumption DEF TypeOK
    <3> QED
      BY <3>1 DEF OnePassPerScope
  <2> QED
    BY <2>1, <2>2 DEF NoRaces
<1>2. ASSUME NEW w \in Worker, pc[w] # "idle" PROVE Others(w, scope[w]) = {}
  BY <1>2 DEF Others, OnePassPerScope, TypeOK
<1>3. ASSUME NEW w \in Worker, WriteAudit(w) PROVE NoRaces'
  BY <1>2, <1>3 DEF WriteAudit, NoRaces
<1>4. ASSUME NEW w \in Worker, SupersedeBegin(w) PROVE NoRaces'
  BY <1>2, <1>4 DEF SupersedeBegin, NoRaces
<1>5. CASE UNCHANGED history
  BY <1>5 DEF history, NoRaces
<1> QED
  BY <1>1, <1>3, <1>4, <1>5
     DEF Next, Advance, Keep, SelectMax, InsertStaged, UniqueViolation,
         SupersedeRow, ActivateCommit, DeadlockAbort, Fail, vars, history

THEOREM SerializedPassesAreExact == Spec /\ []OnePassPerScope => []ExactPolicies
<1>1. Init => NoRaces
  BY DEF Init, NoRaces
<1>2. /\ TypeOK /\ NoRaces /\ OnePassPerScope /\ OnePassPerScope' /\ [Next]_vars
      => NoRaces'
  BY NoRacesStep
<1>3. NoRaces /\ SoleActive /\ PointerIsNewest /\ LearningAccumulates
      => ExactPolicies
  BY DEF NoRaces, SoleActive, PointerIsNewest, LearningAccumulates, ExactPolicies
<1> QED
  BY <1>1, <1>2, <1>3, TypeInvariant, SoleActiveHolds, PointerIsNewestHolds,
     LearningAccumulatesHolds, PTL DEF Spec

-----------------------------------------------------------------------------
(***************************************************************************)
(* Deadlocks.  A pass waits for no row that it has locked itself, so in a  *)
(* circle of passes two rows are locked, and both are active: a deadlock   *)
(* takes a scope in which an earlier race has left two active versions.    *)
(***************************************************************************)
Circle(c) == \A u \in c : /\ Blocked(u)
                          /\ \E x \in Others(u, scope[u]) \cap c :
                               pending[u] \cap locked[x] # {}

DeadlockTakesRace ==
  \A c \in SUBSET Worker : Circle(c) =>
    \A u \in c : /\ scope[u] \in racedActivation
                 /\ \E v, r \in Active(scope[u]) : v # r

PendingUnlocked == \A w \in Worker : pending[w] \cap locked[w] = {}

LEMMA PendingStep ==
  ASSUME TypeOK, PendingUnlocked, [Next]_vars PROVE PendingUnlocked'
<1>1. ASSUME NEW w \in Worker, Finish(w) PROVE PendingUnlocked'
  BY <1>1 DEF Finish, RolledBack, PendingUnlocked, TypeOK
<1>2. ASSUME NEW w \in Worker, SupersedeBegin(w) PROVE PendingUnlocked'
  <2>1. locked' = locked /\ locked[w] = {}
    BY <1>2 DEF SupersedeBegin, TypeOK
  <2> QED
    BY <1>2, <2>1 DEF SupersedeBegin, PendingUnlocked, TypeOK
<1>3. ASSUME NEW w \in Worker, NEW r \in Version, SupersedeRow(w, r)
      PROVE  PendingUnlocked'
  BY <1>3 DEF SupersedeRow, PendingUnlocked, TypeOK
<1>4. CASE UNCHANGED <<pending, locked>>
  BY <1>4 DEF PendingUnlocked
<1> QED
  BY <1>1, <1>2, <1>3, <1>4
     DEF Next, Advance, ReadActive, Keep, WriteAudit, SelectMax, InsertStaged,
         UniqueViolation, ActivateCommit, DeadlockAbort, Fail, vars

THEOREM DeadlockTakesRaceHolds == Spec => []DeadlockTakesRace
<1>1. Init => PendingUnlocked
  BY DEF Init, PendingUnlocked
<1>2. TypeOK /\ PendingUnlocked /\ [Next]_vars => PendingUnlocked'
  BY PendingStep
<1>3. IInv /\ PendingUnlocked => DeadlockTakesRace
  <2> SUFFICES ASSUME IInv, PendingUnlocked, NEW c \in SUBSET Worker, Circle(c),
                      NEW u \in c
               PROVE  /\ scope[u] \in racedActivation
                      /\ \E v, r \in Active(scope[u]) : v # r
    BY DEF DeadlockTakesRace
  <2>1. PICK x \in Others(u, scope[u]) \cap c : pending[u] \cap locked[x] # {}
    BY DEF Circle
  <2>2. PICK y \in Others(x, scope[x]) \cap c : pending[x] \cap locked[y] # {}
    BY <2>1 DEF Circle
  <2>3. /\ scope[x] = scope[u] /\ scope[y] = scope[u]
        /\ pc[x] = "superseding" /\ pc[u] = "superseding"
    BY <2>1, <2>2 DEF Others, Circle, Blocked
  <2>4. PICK r \in locked[x], v \in locked[y] : v \in pending[x]
    BY <2>1, <2>2
  <2>5. r # v
    BY <2>4 DEF PendingUnlocked
  <2>6. r \in Active(scope[u]) /\ v \in Active(scope[u])
    BY <2>2, <2>3, <2>4 DEF IInv, LockedRowsActive, Active, TypeOK
  <2>7. scope[u] \in Scope
    BY <2>3 DEF IInv, TypeOK
  <2>8. scope[u] \in racedActivation
    <3> SUFFICES ASSUME scope[u] \notin racedActivation PROVE FALSE
      OBVIOUS
    <3>1. Active(scope[u]) \subseteq {pointer[scope[u]]}
      BY <2>7 DEF IInv, SoleActive
    <3> QED
      BY <2>5, <2>6, <3>1
  <2> QED
    BY <2>5, <2>6, <2>8
<1> QED
  BY <1>1, <1>2, <1>3, TypeInvariant, InvariantInit, InvariantStep, PTL DEF Spec
=============================================================================
