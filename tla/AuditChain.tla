------------------------------ MODULE AuditChain ------------------------------
(***************************************************************************)
(* The audit writers (core/audit.py): AuditWriter and its async twin with  *)
(* chain=True, each on a connection of its own.  A signed row is inserted  *)
(* with the id of the writer's row before it as prev_id, a foreign key     *)
(* into the same table; a batch is one envelope, with the merkle_root of   *)
(* its entries (core/envelope.py), and its unsigned members.               *)
(*                                                                         *)
(* Any await may raise: the statement did not run, or, of a commit, the    *)
(* answer alone was lost (psycopg cancels the statement and waits for what *)
(* became of it).  The caller rolls back and may use the writer again.     *)
(***************************************************************************)
EXTENDS Integers, Sequences, FiniteSets

CONSTANTS Writer,
          Entry,      \* canonical JSON of the entries of batches
          None,       \* NULL, and Python's None
          MaxIds,     \* bound: uuid4 values drawn
          MaxMembers  \* bound: entries of a batch

ASSUME NoneAssumption  == None \notin Nat
ASSUME BoundAssumption == MaxIds \in Nat /\ MaxMembers \in Nat

VARIABLES
  log,        \* committed rows of audit_log
  envelopes,  \* committed rows of envelope_batches
  used,       \* ids drawn, none twice
  pc,
  open,       \* rows of the open transaction
  envelope,   \* the envelope of the open transaction
  left,       \* the list of the batch's entries not inserted yet
  lastId,     \* _last_id
  chain,      \* history: the writer's committed signed rows, in order
  lost        \* history: writers with a signed row that was not committed

vars == <<log, envelopes, used, pc, open, envelope, left, lastId, chain, lost>>

\* A row of write_signed, of which the model keeps the chain only.
SignedRow(id, prev) ==
  [id |-> id, prev |-> prev, batch |-> None, entry |-> None, ts |-> 0]

\* A row of write_batch; ts is a reading of the clock of its own.
MemberRow(id, batch, entry, ts) ==
  [id |-> id, prev |-> None, batch |-> batch, entry |-> entry, ts |-> ts]

Readings == 1..MaxMembers

-----------------------------------------------------------------------------
(***************************************************************************)
(* merkle_root, with SHA-256 as a free function: <<e>> is the digest of a  *)
(* member and <<a, b>> that of two digests put together.                   *)
(***************************************************************************)
\* Mutant: the odd last digest of a layer is left out.
Pairs_Whole(layer) == Len(layer) \div 2

\* Pairs of a layer; an odd last digest makes one with itself.
Pairs(layer) == (Len(layer) + 1) \div 2

Above(layer) == [i \in 1..Pairs(layer) |->
  <<layer[2*i - 1], layer[IF 2*i <= Len(layer) THEN 2*i ELSE 2*i - 1]>>]

\* Layers(members)[d] is what is left of the list after d turns of the loop; a
\* layer of one digest, the root, stays.
Layers(members) ==
  LET layer[d \in 0..Len(members)] ==
        IF d = 0 THEN [i \in DOMAIN members |-> <<members[i]>>]
        ELSE IF Len(layer[d - 1]) = 1 THEN layer[d - 1] ELSE Above(layer[d - 1])
  IN  layer

MerkleRoot(members) == Layers(members)[Len(members)][1]

-----------------------------------------------------------------------------
Init == /\ log       = {}
        /\ envelopes = {}
        /\ used      = 0
        /\ pc        = [w \in Writer |-> "idle"]
        /\ open      = [w \in Writer |-> {}]
        /\ envelope  = [w \in Writer |-> {}]
        /\ left      = [w \in Writer |-> <<>>]
        /\ lastId    = [w \in Writer |-> None]
        /\ chain     = [w \in Writer |-> <<>>]
        /\ lost      = {}

DrawId == used < MaxIds /\ used' = used + 1

\* The foreign key prev_id REFERENCES audit_log(id).
PrevExists(w) == lastId[w] = None \/ \E r \in log : r.id = lastId[w]

\* write_signed inserts its row and moves the chain on; it has not committed.
InsertSigned(w) ==
  /\ pc[w] = "idle"
  /\ DrawId
  /\ PrevExists(w)
  /\ open' = [open EXCEPT ![w] = {SignedRow(used', lastId[w])}]
  /\ lastId' = [lastId EXCEPT ![w] = used']
  /\ pc'     = [pc     EXCEPT ![w] = "signed"]
  /\ UNCHANGED <<log, envelopes, envelope, left, chain, lost>>

\* The insert of write_signed is refused for its prev_id.
SignedRefused(w) ==
  /\ pc[w] = "idle"
  /\ DrawId
  /\ ~PrevExists(w)
  /\ pc' = [pc EXCEPT ![w] = "refused"]
  /\ UNCHANGED <<log, envelopes, open, envelope, left, lastId, chain, lost>>

\* Mutant: _last_id is moved on before the insert.
KeepsChain_MovesOn(w) == lastId' = [lastId EXCEPT ![w] = used']

\* An insert that raises leaves _last_id alone.
KeepsChain(w) == UNCHANGED lastId

\* The insert of write_signed raises.
SignedRaises(w) ==
  /\ pc[w] = "idle"
  /\ DrawId
  /\ KeepsChain(w)
  /\ pc' = [pc EXCEPT ![w] = "raised"]
  /\ UNCHANGED <<log, envelopes, open, envelope, left, chain, lost>>

\* write_batch inserts the envelope; its caller passes the root it has signed.
InsertEnvelope(w, entries) ==
  /\ pc[w] = "idle"
  /\ DrawId
  /\ envelope' = [envelope EXCEPT ![w] = {[id |-> used', members |-> Len(entries),
                                          root |-> MerkleRoot(entries)]}]
  /\ left'     = [left     EXCEPT ![w] = entries]
  /\ pc'       = [pc       EXCEPT ![w] = "batching"]
  /\ UNCHANGED <<log, envelopes, open, lastId, chain, lost>>

\* write_batch inserts an entry, outside the chain, at a reading of the clock.
InsertMember(w, ts) ==
  /\ pc[w] = "batching" /\ left[w] # <<>>
  /\ DrawId
  /\ \E e \in envelope[w] :
       open' = [open EXCEPT ![w] = @ \cup {MemberRow(used', e.id, Head(left[w]), ts)}]
  /\ left' = [left EXCEPT ![w] = Tail(@)]
  /\ UNCHANGED <<log, envelopes, pc, envelope, lastId, chain, lost>>

\* The insert of an entry raises.
BatchRaises(w) ==
  /\ pc[w] = "batching" /\ left[w] # <<>>
  /\ pc' = [pc EXCEPT ![w] = "raised"]
  /\ UNCHANGED <<log, envelopes, used, open, envelope, left, lastId, chain, lost>>

-----------------------------------------------------------------------------
\* Mutant: each entry is committed as it is inserted.
AtCommit_EachEntry(w) == pc[w] = "signed" \/ (pc[w] = "batching" /\ open[w] # {})

AtCommit(w) == pc[w] = "signed" \/ (pc[w] = "batching" /\ left[w] = <<>>)

Ends(w) == /\ pc'       = [pc       EXCEPT ![w] = "idle"]
           /\ open'     = [open     EXCEPT ![w] = {}]
           /\ envelope' = [envelope EXCEPT ![w] = {}]
           /\ left'     = [left     EXCEPT ![w] = <<>>]

TakesPlace(w) ==
  /\ log'       = log \cup open[w]
  /\ envelopes' = envelopes \cup envelope[w]
  /\ chain'     = IF pc[w] = "signed"
                  THEN [chain EXCEPT ![w] = Append(@, lastId[w])] ELSE chain
  /\ UNCHANGED lost

IsLost(w) == /\ lost' = IF pc[w] = "signed" THEN lost \cup {w} ELSE lost
             /\ UNCHANGED <<log, envelopes, chain>>

\* The commit, and the return of the id or of the batch.
Commit(w) == /\ AtCommit(w)
             /\ Ends(w)
             /\ TakesPlace(w)
             /\ UNCHANGED <<used, lastId>>

\* Mutant: _last_id is moved on once the commit has returned.
HasMovedOn_Back(w) ==
  lastId' = [lastId EXCEPT ![w] = (CHOOSE r \in open[w] : TRUE).prev]

\* _last_id was moved on before the commit.
HasMovedOn(w) == UNCHANGED lastId

\* The commit raises: it took place all the same, or it did not.
CommitRaises(w) == /\ AtCommit(w)
                   /\ Ends(w)
                   /\ \/ TakesPlace(w)
                      \/ IsLost(w)
                   /\ HasMovedOn(w)
                   /\ UNCHANGED used

\* The caller of a write that raised rolls back.
Rollback(w) == /\ pc[w] \in {"raised", "refused"}
               /\ Ends(w)
               /\ UNCHANGED <<log, envelopes, used, lastId, chain, lost>>

Next == \E w \in Writer : \/ InsertSigned(w)
                          \/ SignedRefused(w)
                          \/ SignedRaises(w)
                          \/ \E n \in 1..MaxMembers : \E entries \in [1..n -> Entry] :
                               InsertEnvelope(w, entries)
                          \/ \E ts \in Readings : InsertMember(w, ts)
                          \/ BatchRaises(w)
                          \/ Commit(w)
                          \/ CommitRaises(w)
                          \/ Rollback(w)

Spec == Init /\ [][Next]_vars

-----------------------------------------------------------------------------
(***************************************************************************)
(* The signed rows of a writer are one chain, from its first row on, with  *)
(* no fork and no gap, although writes raise before and after they took    *)
(* place ("each signed row's prev_id points at the previous one",          *)
(* tests/core/test_audit_async.py:177).                                    *)
(***************************************************************************)
ChainUnbroken ==
  \A w \in Writer : \A i \in DOMAIN chain[w] : \E r \in log :
    /\ r.id   = chain[w][i]
    /\ r.prev = IF i = 1 THEN None ELSE chain[w][i - 1]

Members(e) == {r \in log : r.batch = e.id}

(***************************************************************************)
(* An envelope has as many rows in the log as its member_count, and no row *)
(* refers to an envelope that is not there: batches are whole or absent.   *)
(***************************************************************************)
BatchesWhole ==
  /\ \A e \in envelopes : Cardinality(Members(e)) = e.members
  /\ \A r \in log : r.batch # None => \E e \in envelopes : e.id = r.batch

(***************************************************************************)
(* "verification reduces to verifying the batch Merkle root" (audit.py:86):*)
(* the entries an envelope vouches for by its root and member_count are    *)
(* those of its rows in an order their ts allow, and no other list has     *)
(* that root, provided that the clock did not go back between two inserts. *)
(* Nothing but ts orders the rows of a batch; the model's ids tell in what *)
(* order they were inserted, which the code's uuid4 do not.                *)
(***************************************************************************)
ByTime(rows, n) ==
  {at \in [1..n -> rows] :
     /\ \A r \in rows : \E i \in 1..n : at[i] = r
     /\ \A i, j \in 1..n : i < j => at[i] # at[j] /\ at[i].ts <= at[j].ts}

BatchVerifies ==
  \A e \in envelopes :
    (\A r, s \in Members(e) : r.id < s.id => r.ts <= s.ts) =>
      \E at \in ByTime(Members(e), e.members) :
        {list \in [1..e.members -> Entry] : MerkleRoot(list) = e.root}
          = {[i \in 1..e.members |-> at[i].entry]}

(***************************************************************************)
(* A commit of a signed row that did not take place ends the writer's      *)
(* chain for good: _last_id names the missing row, and every signed insert *)
(* after it is refused for its prev_id, whatever else the writer and the   *)
(* others wrote.  Nothing else does, no insert that raises and no batch.   *)
(***************************************************************************)
RefusedAfterLostCommit ==
  \A w \in Writer : /\ pc[w] = "signed"  => w \notin lost
                    /\ pc[w] = "refused" => w \in lost
=============================================================================
