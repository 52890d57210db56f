--------------------------- MODULE AuditChain_proofs ---------------------------
(***************************************************************************)
(* Theorems about AuditChain, for any number of writers, entries and ids.  *)
(***************************************************************************)
EXTENDS AuditChain, SequenceTheorems, FiniteSetTheorems, WellFoundedInduction,
        TLAPS

TypeOK ==
  /\ used   \in Nat
  /\ pc     \in [Writer -> {"idle", "signed", "refused", "raised", "batching"}]
  /\ lastId \in [Writer -> Nat \cup {None}]
  /\ chain  \in [Writer -> Seq(Nat)]
  /\ left   \in [Writer -> Seq(Entry)]
  /\ DOMAIN open = Writer /\ DOMAIN envelope = Writer
  /\ \A w \in Writer : pc[w] = "signed" => lastId[w] \in Nat

(***************************************************************************)
(* The chain.  Every id was drawn.  A writer's last id is the end of its   *)
(* committed chain, or that of its open row, or of a row whose commit was  *)
(* lost; no row of the log has it in the last two cases, nor ever will in  *)
(* the last one.                                                           *)
(***************************************************************************)
Drawn == 1..used

IdsDrawn ==
  /\ \A r \in log : r.id \in Drawn
  /\ \A w \in Writer : /\ \A r \in open[w] : r.id \in Drawn
                       /\ lastId[w] # None => lastId[w] \in Drawn

Tip(w) == IF chain[w] = <<>> THEN None ELSE chain[w][Len(chain[w])]

TipIsLast ==
  \A w \in Writer : w \notin lost /\ pc[w] # "signed" => lastId[w] = Tip(w)

SignedFollowsTip ==
  \A w \in Writer : pc[w] = "signed" =>
    w \notin lost /\ open[w] = {SignedRow(lastId[w], Tip(w))}

LastMissing ==
  \A w \in Writer : w \in lost \/ pc[w] = "signed" =>
    /\ lastId[w] # None
    /\ \A r \in log : r.id # lastId[w]
    /\ \A u \in Writer : \A r \in open[u] :
         r.id = lastId[w] => u = w /\ pc[w] = "signed"

ChainInv == /\ TypeOK
            /\ IdsDrawn
            /\ TipIsLast
            /\ SignedFollowsTip
            /\ LastMissing
            /\ ChainUnbroken
            /\ RefusedAfterLostCommit

(***************************************************************************)
(* The batches.  Only a batch has an open envelope, of an id that no other *)
(* envelope has; its open rows are its members and, with the entries left, *)
(* as many as its member_count.                                            *)
(***************************************************************************)
EnvelopesDrawn ==
  /\ \A e \in envelopes : e.id \in Drawn
  /\ \A w \in Writer : \A e \in envelope[w] : e.id \in Drawn

EnvelopesDiffer ==
  \A w \in Writer : \A e \in envelope[w] :
    /\ \A f \in envelopes : f.id # e.id
    /\ \A u \in Writer \ {w} : \A f \in envelope[u] : f.id # e.id

NothingOpen ==
  \A w \in Writer : /\ pc[w] \in {"idle", "refused"} => open[w] = {}
                    /\ pc[w] \in {"idle", "signed", "refused"} => envelope[w] = {}

BatchCounts ==
  \A w \in Writer : pc[w] = "batching" =>
    \E e \in envelope[w] :
      /\ envelope[w] = {e}
      /\ IsFiniteSet(open[w])
      /\ Cardinality(open[w]) + Len(left[w]) = e.members
      /\ \A r \in open[w] : r.batch = e.id

BatchInv == /\ EnvelopesDrawn
            /\ EnvelopesDiffer
            /\ NothingOpen
            /\ BatchCounts
            /\ BatchesWhole
-----------------------------------------------------------------------------
\* The list of a batch is a sequence of entries.
LEMMA EntriesAreSeq ==
  ASSUME NEW n \in Nat, NEW entries \in [1..n -> Entry]
  PROVE  entries \in Seq(Entry)
  BY SeqDef

\* Every step preserves the types.
LEMMA TypeStep == TypeOK /\ [Next]_vars => TypeOK'
<1> SUFFICES ASSUME TypeOK, [Next]_vars PROVE TypeOK'
  OBVIOUS
<1> USE DEF TypeOK
<1>1. ASSUME NEW w \in Writer, InsertSigned(w) PROVE TypeOK'
  BY <1>1 DEF InsertSigned, DrawId
<1>2. ASSUME NEW w \in Writer, SignedRefused(w) PROVE TypeOK'
  BY <1>2 DEF SignedRefused, DrawId
<1>3. ASSUME NEW w \in Writer, SignedRaises(w) PROVE TypeOK'
  BY <1>3 DEF SignedRaises, KeepsChain, DrawId
<1>4. ASSUME NEW w \in Writer, NEW n \in 1..MaxMembers,
             NEW entries \in [1..n -> Entry], InsertEnvelope(w, entries)
      PROVE  TypeOK'
  <2>1. entries \in Seq(Entry)
    BY BoundAssumption, EntriesAreSeq
  <2> QED
    BY <1>4, <2>1 DEF InsertEnvelope, DrawId
<1>5. ASSUME NEW w \in Writer, NEW ts \in Readings, InsertMember(w, ts)
      PROVE  TypeOK'
  <2>1. /\ used' \in Nat /\ left' = [left EXCEPT ![w] = Tail(left[w])]
        /\ left[w] \in Seq(Entry) /\ left[w] # <<>>
        /\ DOMAIN open' = Writer
        /\ UNCHANGED <<pc, lastId, chain, envelope>>
    BY <1>5 DEF InsertMember, DrawId
  <2>2. Tail(left[w]) \in Seq(Entry)
    BY <2>1, HeadTailProperties
  <2> QED
    BY <2>1, <2>2
<1>6. ASSUME NEW w \in Writer, BatchRaises(w) PROVE TypeOK'
  BY <1>6 DEF BatchRaises
<1>7. ASSUME NEW w \in Writer, Ends(w), UNCHANGED <<used, lastId>>,
             \/ TakesPlace(w) /\ AtCommit(w)
             \/ IsLost(w)
             \/ UNCHANGED chain
      PROVE  TypeOK'
  <2>1. chain' \in [Writer -> Seq(Nat)]
    <3>1. CASE TakesPlace(w) /\ pc[w] = "signed"
      <4>1. Append(chain[w], lastId[w]) \in Seq(Nat)
        BY <3>1, AppendProperties
      <4> QED
        BY <3>1, <4>1 DEF TakesPlace
    <3> QED
      BY <1>7, <3>1 DEF TakesPlace, IsLost
  <2>2. <<>> \in Seq(Entry)
    BY EmptySeq
  <2> QED
    BY <1>7, <2>1, <2>2 DEF Ends
<1>8. CASE UNCHANGED vars
  BY <1>8 DEF vars
<1> QED
  BY <1>1, <1>2, <1>3, <1>4, <1>5, <1>6, <1>7, <1>8
     DEF Next, Commit, CommitRaises, HasMovedOn, Rollback

-----------------------------------------------------------------------------
\* A step that commits and loses nothing, and leaves every chain alone: at
\* most it draws an id, for a row of a batch.
LEMMA ChainFrame ==
  ASSUME ChainInv, TypeOK', NEW w \in Writer,
         used' \in {used, used + 1},
         UNCHANGED <<log, lastId, chain, lost>>,
         pc[w] # "signed", pc'[w] # "signed",
         pc'[w] = "refused" => w \in lost,
         \A u \in Writer \ {w} : pc'[u] = pc[u] /\ open'[u] = open[u],
         \A r \in open'[w] : r \in open[w] \/ (r.id = used' /\ used' = used + 1)
  PROVE  ChainInv'
<1> USE DEF ChainInv
<1>1. used \in Nat /\ Drawn \subseteq Drawn'
  BY DEF TypeOK, Drawn
<1>2. IdsDrawn'
  BY <1>1 DEF IdsDrawn, Drawn
<1>3. TipIsLast'
  BY DEF TipIsLast, Tip
<1>4. SignedFollowsTip'
  BY DEF SignedFollowsTip, Tip
<1>5. LastMissing'
  <2> SUFFICES ASSUME NEW x \in Writer, x \in lost \/ pc'[x] = "signed",
                      NEW u \in Writer, NEW r \in open'[u], r.id = lastId[x]
               PROVE  u = x /\ pc'[x] = "signed"
    BY DEF LastMissing
  <2>1. lastId[x] \in 1..used
    BY DEF LastMissing, IdsDrawn, Drawn
  <2>2. r \in open[u]
    BY <1>1, <2>1
  <2> QED
    BY <2>2 DEF LastMissing
<1>6. ChainUnbroken'
  BY DEF ChainUnbroken
<1>7. RefusedAfterLostCommit'
  BY DEF RefusedAfterLostCommit
<1> QED
  BY <1>2, <1>3, <1>4, <1>5, <1>6, <1>7

\* While no commit of the writer was lost, its last row is in the log.
LEMMA TipIsThere ==
  ASSUME ChainInv, NEW w \in Writer, pc[w] = "idle", w \notin lost
  PROVE  PrevExists(w)
<1>1. lastId[w] = Tip(w) /\ chain[w] \in Seq(Nat)
  BY DEF ChainInv, TypeOK, TipIsLast
<1>2. CASE chain[w] = <<>>
  BY <1>1, <1>2 DEF Tip, PrevExists
<1>3. CASE chain[w] # <<>>
  <2>1. Len(chain[w]) \in DOMAIN chain[w]
    BY <1>1, <1>3, EmptySeq, LenProperties
  <2>2. PICK r \in log : r.id = chain[w][Len(chain[w])]
    BY <2>1 DEF ChainInv, ChainUnbroken
  <2> QED
    BY <1>1, <1>3, <2>2 DEF Tip, PrevExists
<1> QED
  BY <1>2, <1>3

\* A signed row takes an id nobody has and refers to the end of the chain.
LEMMA InsertSignedStep ==
  ASSUME ChainInv, TypeOK', NEW w \in Writer, InsertSigned(w)
  PROVE  ChainInv'
<1> USE DEF ChainInv
<1>1. /\ TypeOK /\ pc[w] = "idle" /\ used \in Nat /\ used' = used + 1
      /\ open' = [open EXCEPT ![w] = {SignedRow(used', lastId[w])}]
      /\ lastId' = [lastId EXCEPT ![w] = used']
      /\ pc' = [pc EXCEPT ![w] = "signed"]
      /\ UNCHANGED <<log, chain, lost>>
      /\ PrevExists(w)
  BY DEF InsertSigned, DrawId, TypeOK
<1>2. w \notin lost
  BY <1>1 DEF PrevExists, LastMissing
<1>3. /\ lastId'[w] = used + 1 /\ used + 1 # None
      /\ pc'[w] = "signed" /\ open'[w] = {SignedRow(used', lastId[w])}
      /\ \A u \in Writer \ {w} : /\ pc'[u] = pc[u] /\ open'[u] = open[u]
                                 /\ lastId'[u] = lastId[u]
  BY <1>1, NoneAssumption DEF TypeOK
<1>4. SignedRow(used', lastId[w]).id = used'
  BY DEF SignedRow
<1>5. IdsDrawn'
  BY <1>1, <1>3, <1>4 DEF IdsDrawn, Drawn
<1>6. TipIsLast'
  BY <1>1, <1>3 DEF TipIsLast, Tip
<1>7. SignedFollowsTip'
  <2>1. lastId[w] = Tip(w)
    BY <1>1, <1>2 DEF TipIsLast
  <2> QED
    BY <1>1, <1>2, <1>3, <2>1 DEF SignedFollowsTip, Tip
<1>8. LastMissing'
  <2>1. \A r \in log : r.id # used + 1
    BY <1>1 DEF IdsDrawn, Drawn
  <2>2. \A u \in Writer \ {w} : \A r \in open'[u] : r.id # used + 1
    BY <1>1, <1>3 DEF IdsDrawn, Drawn
  <2>3. \A x \in Writer \ {w} : lastId[x] # None => lastId[x] # used + 1
    BY <1>1 DEF IdsDrawn, Drawn
  <2> SUFFICES ASSUME NEW x \in Writer, x \in lost \/ pc'[x] = "signed"
               PROVE  /\ lastId'[x] # None
                      /\ \A r \in log : r.id # lastId'[x]
                      /\ \A u \in Writer : \A r \in open'[u] :
                           r.id = lastId'[x] => u = x /\ pc'[x] = "signed"
    BY <1>1 DEF LastMissing
  <2>4. CASE x = w
    BY <1>3, <2>1, <2>2, <2>4
  <2>5. CASE x # w
    BY <1>1, <1>3, <1>4, <2>3, <2>5 DEF LastMissing
  <2> QED
    BY <2>4, <2>5
<1>9. ChainUnbroken'
  BY <1>1 DEF ChainUnbroken
<1>10. RefusedAfterLostCommit'
  BY <1>1, <1>2, <1>3 DEF RefusedAfterLostCommit
<1> QED
  BY <1>5, <1>6, <1>7, <1>8, <1>9, <1>10

\* The end of a write, whatever became of its commit.
LEMMA EndsEffect ==
  ASSUME TypeOK, NEW w \in Writer, Ends(w)
  PROVE  /\ pc'[w] = "idle" /\ open'[w] = {} /\ envelope'[w] = {}
         /\ \A u \in Writer \ {w} : /\ pc'[u] = pc[u] /\ open'[u] = open[u]
                                    /\ envelope'[u] = envelope[u]
                                    /\ left'[u] = left[u]
  BY DEF Ends, TypeOK

\* A commit that takes place: a signed row becomes the end of the chain.
LEMMA TakesPlaceStep ==
  ASSUME ChainInv, TypeOK', NEW w \in Writer, AtCommit(w), Ends(w),
         TakesPlace(w), UNCHANGED <<used, lastId>>
  PROVE  ChainInv'
<1> USE EndsEffect DEF ChainInv
<1>1. /\ TypeOK /\ log' = log \cup open[w] /\ lost' = lost
      /\ Drawn' = Drawn
      /\ pc[w] # "signed" => chain' = chain
  BY DEF TakesPlace, Drawn
<1>2. CASE pc[w] # "signed"
  <2>1. IdsDrawn'
    BY <1>1 DEF IdsDrawn
  <2>2. TipIsLast'
    BY <1>1, <1>2 DEF TipIsLast, Tip
  <2>3. SignedFollowsTip'
    BY <1>1, <1>2 DEF SignedFollowsTip, Tip
  <2>4. LastMissing'
    BY <1>1, <1>2 DEF LastMissing
  <2>5. ChainUnbroken'
    BY <1>1, <1>2 DEF ChainUnbroken
  <2>6. RefusedAfterLostCommit'
    BY <1>1 DEF RefusedAfterLostCommit
  <2> QED
    BY <2>1, <2>2, <2>3, <2>4, <2>5, <2>6
<1>3. CASE pc[w] = "signed"
  <2> DEFINE row == SignedRow(lastId[w], Tip(w))
             n   == Len(chain[w])
  <2>1. /\ w \notin lost /\ open[w] = {row} /\ lastId[w] \in Nat
        /\ row.id = lastId[w] /\ row.prev = Tip(w)
        /\ row \in log' /\ log \subseteq log'
    BY <1>1, <1>3 DEF SignedFollowsTip, SignedRow, TypeOK
  <2>2. /\ chain[w] \in Seq(Nat) /\ n \in Nat /\ DOMAIN chain[w] = 1..n
        /\ chain'[w] = Append(chain[w], lastId[w])
        /\ \A u \in Writer \ {w} : chain'[u] = chain[u]
    BY <1>1, <1>3, LenProperties DEF TakesPlace, TypeOK
  <2>3. /\ Len(chain'[w]) = n + 1 /\ DOMAIN chain'[w] = 1..(n + 1)
        /\ chain'[w][n + 1] = lastId[w] /\ chain'[w] # <<>>
        /\ \A i \in 1..n : chain'[w][i] = chain[w][i]
    BY <2>1, <2>2, AppendProperties
  <2> HIDE DEF row
  <2>4. IdsDrawn'
    BY <1>1 DEF IdsDrawn
  <2>5. TipIsLast'
    BY <1>1, <2>2, <2>3 DEF TipIsLast, Tip
  <2>6. SignedFollowsTip'
    BY <1>1, <2>2 DEF SignedFollowsTip, Tip
  <2>7. LastMissing'
    BY <1>1, <1>3, <2>1 DEF LastMissing
  <2>8. ChainUnbroken'
    <3> SUFFICES ASSUME NEW u \in Writer, NEW i \in DOMAIN chain'[u]
                 PROVE  \E r \in log' :
                          /\ r.id = chain'[u][i]
                          /\ r.prev = IF i = 1 THEN None ELSE chain'[u][i - 1]
      BY DEF ChainUnbroken
    <3>1. CASE u # w
      <4>1. chain'[u] = chain[u]
        BY <2>2, <3>1
      <4>2. \E r \in log : /\ r.id = chain[u][i]
                           /\ r.prev = IF i = 1 THEN None ELSE chain[u][i - 1]
        <5>1. i \in DOMAIN chain[u]
          BY <4>1, ZenonT(40)
        <5> QED
          BY <5>1, ZenonT(40) DEF ChainUnbroken
      <4> QED
        BY <2>1, <4>1, <4>2
    <3>2. CASE u = w /\ i \in 1..n
      <4>1. PICK r \in log : /\ r.id = chain[w][i]
                             /\ r.prev = IF i = 1 THEN None ELSE chain[w][i - 1]
        <5>1. i \in DOMAIN chain[w]
          BY <2>2, <3>2
        <5> QED
          BY <5>1, ZenonT(40) DEF ChainUnbroken
      <4>2. i # 1 => i - 1 \in 1..n
        BY <2>2, <3>2
      <4> QED
        BY <1>1, <2>3, <3>2, <4>1, <4>2
    <3>3. CASE u = w /\ i = n + 1
      <4>1. chain[w] = <<>> => n = 0
        BY EmptySeq
      <4>2. chain[w] # <<>> => n \in Nat \ {0}
        BY <2>2, EmptySeq
      <4>3. Tip(w) = IF i = 1 THEN None ELSE chain'[w][i - 1]
        BY <2>2, <2>3, <3>3, <4>1, <4>2 DEF Tip
      <4>4. row.id = chain'[u][i]
        BY <2>1, <2>3, <3>3
      <4>5. row.prev = IF i = 1 THEN None ELSE chain'[u][i - 1]
        BY <2>1, <3>3, <4>3
      <4> QED
        BY <2>1, <4>4, <4>5
    <3> QED
      BY <2>2, <2>3, <3>1, <3>2, <3>3
  <2>9. RefusedAfterLostCommit'
    BY <1>1 DEF RefusedAfterLostCommit
  <2> QED
    BY <2>4, <2>5, <2>6, <2>7, <2>8, <2>9
<1> QED
  BY <1>2, <1>3

\* A commit that is lost: no row of the log has the writer's last id.
LEMMA IsLostStep ==
  ASSUME ChainInv, TypeOK', NEW w \in Writer, AtCommit(w), Ends(w),
         IsLost(w), UNCHANGED <<used, lastId>>
  PROVE  ChainInv'
<1> USE EndsEffect DEF ChainInv
<1>1. /\ TypeOK /\ UNCHANGED <<log, chain>> /\ Drawn' = Drawn
      /\ lost' = IF pc[w] = "signed" THEN lost \cup {w} ELSE lost
  BY DEF IsLost, Drawn
<1>2. IdsDrawn'
  BY <1>1 DEF IdsDrawn
<1>3. TipIsLast'
  BY <1>1 DEF TipIsLast, Tip
<1>4. SignedFollowsTip'
  BY <1>1 DEF SignedFollowsTip, Tip
<1>5. LastMissing'
  BY <1>1 DEF LastMissing
<1>6. ChainUnbroken'
  BY <1>1 DEF ChainUnbroken
<1>7. RefusedAfterLostCommit'
  BY <1>1 DEF RefusedAfterLostCommit
<1> QED
  BY <1>2, <1>3, <1>4, <1>5, <1>6, <1>7

\* The invariant of the chains is inductive.
LEMMA ChainStep == ChainInv /\ [Next]_vars => ChainInv'
<1> SUFFICES ASSUME ChainInv, [Next]_vars PROVE ChainInv'
  OBVIOUS
<1>0. TypeOK /\ TypeOK'
  BY TypeStep DEF ChainInv
<1>1. ASSUME NEW w \in Writer, InsertSigned(w) PROVE ChainInv'
  BY <1>0, <1>1, InsertSignedStep
<1>2. ASSUME NEW w \in Writer, SignedRefused(w) PROVE ChainInv'
  <2>1. w \in lost
    BY <1>2, TipIsThere DEF SignedRefused
  <2>2. /\ used' = used + 1 /\ pc[w] = "idle" /\ pc'[w] = "refused"
        /\ \A u \in Writer \ {w} : pc'[u] = pc[u]
        /\ UNCHANGED <<log, open, lastId, chain, lost>>
    BY <1>0, <1>2 DEF SignedRefused, DrawId, TypeOK
  <2> QED
    BY <1>0, <2>1, <2>2, ChainFrame
<1>3. ASSUME NEW w \in Writer, SignedRaises(w) PROVE ChainInv'
  <2>1. /\ used' = used + 1 /\ pc[w] = "idle" /\ pc'[w] = "raised"
        /\ \A u \in Writer \ {w} : pc'[u] = pc[u]
        /\ UNCHANGED <<log, open, lastId, chain, lost>>
    BY <1>0, <1>3 DEF SignedRaises, KeepsChain, DrawId, TypeOK
  <2> QED
    BY <1>0, <2>1, ChainFrame
<1>4. ASSUME NEW w \in Writer, NEW n \in 1..MaxMembers,
             NEW entries \in [1..n -> Entry], InsertEnvelope(w, entries)
      PROVE  ChainInv'
  <2>1. /\ used' = used + 1 /\ pc[w] = "idle" /\ pc'[w] = "batching"
        /\ \A u \in Writer \ {w} : pc'[u] = pc[u]
        /\ UNCHANGED <<log, open, lastId, chain, lost>>
    BY <1>0, <1>4 DEF InsertEnvelope, DrawId, TypeOK
  <2> QED
    BY <1>0, <2>1, ChainFrame
<1>5. ASSUME NEW w \in Writer, NEW ts \in Readings, InsertMember(w, ts)
      PROVE  ChainInv'
  <2>1. PICK e \in envelope[w] :
          open' = [open EXCEPT ![w] =
                     @ \cup {MemberRow(used', e.id, Head(left[w]), ts)}]
    BY <1>5 DEF InsertMember
  <2>2. MemberRow(used', e.id, Head(left[w]), ts).id = used'
    BY DEF MemberRow
  <2>3. /\ used' = used + 1 /\ pc[w] = "batching" /\ pc' = pc
        /\ UNCHANGED <<log, lastId, chain, lost>>
    BY <1>5 DEF InsertMember, DrawId
  <2>4. /\ \A u \in Writer \ {w} : open'[u] = open[u]
        /\ \A r \in open'[w] : r \in open[w] \/ r.id = used'
    BY <1>0, <2>1, <2>2 DEF TypeOK
  <2> QED
    BY <1>0, <2>3, <2>4, ChainFrame
<1>6. ASSUME NEW w \in Writer, BatchRaises(w) PROVE ChainInv'
  <2>1. /\ pc[w] = "batching" /\ pc'[w] = "raised"
        /\ \A u \in Writer \ {w} : pc'[u] = pc[u]
        /\ UNCHANGED <<used, log, open, lastId, chain, lost>>
    BY <1>0, <1>6 DEF BatchRaises, TypeOK
  <2> QED
    BY <1>0, <2>1, ChainFrame
<1>7. ASSUME NEW w \in Writer, Commit(w) \/ CommitRaises(w) PROVE ChainInv'
  BY <1>0, <1>7, TakesPlaceStep, IsLostStep
     DEF Commit, CommitRaises, HasMovedOn
<1>8. ASSUME NEW w \in Writer, Rollback(w) PROVE ChainInv'
  <2>1. /\ pc[w] # "signed" /\ pc'[w] = "idle" /\ open'[w] = {}
        /\ \A u \in Writer \ {w} : pc'[u] = pc[u] /\ open'[u] = open[u]
        /\ UNCHANGED <<used, log, lastId, chain, lost>>
    BY <1>0, <1>8, EndsEffect DEF Rollback
  <2> QED
    BY <1>0, <2>1, ChainFrame
<1>9. CASE UNCHANGED vars
  BY <1>0, <1>9 DEF vars, ChainInv, IdsDrawn, Drawn, TipIsLast, Tip,
     SignedFollowsTip, LastMissing, ChainUnbroken, RefusedAfterLostCommit
<1> QED
  BY <1>1, <1>2, <1>3, <1>4, <1>5, <1>6, <1>7, <1>8, <1>9 DEF Next

\* It holds before the first write.
LEMMA ChainInit == Init => ChainInv
<1> SUFFICES ASSUME Init PROVE ChainInv
  OBVIOUS
<1>1. TypeOK
  <2>1. <<>> \in Seq(Nat) /\ <<>> \in Seq(Entry)
    BY EmptySeq
  <2> QED
    BY <2>1 DEF Init, TypeOK
<1>2. \A w \in Writer : DOMAIN chain[w] = {}
  BY DEF Init
<1> QED
  BY <1>1, <1>2 DEF Init, ChainInv, IdsDrawn, TipIsLast, Tip, SignedFollowsTip,
     LastMissing, ChainUnbroken, RefusedAfterLostCommit

\* The signed rows of each writer are one chain, with no fork and no gap,
\* whatever raises and whichever commits are lost.
THEOREM ChainUnbrokenHolds == Spec => []ChainUnbroken
<1>1. ChainInv => ChainUnbroken
  BY DEF ChainInv
<1> QED
  BY <1>1, ChainInit, ChainStep, PTL DEF Spec

\* A lost commit, and nothing else, ends a chain, and ends it for good.
THEOREM RefusedAfterLostCommitHolds == Spec => []RefusedAfterLostCommit
<1>1. ChainInv => RefusedAfterLostCommit
  BY DEF ChainInv
<1> QED
  BY <1>1, ChainInit, ChainStep, PTL DEF Spec

-----------------------------------------------------------------------------
\* A step that commits nothing: at most one id is drawn, and only one
\* writer's open transaction changes, in a way that keeps its own count.
LEMMA BatchFrame ==
  ASSUME ChainInv, BatchInv, NEW w \in Writer,
         used' \in {used, used + 1},
         UNCHANGED <<log, envelopes>>,
         \A u \in Writer \ {w} : /\ pc'[u] = pc[u] /\ open'[u] = open[u]
                                 /\ envelope'[u] = envelope[u]
                                 /\ left'[u] = left[u],
         \A e \in envelope'[w] :
           e \in envelope[w] \/ (e.id = used' /\ used' = used + 1),
         pc'[w] \in {"idle", "refused"} => open'[w] = {},
         pc'[w] \in {"idle", "signed", "refused"} => envelope'[w] = {},
         pc'[w] = "batching" =>
           \E e \in envelope'[w] :
             /\ envelope'[w] = {e}
             /\ IsFiniteSet(open'[w])
             /\ Cardinality(open'[w]) + Len(left'[w]) = e.members
             /\ \A r \in open'[w] : r.batch = e.id
  PROVE  BatchInv'
<1> USE DEF BatchInv
<1>1. used \in Nat /\ Drawn \subseteq Drawn' /\ used' \in Drawn' \cup {used}
  BY DEF ChainInv, TypeOK, Drawn
<1>2. EnvelopesDrawn'
  BY <1>1 DEF EnvelopesDrawn, Drawn
<1>3. EnvelopesDiffer'
  BY <1>1 DEF EnvelopesDiffer, EnvelopesDrawn, Drawn
<1>4. NothingOpen'
  BY DEF NothingOpen
<1>5. BatchCounts'
  <2> SUFFICES ASSUME NEW u \in Writer, pc'[u] = "batching"
               PROVE  \E e \in envelope'[u] :
                        /\ envelope'[u] = {e}
                        /\ IsFiniteSet(open'[u])
                        /\ Cardinality(open'[u]) + Len(left'[u]) = e.members
                        /\ \A r \in open'[u] : r.batch = e.id
    BY DEF BatchCounts
  <2>1. CASE u = w
    BY <2>1
  <2>2. CASE u # w
    <3>1. /\ pc[u] = "batching" /\ open'[u] = open[u]
          /\ envelope'[u] = envelope[u] /\ left'[u] = left[u]
      BY <2>2
    <3>2. \E e \in envelope[u] :
             /\ envelope[u] = {e}
             /\ IsFiniteSet(open[u])
             /\ Cardinality(open[u]) + Len(left[u]) = e.members
             /\ \A r \in open[u] : r.batch = e.id
      BY <3>1 DEF BatchCounts
    <3> HIDE DEF BatchInv
    <3> QED
      BY <3>1, <3>2
  <2> QED
    BY <2>1, <2>2
<1>6. BatchesWhole'
  BY DEF BatchesWhole, Members
<1> QED
  BY <1>2, <1>3, <1>4, <1>5, <1>6

\* An entry moves from the list to the open rows: their number stays the same.
LEMMA InsertMemberStep ==
  ASSUME ChainInv, BatchInv, NEW w \in Writer, NEW ts \in Readings,
         InsertMember(w, ts)
  PROVE  BatchInv'
<1>0. TypeOK
  BY DEF ChainInv
<1>1. /\ pc[w] = "batching" /\ left[w] # <<>> /\ left[w] \in Seq(Entry)
      /\ used' = used + 1 /\ used \in Nat
      /\ left' = [left EXCEPT ![w] = Tail(left[w])]
      /\ UNCHANGED <<log, envelopes, pc, envelope>>
  BY <1>0 DEF InsertMember, DrawId, TypeOK
<1>2. PICK e \in envelope[w] :
        /\ envelope[w] = {e}
        /\ IsFiniteSet(open[w])
        /\ Cardinality(open[w]) + Len(left[w]) = e.members
        /\ \A r \in open[w] : r.batch = e.id
  BY <1>1, ZenonT(40) DEF BatchInv, BatchCounts
<1> DEFINE row == MemberRow(used', e.id, Head(left[w]), ts)
<1>3. row.id = used' /\ row.batch = e.id
  BY DEF MemberRow
<1>4. open' = [open EXCEPT ![w] = open[w] \cup {row}]
  BY <1>2 DEF InsertMember
<1>5. row \notin open[w]
  BY <1>1, <1>3 DEF ChainInv, IdsDrawn, Drawn
<1> HIDE DEF row
<1>6. /\ open'[w] = open[w] \cup {row}
      /\ left'[w] = Tail(left[w])
      /\ \A u \in Writer \ {w} : open'[u] = open[u] /\ left'[u] = left[u]
  BY <1>0, <1>1, <1>4 DEF TypeOK
<1>7. /\ IsFiniteSet(open[w] \cup {row})
      /\ Cardinality(open[w] \cup {row}) = Cardinality(open[w]) + 1
      /\ Cardinality(open[w]) \in Nat
  BY <1>2, <1>5, FS_AddElement, FS_CardinalityType
<1>8. Len(Tail(left[w])) = Len(left[w]) - 1 /\ Len(left[w]) \in Nat
  BY <1>1, HeadTailProperties, LenProperties
<1>9. /\ IsFiniteSet(open'[w])
      /\ Cardinality(open'[w]) = Cardinality(open[w]) + 1
      /\ Len(left'[w]) = Len(left[w]) - 1
  BY <1>6, <1>7, <1>8, ZenonT(40)
<1>10. Cardinality(open'[w]) + Len(left'[w]) = e.members
  BY <1>2, <1>7, <1>8, <1>9
<1>11. \A r \in open'[w] : r.batch = e.id
  BY <1>2, <1>3, <1>6
<1>12. \E f \in envelope'[w] :
         /\ envelope'[w] = {f}
         /\ IsFiniteSet(open'[w])
         /\ Cardinality(open'[w]) + Len(left'[w]) = f.members
         /\ \A r \in open'[w] : r.batch = f.id
  BY <1>1, <1>2, <1>9, <1>10, <1>11, ZenonT(40)
<1> QED
  BY <1>1, <1>6, <1>12, BatchFrame

\* A commit of a signed row leaves the batches in the log alone.
LEMMA CommitOfSigned ==
  ASSUME ChainInv, BatchInv, NEW w \in Writer, pc[w] = "signed", TakesPlace(w)
  PROVE  /\ envelopes' = envelopes
         /\ \A r \in open[w] : r.batch = None
         /\ \A e \in envelopes : Members(e)' = Members(e)
<1>1. None \notin Drawn
  BY NoneAssumption DEF ChainInv, TypeOK, Drawn
<1>2. envelope[w] = {} /\ \A r \in open[w] : r.batch = None
  BY DEF BatchInv, NothingOpen, ChainInv, SignedFollowsTip, SignedRow
<1>3. log' = log \cup open[w] /\ envelopes' = envelopes
  BY <1>2 DEF TakesPlace
<1>4. \A e \in envelopes : Members(e)' = Members(e)
  BY <1>1, <1>2, <1>3 DEF Members, BatchInv, EnvelopesDrawn
<1> QED
  BY <1>2, <1>3, <1>4

\* A commit of a batch puts its envelope and all of its rows in the log, and
\* gives no other envelope a row.
LEMMA CommitOfBatch ==
  ASSUME ChainInv, BatchInv, NEW w \in Writer,
         pc[w] = "batching", left[w] = <<>>, TakesPlace(w)
  PROVE  \E e \in envelope[w] :
           /\ envelopes' = envelopes \cup {e}
           /\ Cardinality(open[w]) = e.members
           /\ \A r \in open[w] : r.batch = e.id
           /\ \A f \in envelopes : Members(f)' = Members(f)
           /\ Members(e)' = open[w]
<1> USE DEF BatchInv
<1>1. /\ None \notin Drawn
      /\ log' = log \cup open[w] /\ envelopes' = envelopes \cup envelope[w]
  BY NoneAssumption DEF ChainInv, TypeOK, Drawn, TakesPlace
<1>2. PICK e \in envelope[w] :
        /\ envelope[w] = {e}
        /\ IsFiniteSet(open[w])
        /\ Cardinality(open[w]) + Len(left[w]) = e.members
        /\ \A r \in open[w] : r.batch = e.id
  BY ZenonT(40) DEF BatchCounts
<1>3. Cardinality(open[w]) = e.members
  <2>1. Len(left[w]) = 0
    BY EmptySeq
  <2>2. Cardinality(open[w]) \in Nat
    BY <1>2, FS_CardinalityType
  <2> QED
    BY <1>2, <2>1, <2>2
<1>4. envelopes' = envelopes \cup {e}
  BY <1>1, <1>2
<1>5. /\ \A f \in envelopes : f.id # e.id
      /\ e.id \in Drawn
  BY DEF EnvelopesDiffer, EnvelopesDrawn
<1>6. \A f \in envelopes : Members(f)' = Members(f)
  BY <1>1, <1>2, <1>5 DEF Members
<1>7. Members(e)' = open[w]
  <2>1. \A r \in log : r.batch # e.id
    BY <1>1, <1>5 DEF BatchesWhole
  <2> QED
    BY <1>1, <1>2, <2>1 DEF Members
<1> QED
  BY <1>2, <1>3, <1>4, <1>6, <1>7, ZenonT(40)

\* A commit that takes place publishes an envelope with all of its rows.
LEMMA BatchCommitStep ==
  ASSUME ChainInv, BatchInv, NEW w \in Writer, AtCommit(w), Ends(w),
         TakesPlace(w), UNCHANGED <<used, lastId>>
  PROVE  BatchInv'
<1> USE DEF BatchInv
<1>1. /\ TypeOK /\ Drawn' = Drawn /\ Drawn \subseteq Nat
      /\ log' = log \cup open[w] /\ envelopes' = envelopes \cup envelope[w]
      /\ pc'[w] = "idle" /\ open'[w] = {} /\ envelope'[w] = {}
      /\ \A u \in Writer \ {w} : /\ pc'[u] = pc[u] /\ open'[u] = open[u]
                                 /\ envelope'[u] = envelope[u]
                                 /\ left'[u] = left[u]
  BY EndsEffect DEF ChainInv, TakesPlace, Drawn
<1>2. EnvelopesDrawn'
  BY <1>1 DEF EnvelopesDrawn
<1>3. EnvelopesDiffer'
  BY <1>1 DEF EnvelopesDiffer
<1>4. NothingOpen'
  BY <1>1 DEF NothingOpen
<1>5. BatchCounts'
  <2> SUFFICES ASSUME NEW u \in Writer \ {w}, pc[u] = "batching"
               PROVE  \E e \in envelope'[u] :
                        /\ envelope'[u] = {e}
                        /\ IsFiniteSet(open'[u])
                        /\ Cardinality(open'[u]) + Len(left'[u]) = e.members
                        /\ \A r \in open'[u] : r.batch = e.id
    BY <1>1 DEF BatchCounts
  <2>1. /\ open'[u] = open[u] /\ envelope'[u] = envelope[u]
        /\ left'[u] = left[u]
    BY <1>1
  <2> QED
    BY <2>1, ZenonT(40) DEF BatchCounts
<1>6. CASE pc[w] = "signed"
  <2>1. /\ envelopes' = envelopes /\ \A r \in open[w] : r.batch = None
        /\ \A e \in envelopes : Members(e)' = Members(e)
    BY <1>6, CommitOfSigned
  <2>2. BatchesWhole'
    <3>1. \A e \in envelopes : Cardinality(Members(e)') = e.members
      BY <2>1, ZenonT(40) DEF BatchesWhole
    <3> QED
      BY <1>1, <2>1, <3>1 DEF BatchesWhole
  <2> QED
    BY <1>2, <1>3, <1>4, <1>5, <2>2
<1>7. CASE pc[w] = "batching" /\ left[w] = <<>>
  <2>1. PICK e \in envelope[w] :
          /\ envelopes' = envelopes \cup {e}
          /\ Cardinality(open[w]) = e.members
          /\ \A r \in open[w] : r.batch = e.id
          /\ \A f \in envelopes : Members(f)' = Members(f)
          /\ Members(e)' = open[w]
    BY <1>7, CommitOfBatch
  <2>2. ASSUME NEW f \in envelopes' PROVE Cardinality(Members(f)') = f.members
    <3>1. CASE f \in envelopes
      <4>1. Members(f)' = Members(f)
        BY <2>1, <3>1
      <4> QED
        BY <3>1, <4>1, ZenonT(40) DEF BatchesWhole
    <3>2. CASE f = e
      BY <2>1, <3>2, ZenonT(40)
    <3> QED
      BY <2>1, <3>1, <3>2
  <2>3. \A r \in log' : r.batch # None => \E f \in envelopes' : f.id = r.batch
    BY <1>1, <2>1 DEF BatchesWhole
  <2>4. BatchesWhole'
    BY <2>2, <2>3 DEF BatchesWhole
  <2> QED
    BY <1>2, <1>3, <1>4, <1>5, <2>4
<1> QED
  BY <1>6, <1>7 DEF AtCommit

\* A transaction that ends without taking place leaves no trace of a batch.
LEMMA BatchEndStep ==
  ASSUME ChainInv, BatchInv, NEW w \in Writer, Ends(w),
         UNCHANGED <<used, log, envelopes>>
  PROVE  BatchInv'
<1>1. TypeOK
  BY DEF ChainInv
<1> QED
  BY <1>1, EndsEffect, BatchFrame

\* The invariant of the batches is inductive, given that of the chains.
LEMMA BatchStep == ChainInv /\ BatchInv /\ [Next]_vars => BatchInv'
<1> SUFFICES ASSUME ChainInv, BatchInv, [Next]_vars PROVE BatchInv'
  OBVIOUS
<1>0. TypeOK
  BY DEF ChainInv
<1>1. ASSUME NEW w \in Writer, InsertSigned(w) PROVE BatchInv'
  <2>1. /\ used' = used + 1 /\ pc[w] = "idle" /\ pc'[w] = "signed"
        /\ \A u \in Writer \ {w} : pc'[u] = pc[u] /\ open'[u] = open[u]
        /\ UNCHANGED <<log, envelopes, envelope, left>>
    BY <1>0, <1>1 DEF InsertSigned, DrawId, TypeOK
  <2>2. envelope[w] = {}
    BY <2>1 DEF BatchInv, NothingOpen
  <2> QED
    BY <2>1, <2>2, BatchFrame
<1>2. ASSUME NEW w \in Writer, SignedRefused(w) PROVE BatchInv'
  <2>1. /\ used' = used + 1 /\ pc[w] = "idle" /\ pc'[w] = "refused"
        /\ \A u \in Writer \ {w} : pc'[u] = pc[u]
        /\ UNCHANGED <<log, envelopes, open, envelope, left>>
    BY <1>0, <1>2 DEF SignedRefused, DrawId, TypeOK
  <2>2. envelope[w] = {} /\ open[w] = {}
    BY <2>1 DEF BatchInv, NothingOpen
  <2> QED
    BY <2>1, <2>2, BatchFrame
<1>3. ASSUME NEW w \in Writer, SignedRaises(w) PROVE BatchInv'
  <2>1. /\ used' = used + 1 /\ pc'[w] = "raised"
        /\ \A u \in Writer \ {w} : pc'[u] = pc[u]
        /\ UNCHANGED <<log, envelopes, open, envelope, left>>
    BY <1>0, <1>3 DEF SignedRaises, DrawId, TypeOK
  <2> QED
    BY <2>1, BatchFrame
<1>4. ASSUME NEW w \in Writer, NEW n \in 1..MaxMembers,
             NEW entries \in [1..n -> Entry], InsertEnvelope(w, entries)
      PROVE  BatchInv'
  <2> DEFINE e == [id |-> used', members |-> Len(entries),
                   root |-> MerkleRoot(entries)]
  <2>1. /\ used' = used + 1 /\ pc[w] = "idle" /\ pc'[w] = "batching"
        /\ envelope'[w] = {e} /\ left'[w] = entries
        /\ \A u \in Writer \ {w} : /\ pc'[u] = pc[u]
                                   /\ envelope'[u] = envelope[u]
                                   /\ left'[u] = left[u]
        /\ UNCHANGED <<log, envelopes, open>>
    BY <1>0, <1>4 DEF InsertEnvelope, DrawId, TypeOK
  <2>2. e.id = used' /\ e.members = Len(entries)
    OBVIOUS
  <2> HIDE DEF e
  <2>3. open'[w] = {}
    BY <2>1 DEF BatchInv, NothingOpen
  <2>4. Len(entries) \in Nat
    BY BoundAssumption, EntriesAreSeq, LenProperties
  <2>5. /\ IsFiniteSet(open'[w])
        /\ Cardinality(open'[w]) + Len(left'[w]) = e.members
    <3>1. IsFiniteSet(open'[w]) /\ Cardinality(open'[w]) = 0
      BY <2>3, FS_EmptySet, ZenonT(40)
    <3>2. Len(left'[w]) = Len(entries)
      BY <2>1, ZenonT(40)
    <3> QED
      BY <2>2, <2>4, <3>1, <3>2
  <2>6. \E f \in envelope'[w] :
          /\ envelope'[w] = {f}
          /\ IsFiniteSet(open'[w])
          /\ Cardinality(open'[w]) + Len(left'[w]) = f.members
          /\ \A r \in open'[w] : r.batch = f.id
    BY <2>1, <2>3, <2>5, ZenonT(40)
  <2> QED
    BY <2>1, <2>2, <2>6, BatchFrame
<1>5. ASSUME NEW w \in Writer, NEW ts \in Readings, InsertMember(w, ts)
      PROVE  BatchInv'
  BY <1>5, InsertMemberStep
<1>6. ASSUME NEW w \in Writer, BatchRaises(w) PROVE BatchInv'
  <2>1. /\ pc[w] = "batching" /\ pc'[w] = "raised"
        /\ \A u \in Writer \ {w} : pc'[u] = pc[u]
        /\ UNCHANGED <<used, log, envelopes, open, envelope, left>>
    BY <1>0, <1>6 DEF BatchRaises, TypeOK
  <2> QED
    BY <2>1, BatchFrame
<1>7. ASSUME NEW w \in Writer, Commit(w) \/ CommitRaises(w) PROVE BatchInv'
  BY <1>7, BatchCommitStep, BatchEndStep
     DEF Commit, CommitRaises, HasMovedOn, IsLost
<1>8. ASSUME NEW w \in Writer, Rollback(w) PROVE BatchInv'
  BY <1>8, BatchEndStep DEF Rollback
<1>9. CASE UNCHANGED vars
  <2>1. \A e : Members(e)' = Members(e)
    BY <1>9 DEF vars, Members
  <2> QED
    BY <1>9, <2>1 DEF vars, BatchInv, EnvelopesDrawn, Drawn, EnvelopesDiffer,
       NothingOpen, BatchCounts, BatchesWhole
<1> QED
  BY <1>1, <1>2, <1>3, <1>4, <1>5, <1>6, <1>7, <1>8, <1>9 DEF Next

\* It holds before the first write.
LEMMA BatchInit == Init => BatchInv
  BY DEF Init, BatchInv, EnvelopesDrawn, EnvelopesDiffer, NothingOpen,
         BatchCounts, BatchesWhole

\* Batches are whole or absent: an envelope in the table has all of its rows,
\* and no row refers to an envelope that is not there.
THEOREM BatchesWholeHolds == Spec => []BatchesWhole
<1>1. BatchInv => BatchesWhole
  BY DEF BatchInv
<1> QED
  BY <1>1, ChainInit, ChainStep, BatchInit, BatchStep, PTL DEF Spec

-----------------------------------------------------------------------------
\* Every non-empty set of naturals has a least element.
LEMMA LeastNatural ==
  ASSUME NEW T \in SUBSET Nat, T # {}
  PROVE  \E m \in T : \A n \in T : m <= n
<1> DEFINE R == OpToRel(<, Nat)
<1>1. IsWellFoundedOn(R, Nat)
  BY NatLessThanWellFounded, Zenon
<1>2. \A m, n \in Nat : m < n => <<m, n>> \in R
  BY Zenon DEF OpToRel
<1> HIDE DEF R
<1>3. PICK m \in T : \A n \in T : ~ (<<n, m>> \in R)
  BY <1>1, WFMin
<1>4. \A n \in T : ~ (n < m)
  BY <1>2, <1>3
<1> QED
  BY <1>4

\* Induction, with a set in place of a predicate.
LEMMA SetInduction ==
  ASSUME NEW T, 0 \in T, \A n \in Nat : n \in T => n + 1 \in T
  PROVE  Nat \subseteq T
<1> SUFFICES ASSUME Nat \ T # {} PROVE FALSE
  OBVIOUS
<1>1. PICK m \in Nat \ T : \A n \in Nat \ T : m <= n
  BY LeastNatural
<1>2. m - 1 \in Nat /\ m - 1 \in T
  BY <1>1
<1> QED
  BY <1>1, <1>2

-----------------------------------------------------------------------------
Leaves(members) == [i \in DOMAIN members |-> <<members[i]>>]
Reduced(layer)  == IF Len(layer) = 1 THEN layer ELSE Above(layer)

\* The recursion of Layers is well defined: it satisfies its own equation.
LEMMA LayersDef ==
  ASSUME NEW a, Len(a) \in Nat
  PROVE  Layers(a) = [d \in 0..Len(a) |-> IF d = 0 THEN Leaves(a)
                                          ELSE Reduced(Layers(a)[d - 1])]
<1> DEFINE Solves(f, n) == f = [d \in 0..n |-> IF d = 0 THEN Leaves(a)
                                              ELSE Reduced(f[d - 1])]
           T == {n \in Nat : \E f : Solves(f, n)}
<1>1. 0 \in T
  <2>1. Solves([d \in 0..0 |-> Leaves(a)], 0)
    OBVIOUS
  <2> QED
    BY <2>1
<1>2. ASSUME NEW n \in Nat, n \in T PROVE n + 1 \in T
  <2>1. PICK f : Solves(f, n)
    BY <1>2
  <2> DEFINE g == [d \in 0..(n + 1) |-> IF d = n + 1 THEN Reduced(f[n]) ELSE f[d]]
  <2>2. /\ \A d \in 0..n : f[d] = IF d = 0 THEN Leaves(a) ELSE Reduced(f[d - 1])
        /\ \A d \in 0..n : g[d] = f[d]
        /\ g[n + 1] = Reduced(f[n])
    BY <2>1
  <2>3. ASSUME NEW d \in 0..(n + 1)
        PROVE  g[d] = IF d = 0 THEN Leaves(a) ELSE Reduced(g[d - 1])
    <3>1. CASE d = n + 1
      BY <2>2, <3>1
    <3>2. CASE d # n + 1
      <4>1. d \in 0..n /\ (d # 0 => d - 1 \in 0..n)
        BY <3>2
      <4> QED
        BY <2>2, <4>1
    <3> QED
      BY <3>1, <3>2
  <2>4. Solves(g, n + 1)
    BY <2>3
  <2> HIDE DEF g, Solves
  <2> QED
    BY <2>4
<1>3. PICK f : Solves(f, Len(a))
  BY <1>1, <1>2, SetInduction
<1>4. Solves(CHOOSE g : Solves(g, Len(a)), Len(a))
  BY <1>3
<1>5. Layers(a) = CHOOSE g : Solves(g, Len(a))
  BY DEF Layers, Leaves, Reduced
<1> QED
  BY <1>4, <1>5

\* What a layer is: a sequence of k digests.
IsLayer(layer, k) == /\ k \in Nat \ {0}
                     /\ layer = [i \in 1..k |-> layer[i]]

LEMMA LayerLen ==
  ASSUME NEW layer, NEW k, IsLayer(layer, k)
  PROVE  Len(layer) = k /\ DOMAIN layer = 1..k
<1> DEFINE S == {layer[i] : i \in 1..k}
<1>1. k \in Nat \ {0} /\ layer = [i \in 1..k |-> layer[i]]
  BY DEF IsLayer
<1>2. layer \in [1..k -> S] /\ DOMAIN layer = 1..k
  BY <1>1
<1>3. layer \in Seq(S)
  BY <1>1, <1>2, SeqDef
<1>4. Len(layer) \in Nat /\ DOMAIN layer = 1..Len(layer)
  BY <1>3, LenProperties
<1> QED
  BY <1>1, <1>2, <1>4

\* How many digests one turn of the loop leaves of k.
Half(k) == IF k = 1 THEN 1 ELSE (k + 1) \div 2

\* One turn of the loop makes a layer of fewer digests, and no two layers of
\* the same size come to the same one.
LEMMA TurnOfLoop ==
  ASSUME NEW a, NEW b, NEW k, IsLayer(a, k), IsLayer(b, k)
  PROVE  /\ IsLayer(Reduced(a), Half(k))
         /\ IsLayer(Reduced(b), Half(k))
         /\ Half(k) \in 1..(IF k = 1 THEN 1 ELSE k - 1)
         /\ Reduced(a) = Reduced(b) => a = b
<1>1. k \in Nat \ {0} /\ Len(a) = k /\ Len(b) = k
  BY LayerLen DEF IsLayer
<1>2. CASE k = 1
  BY <1>1, <1>2 DEF Reduced, Half
<1>3. CASE k # 1
  <2>1. Reduced(a) = Above(a) /\ Reduced(b) = Above(b)
    BY <1>1, <1>3 DEF Reduced
  <2>2. /\ Half(k) = (k + 1) \div 2 /\ Half(k) \in 1..(k - 1)
        /\ Pairs(a) = Half(k) /\ Pairs(b) = Half(k)
    BY <1>1, <1>3 DEF Half, Pairs
  <2> DEFINE Right(i) == IF 2*i <= k THEN 2*i ELSE 2*i - 1
  <2>3. /\ Above(a) = [i \in 1..Half(k) |-> <<a[2*i - 1], a[Right(i)]>>]
        /\ Above(b) = [i \in 1..Half(k) |-> <<b[2*i - 1], b[Right(i)]>>]
    BY <1>1, <2>2 DEF Above
  <2>4. IsLayer(Above(a), Half(k)) /\ IsLayer(Above(b), Half(k))
    <3>1. /\ Above(a) = [i \in 1..Half(k) |-> Above(a)[i]]
          /\ Above(b) = [i \in 1..Half(k) |-> Above(b)[i]]
      <4> HIDE DEF Right
      <4> QED
        BY <2>3, Zenon
    <3> QED
      BY <2>2, <3>1 DEF IsLayer
  <2>5. ASSUME Above(a) = Above(b) PROVE a = b
    <3>1. ASSUME NEW i \in 1..Half(k)
          PROVE  a[2*i - 1] = b[2*i - 1] /\ a[Right(i)] = b[Right(i)]
      <4>1. <<a[2*i - 1], a[Right(i)]>> = <<b[2*i - 1], b[Right(i)]>>
        <5>1. Above(a)[i] = Above(b)[i]
          BY <2>5
        <5> HIDE DEF Right
        <5> QED
          BY <2>3, <5>1
      <4> QED
        BY <4>1
    <3>2. ASSUME NEW j \in 1..k PROVE a[j] = b[j]
      <4> DEFINE i == (j + 1) \div 2
      <4>1. i \in 1..Half(k) /\ (j = 2*i - 1 \/ j = 2*i)
        BY <1>1, <2>2
      <4>2. j = 2*i - 1 \/ j = Right(i)
        BY <1>1, <4>1
      <4> HIDE DEF i, Right
      <4> QED
        BY <3>1, <4>1, <4>2
    <3> QED
      BY <3>2 DEF IsLayer
  <2> QED
    BY <1>3, <2>1, <2>2, <2>4, <2>5
<1> QED
  BY <1>2, <1>3

\* Two lists of as many entries with the same root are the same list, when
\* no two things have the same digest.
THEOREM MerkleRootInjective ==
  ASSUME NEW S, NEW n \in Nat \ {0}, NEW a \in [1..n -> S], NEW b \in [1..n -> S],
         MerkleRoot(a) = MerkleRoot(b)
  PROVE  a = b
<1> DEFINE Bound(d) == IF d < n THEN n - d ELSE 1
           Good(d, k) == /\ IsLayer(Layers(a)[d], k) /\ IsLayer(Layers(b)[d], k)
                         /\ Layers(a)[d] = Layers(b)[d] => a = b
           T == {d \in Nat : d <= n => \E k \in 1..Bound(d) : Good(d, k)}
<1>1. /\ Len(a) = n /\ DOMAIN a = 1..n /\ Len(b) = n /\ DOMAIN b = 1..n
  <2>1. IsLayer(a, n) /\ IsLayer(b, n)
    BY DEF IsLayer
  <2> QED
    BY <2>1, LayerLen
<1>2. /\ Layers(a)[0] = Leaves(a) /\ Layers(b)[0] = Leaves(b)
      /\ \A d \in 1..n : /\ Layers(a)[d] = Reduced(Layers(a)[d - 1])
                         /\ Layers(b)[d] = Reduced(Layers(b)[d - 1])
  <2>1. /\ Layers(a) = [d \in 0..n |-> IF d = 0 THEN Leaves(a)
                                       ELSE Reduced(Layers(a)[d - 1])]
        /\ Layers(b) = [d \in 0..n |-> IF d = 0 THEN Leaves(b)
                                       ELSE Reduced(Layers(b)[d - 1])]
    BY <1>1, LayersDef
  <2>2. 0 \in 0..n /\ \A d \in 1..n : d \in 0..n /\ d # 0
    OBVIOUS
  <2> QED
    BY <2>1, <2>2
<1>3. 0 \in T
  <2>1. IsLayer(Leaves(a), n) /\ IsLayer(Leaves(b), n)
    BY <1>1 DEF IsLayer, Leaves
  <2>2. ASSUME Leaves(a) = Leaves(b) PROVE a = b
    <3>1. \A i \in 1..n : <<a[i]>> = <<b[i]>>
      <4>1. \A i \in 1..n : Leaves(a)[i] = Leaves(b)[i]
        BY <2>2
      <4> QED
        BY <1>1, <4>1 DEF Leaves
    <3>2. \A i \in 1..n : a[i] = b[i]
      BY <3>1
    <3> QED
      BY <3>2
  <2>3. Good(0, n) /\ n \in 1..Bound(0)
    BY <1>2, <2>1, <2>2
  <2> HIDE DEF Good, Bound
  <2> QED
    BY <2>3
<1>4. ASSUME NEW d \in Nat, d \in T PROVE d + 1 \in T
  <2> SUFFICES ASSUME d + 1 <= n
               PROVE  \E k \in 1..Bound(d + 1) : Good(d + 1, k)
    OBVIOUS
  <2>1. PICK k \in 1..Bound(d) : Good(d, k)
    BY <1>4
  <2>2. /\ Layers(a)[d + 1] = Reduced(Layers(a)[d])
        /\ Layers(b)[d + 1] = Reduced(Layers(b)[d])
    <3>1. d + 1 \in 1..n /\ (d + 1) - 1 = d
      OBVIOUS
    <3> QED
      BY <1>2, <3>1
  <2>3. Good(d + 1, Half(k)) /\ Half(k) \in 1..(IF k = 1 THEN 1 ELSE k - 1)
    <3> DEFINE la == Layers(a)[d]
               lb == Layers(b)[d]
    <3>1. IsLayer(la, k) /\ IsLayer(lb, k) /\ (la = lb => a = b)
      BY <2>1
    <3>2. /\ Layers(a)[d + 1] = Reduced(la)
          /\ Layers(b)[d + 1] = Reduced(lb)
      BY <2>2
    <3> HIDE DEF la, lb
    <3>3. /\ IsLayer(Reduced(la), Half(k)) /\ IsLayer(Reduced(lb), Half(k))
          /\ Half(k) \in 1..(IF k = 1 THEN 1 ELSE k - 1)
          /\ Reduced(la) = Reduced(lb) => la = lb
      BY <3>1, TurnOfLoop
    <3> QED
      BY <3>1, <3>2, <3>3
  <2>4. Half(k) \in 1..Bound(d + 1)
    BY <2>1, <2>3
  <2> HIDE DEF Good, Bound
  <2> QED
    BY <2>3, <2>4
<1>5. PICK k \in 1..Bound(n) : Good(n, k)
  <2>1. n \in T
    <3> HIDE DEF T
    <3> QED
      BY <1>3, <1>4, SetInduction
  <2> QED
    BY <2>1
<1>6. k = 1
  BY <1>5
<1>7. Layers(a)[n][1] = Layers(b)[n][1]
  BY <1>1 DEF MerkleRoot
<1>8. Layers(a)[n] = Layers(b)[n]
  BY <1>5, <1>6, <1>7 DEF IsLayer
<1> QED
  BY <1>5, <1>8

-----------------------------------------------------------------------------
(***************************************************************************)
(* The rows of a batch carry the first n entries of its list, one each, in *)
(* the order in which they were inserted.                                  *)
(***************************************************************************)
InOrder(rows, list, n) ==
  \E at \in [1..n -> rows] :
    /\ \A r \in rows : \E i \in 1..n : at[i] = r
    /\ \A i, j \in 1..n : i < j => at[i].id < at[j].id
    /\ \A i \in 1..n : /\ at[i].id \in Nat /\ at[i].ts \in Nat
                       /\ at[i].entry = list[i]
(***************************************************************************)
(* What an envelope vouches for: while its batch is inserted, and once it  *)
(* is committed, there is a list with its root whose first entries are     *)
(* those of the rows, in the order of their inserts, and whose rest is     *)
(* what the writer has left.                                               *)
(***************************************************************************)
VouchesFor(e, list) == e.members \in Nat \ {0} /\ e.root = MerkleRoot(list)

Lists(rows, rest, e) ==
  \E list \in [1..e.members -> Entry] : \E n \in 0..e.members :
    /\ VouchesFor(e, list)
    /\ InOrder(rows, list, n)
    /\ Len(rest) = e.members - n
    /\ \A i \in 1..Len(rest) : rest[i] = list[n + i]

OpenListed ==
  \A w \in Writer : pc[w] = "batching" =>
    \A e \in envelope[w] : Lists(open[w], left[w], e)

LogListed == \A e \in envelopes : Lists(Members(e), <<>>, e)

ListedInv == OpenListed /\ LogListed

\* A batch starts with all of its list to be inserted.
LEMMA ListsAll ==
  ASSUME NEW m \in Nat \ {0}, NEW entries \in [1..m -> Entry],
         NEW e, e.members = Len(entries), e.root = MerkleRoot(entries)
  PROVE  Lists({}, entries, e)
<1>1. Len(entries) = m
  <2>1. IsLayer(entries, m)
    BY DEF IsLayer
  <2> QED
    BY <2>1, LayerLen
<1>2. VouchesFor(e, entries)
  BY <1>1 DEF VouchesFor
<1>3. InOrder({}, entries, 0)
  <2>1. [i \in 1..0 |-> i] \in [1..0 -> {}]
    OBVIOUS
  <2> QED
    BY <2>1 DEF InOrder
<1> QED
  BY <1>1, <1>2, <1>3 DEF Lists

\* A row inserted after the others carries the entry after theirs.
LEMMA OneMoreInOrder ==
  ASSUME NEW rows, NEW list, NEW n \in Nat, InOrder(rows, list, n),
         NEW row, row.id \in Nat, row.ts \in Nat, row.entry = list[n + 1],
         \A r \in rows : r.id < row.id
  PROVE  InOrder(rows \cup {row}, list, n + 1)
<1>1. PICK at \in [1..n -> rows] :
        /\ \A r \in rows : \E i \in 1..n : at[i] = r
        /\ \A i, j \in 1..n : i < j => at[i].id < at[j].id
        /\ \A i \in 1..n : /\ at[i].id \in Nat /\ at[i].ts \in Nat
                           /\ at[i].entry = list[i]
  BY DEF InOrder
<1> DEFINE more == [i \in 1..(n + 1) |-> IF i = n + 1 THEN row ELSE at[i]]
<1>2. /\ \A i \in 1..n : more[i] = at[i]
      /\ more[n + 1] = row
      /\ \A i \in 1..(n + 1) : i \in 1..n \/ i = n + 1
      /\ 1..n \subseteq 1..(n + 1) /\ n + 1 \in 1..(n + 1)
  OBVIOUS
<1>3. more \in [1..(n + 1) -> rows \cup {row}]
  OBVIOUS
<1> HIDE DEF more
<1>4. \A r \in rows \cup {row} : \E i \in 1..(n + 1) : more[i] = r
  BY <1>1, <1>2
<1>5. ASSUME NEW i \in 1..(n + 1), NEW j \in 1..(n + 1), i < j
      PROVE  more[i].id < more[j].id
  <2>1. i \in 1..n /\ more[i] = at[i] /\ at[i] \in rows
    BY <1>2, <1>5
  <2>2. CASE j \in 1..n
    BY <1>1, <1>2, <1>5, <2>1, <2>2
  <2>3. CASE j = n + 1
    BY <1>2, <2>1, <2>3
  <2> QED
    BY <1>2, <2>2, <2>3
<1>6. \A i \in 1..(n + 1) : /\ more[i].id \in Nat /\ more[i].ts \in Nat
                            /\ more[i].entry = list[i]
  BY <1>1, <1>2
<1> QED
  BY <1>3, <1>4, <1>5, <1>6 DEF InOrder

\* The head of what is left goes to the rows.
LEMMA ListsNext ==
  ASSUME NEW rows, NEW rest \in Seq(Entry), rest # <<>>, NEW e,
         Lists(rows, rest, e),
         NEW row, row.id \in Nat, row.ts \in Nat, row.entry = Head(rest),
         \A r \in rows : r.id < row.id
  PROVE  Lists(rows \cup {row}, Tail(rest), e)
<1>1. PICK list \in [1..e.members -> Entry] : \E n \in 0..e.members :
        /\ VouchesFor(e, list)
        /\ InOrder(rows, list, n)
        /\ Len(rest) = e.members - n
        /\ \A i \in 1..Len(rest) : rest[i] = list[n + i]
  BY DEF Lists
<1>2. PICK n \in 0..e.members :
        /\ VouchesFor(e, list)
        /\ InOrder(rows, list, n)
        /\ Len(rest) = e.members - n
        /\ \A i \in 1..Len(rest) : rest[i] = list[n + i]
  BY <1>1
<1>3. /\ Len(rest) \in Nat \ {0} /\ Head(rest) = rest[1]
      /\ Len(Tail(rest)) = Len(rest) - 1
      /\ \A i \in 1..Len(Tail(rest)) : Tail(rest)[i] = rest[i + 1]
  BY EmptySeq, LenProperties, HeadTailProperties
<1>4. e.members \in Nat \ {0} /\ n \in Nat
  BY <1>2 DEF VouchesFor
<1>5. n + 1 \in 0..e.members /\ Len(Tail(rest)) = e.members - (n + 1)
  BY <1>2, <1>3, <1>4
<1>6. row.entry = list[n + 1]
  <2>1. 1 \in 1..Len(rest)
    BY <1>3
  <2> QED
    BY <1>2, <1>3, <2>1
<1>7. InOrder(rows \cup {row}, list, n + 1)
  BY <1>2, <1>4, <1>6, OneMoreInOrder
<1>8. \A i \in 1..Len(Tail(rest)) : Tail(rest)[i] = list[(n + 1) + i]
  <2> SUFFICES ASSUME NEW i \in 1..Len(Tail(rest))
               PROVE  Tail(rest)[i] = list[(n + 1) + i]
    OBVIOUS
  <2>1. i + 1 \in 1..Len(rest) /\ n + (i + 1) = (n + 1) + i
    BY <1>3
  <2> QED
    BY <1>2, <1>3, <2>1
<1> QED
  BY <1>2, <1>5, <1>7, <1>8 DEF Lists

\* A step that commits nothing, and leaves the open batches of the other
\* writers alone.
LEMMA ListedFrame ==
  ASSUME ListedInv, NEW w \in Writer, UNCHANGED <<log, envelopes>>,
         \A u \in Writer \ {w} : /\ pc'[u] = pc[u] /\ open'[u] = open[u]
                                 /\ envelope'[u] = envelope[u]
                                 /\ left'[u] = left[u],
         pc'[w] = "batching" =>
           \A e \in envelope'[w] : Lists(open'[w], left'[w], e)
  PROVE  ListedInv'
<1>1. OpenListed'
  <2> SUFFICES ASSUME NEW u \in Writer, pc'[u] = "batching",
                      NEW e \in envelope'[u]
               PROVE  Lists(open'[u], left'[u], e)
    BY DEF OpenListed
  <2>1. CASE u = w
    BY <2>1
  <2>2. CASE u # w
    <3>1. /\ pc[u] = "batching" /\ e \in envelope[u]
          /\ open'[u] = open[u] /\ left'[u] = left[u]
      BY <2>2
    <3>2. Lists(open[u], left[u], e)
      BY <3>1 DEF ListedInv, OpenListed
    <3> QED
      BY <3>1, <3>2
  <2> QED
    BY <2>1, <2>2
<1>2. LogListed'
  <2>1. \A e : Members(e)' = Members(e)
    BY DEF Members
  <2> QED
    BY <2>1 DEF ListedInv, LogListed
<1> QED
  BY <1>1, <1>2 DEF ListedInv

\* A commit: what an open envelope vouched for, it goes on to vouch for.
LEMMA ListedCommitStep ==
  ASSUME ChainInv, BatchInv, ListedInv, NEW w \in Writer,
         AtCommit(w), Ends(w), TakesPlace(w)
  PROVE  ListedInv'
<1>1. /\ pc'[w] = "idle"
      /\ \A u \in Writer \ {w} : /\ pc'[u] = pc[u] /\ open'[u] = open[u]
                                 /\ envelope'[u] = envelope[u]
                                 /\ left'[u] = left[u]
  BY EndsEffect DEF ChainInv
<1>2. OpenListed'
  <2> SUFFICES ASSUME NEW u \in Writer, pc'[u] = "batching",
                      NEW e \in envelope'[u]
               PROVE  Lists(open'[u], left'[u], e)
    BY DEF OpenListed
  <2>1. /\ pc[u] = "batching" /\ e \in envelope[u]
        /\ open'[u] = open[u] /\ left'[u] = left[u]
    BY <1>1
  <2>2. Lists(open[u], left[u], e)
    BY <2>1 DEF ListedInv, OpenListed
  <2> QED
    BY <2>1, <2>2
<1>3. LogListed'
  <2>0. \A e \in envelopes : Lists(Members(e), <<>>, e)
    BY DEF ListedInv, LogListed
  <2>1. CASE pc[w] = "signed"
    <3>1. envelopes' = envelopes /\ \A e \in envelopes : Members(e)' = Members(e)
      BY <2>1, CommitOfSigned
    <3>2. \A e \in envelopes : Lists(Members(e)', <<>>, e)
      BY <2>0, <3>1
    <3> QED
      BY <3>1, <3>2 DEF LogListed
  <2>2. CASE pc[w] = "batching" /\ left[w] = <<>>
    <3>1. PICK e \in envelope[w] :
            /\ envelopes' = envelopes \cup {e}
            /\ \A f \in envelopes : Members(f)' = Members(f)
            /\ Members(e)' = open[w]
      BY <2>2, CommitOfBatch
    <3>2. Lists(open[w], <<>>, e)
      <4>1. Lists(open[w], left[w], e)
        BY <2>2 DEF ListedInv, OpenListed
      <4> QED
        BY <2>2, <4>1
    <3>3. \A f \in envelopes' : Lists(Members(f)', <<>>, f)
      BY <2>0, <3>1, <3>2
    <3> QED
      BY <3>3 DEF LogListed
  <2> QED
    BY <2>1, <2>2 DEF AtCommit
<1> QED
  BY <1>2, <1>3 DEF ListedInv

\* It is inductive, given the invariants of the chains and of the batches.
LEMMA ListedStep == ChainInv /\ BatchInv /\ ListedInv /\ [Next]_vars => ListedInv'
<1> SUFFICES ASSUME ChainInv, BatchInv, ListedInv, [Next]_vars PROVE ListedInv'
  OBVIOUS
<1>0. TypeOK
  BY DEF ChainInv
<1>1. ASSUME NEW w \in Writer, InsertSigned(w) PROVE ListedInv'
  <2>1. /\ pc'[w] = "signed"
        /\ \A u \in Writer \ {w} : pc'[u] = pc[u] /\ open'[u] = open[u]
        /\ UNCHANGED <<log, envelopes, envelope, left>>
    BY <1>0, <1>1 DEF InsertSigned, TypeOK
  <2> QED
    BY <2>1, ListedFrame
<1>2. ASSUME NEW w \in Writer, SignedRefused(w) PROVE ListedInv'
  <2>1. /\ pc'[w] = "refused"
        /\ \A u \in Writer \ {w} : pc'[u] = pc[u]
        /\ UNCHANGED <<log, envelopes, open, envelope, left>>
    BY <1>0, <1>2 DEF SignedRefused, TypeOK
  <2> QED
    BY <2>1, ListedFrame
<1>3. ASSUME NEW w \in Writer, SignedRaises(w) PROVE ListedInv'
  <2>1. /\ pc'[w] = "raised"
        /\ \A u \in Writer \ {w} : pc'[u] = pc[u]
        /\ UNCHANGED <<log, envelopes, open, envelope, left>>
    BY <1>0, <1>3 DEF SignedRaises, TypeOK
  <2> QED
    BY <2>1, ListedFrame
<1>4. ASSUME NEW w \in Writer, NEW n \in 1..MaxMembers,
             NEW entries \in [1..n -> Entry], InsertEnvelope(w, entries)
      PROVE  ListedInv'
  <2> DEFINE e == [id |-> used', members |-> Len(entries),
                   root |-> MerkleRoot(entries)]
  <2>1. /\ pc[w] = "idle" /\ envelope'[w] = {e} /\ left'[w] = entries
        /\ \A u \in Writer \ {w} : /\ pc'[u] = pc[u]
                                   /\ envelope'[u] = envelope[u]
                                   /\ left'[u] = left[u]
        /\ UNCHANGED <<log, envelopes, open>>
    BY <1>0, <1>4 DEF InsertEnvelope, TypeOK
  <2>2. e.members = Len(entries) /\ e.root = MerkleRoot(entries)
    OBVIOUS
  <2> HIDE DEF e
  <2>3. open'[w] = {}
    BY <2>1 DEF BatchInv, NothingOpen
  <2>4. Lists({}, entries, e)
    BY <2>2, BoundAssumption, ListsAll
  <2>5. \A f \in envelope'[w] : Lists(open'[w], left'[w], f)
    BY <2>1, <2>3, <2>4
  <2> QED
    BY <2>1, <2>5, ListedFrame
<1>5. ASSUME NEW w \in Writer, NEW ts \in Readings, InsertMember(w, ts)
      PROVE  ListedInv'
  <2>1. /\ pc[w] = "batching" /\ left[w] # <<>> /\ left[w] \in Seq(Entry)
        /\ used' = used + 1 /\ used \in Nat
        /\ left' = [left EXCEPT ![w] = Tail(left[w])]
        /\ UNCHANGED <<log, envelopes, pc, envelope>>
    BY <1>0, <1>5 DEF InsertMember, DrawId, TypeOK
  <2>2. PICK e \in envelope[w] : envelope[w] = {e}
    BY <2>1, ZenonT(40) DEF BatchInv, BatchCounts
  <2> DEFINE row == MemberRow(used', e.id, Head(left[w]), ts)
  <2>3. /\ row.id = used' /\ row.ts = ts /\ ts \in Nat
        /\ row.entry = Head(left[w])
    BY BoundAssumption DEF MemberRow, Readings
  <2>4. open' = [open EXCEPT ![w] = open[w] \cup {row}]
    BY <1>5, <2>2 DEF InsertMember
  <2> HIDE DEF row
  <2>5. /\ open'[w] = open[w] \cup {row}
        /\ left'[w] = Tail(left[w])
        /\ \A u \in Writer \ {w} : open'[u] = open[u] /\ left'[u] = left[u]
    BY <1>0, <2>1, <2>4 DEF TypeOK
  <2>6. row.id \in Nat /\ \A r \in open[w] : r.id < row.id
    BY <2>1, <2>3 DEF ChainInv, IdsDrawn, Drawn
  <2>7. Lists(open[w], left[w], e)
    BY <2>1 DEF ListedInv, OpenListed
  <2>8. Lists(open[w] \cup {row}, Tail(left[w]), e)
    BY <2>1, <2>3, <2>6, <2>7, ListsNext
  <2>9. \A f \in envelope'[w] : Lists(open'[w], left'[w], f)
    BY <2>1, <2>2, <2>5, <2>8
  <2> QED
    BY <2>1, <2>5, <2>9, ListedFrame
<1>6. ASSUME NEW w \in Writer, BatchRaises(w) PROVE ListedInv'
  <2>1. /\ pc'[w] = "raised"
        /\ \A u \in Writer \ {w} : pc'[u] = pc[u]
        /\ UNCHANGED <<log, envelopes, open, envelope, left>>
    BY <1>0, <1>6 DEF BatchRaises, TypeOK
  <2> QED
    BY <2>1, ListedFrame
<1>7. ASSUME NEW w \in Writer, Ends(w), UNCHANGED <<log, envelopes>>
      PROVE  ListedInv'
  BY <1>0, <1>7, EndsEffect, ListedFrame
<1>8. CASE UNCHANGED vars
  <2>1. \A e : Members(e)' = Members(e)
    BY <1>8 DEF vars, Members
  <2> QED
    BY <1>8, <2>1 DEF vars, ListedInv, OpenListed, LogListed
<1> QED
  BY <1>1, <1>2, <1>3, <1>4, <1>5, <1>6, <1>7, <1>8, ListedCommitStep
     DEF Next, Commit, CommitRaises, IsLost, Rollback

\* It holds before the first write.
LEMMA ListedInit == Init => ListedInv
  BY DEF Init, ListedInv, OpenListed, LogListed

\* An envelope that vouches for a list vouches for the entries of its rows,
\* in an order of their clock readings, and for no other list.
LEMMA ListedVerifies == ListedInv => BatchVerifies
<1> SUFFICES ASSUME ListedInv, NEW e \in envelopes,
                    \A r, s \in Members(e) : r.id < s.id => r.ts <= s.ts
             PROVE  \E at \in ByTime(Members(e), e.members) :
                      {list \in [1..e.members -> Entry] : MerkleRoot(list) = e.root}
                        = {[i \in 1..e.members |-> at[i].entry]}
  BY DEF BatchVerifies
<1>1. Lists(Members(e), <<>>, e)
  BY DEF ListedInv, LogListed
<1>2. PICK list \in [1..e.members -> Entry] : \E n \in 0..e.members :
        /\ VouchesFor(e, list)
        /\ InOrder(Members(e), list, n)
        /\ Len(<<>>) = e.members - n
  BY <1>1 DEF Lists
<1>3. /\ e.members \in Nat \ {0} /\ MerkleRoot(list) = e.root
      /\ InOrder(Members(e), list, e.members)
  <2>1. e.members \in Nat \ {0} /\ MerkleRoot(list) = e.root
    BY <1>2 DEF VouchesFor
  <2>2. PICK n \in 0..e.members : /\ InOrder(Members(e), list, n)
                                  /\ Len(<<>>) = e.members - n
    BY <1>2
  <2>3. n = e.members
    BY <2>1, <2>2, EmptySeq
  <2> QED
    BY <2>1, <2>2, <2>3
<1>4. PICK at \in [1..e.members -> Members(e)] :
        /\ \A r \in Members(e) : \E i \in 1..e.members : at[i] = r
        /\ \A i, j \in 1..e.members : i < j => at[i].id < at[j].id
        /\ \A i \in 1..e.members : /\ at[i].id \in Nat /\ at[i].ts \in Nat
                                   /\ at[i].entry = list[i]
  BY <1>3 DEF InOrder
<1>5. \A other \in [1..e.members -> Entry] :
        MerkleRoot(other) = e.root => other = list
  BY <1>3, MerkleRootInjective
<1>6. {other \in [1..e.members -> Entry] : MerkleRoot(other) = e.root} = {list}
  BY <1>3, <1>5
<1>7. ASSUME NEW i \in 1..e.members, NEW j \in 1..e.members, i < j
      PROVE  at[i] # at[j] /\ at[i].ts <= at[j].ts
  <2>1. /\ at[i].id < at[j].id /\ at[i].id \in Nat
        /\ at[i] \in Members(e) /\ at[j] \in Members(e)
    BY <1>4, <1>7
  <2> QED
    BY <2>1
<1>8. at \in ByTime(Members(e), e.members)
  BY <1>4, <1>7 DEF ByTime
<1>9. [i \in 1..e.members |-> at[i].entry] = list
  BY <1>4
<1> QED
  BY <1>6, <1>8, <1>9

\* Verifying a batch reduces to verifying its root: the list an envelope
\* vouches for is that of its rows in an order of their clock readings, and no
\* other, unless the clock went back.
THEOREM BatchVerifiesHolds == Spec => []BatchVerifies
<1>1. ChainInv /\ BatchInv /\ ListedInv => BatchVerifies
  BY ListedVerifies
<1> QED
  BY <1>1, ChainInit, ChainStep, BatchInit, BatchStep, ListedInit, ListedStep,
     PTL DEF Spec
=============================================================================
