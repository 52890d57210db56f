# Specifications of kairos-evolve

TLA+ models of the parts of kairos-evolve whose behaviour depends on what
happens at the same time, in which order, or half of the time: the routing
service `evolve-api` over Postgres, the jobs the gateway dispatches to it, the
envelopes every write is signed in, the `prompts` command, the audit writers
and the constraint gates. TLC checks each
model on a small instance; TLAPS proves every safety property and every refinement
for every number of requests, scopes, events, batches, skills, keys, connections,
writers and runs. Liveness is left to TLC.

Paths below are relative to `packages/kairos_evolve/`.

    tlc -workers 2 -config PolicyVersions.cfg PolicyVersions
    tlapm PolicyVersions_proofs.tla

## The system

A write (`POST /v1/...`) passes the envelope verification, then the
idempotency middleware, which holds a connection of the pool until it has
answered, then its handler, which takes more connections of the same pool. The
service is asynchronous: another request may run at every `await`, and other
instances of the service at every moment. All state that outlives a request is
in Postgres, at READ COMMITTED (nothing in the code asks for more).

| Component | State it keeps | Operations | What makes it correct |
| --- | --- | --- | --- |
| Routing policy versions (`core/routing_store.py`, `api/routes/routing.py:185-270`) | rows of `routing_policy_versions`, the pointer in `routing_policies`, audit rows of bumps | read the active policy; write audit row, stage a version, activate it: three commits | the pointer names an active version; one active version per scope; a version is built on the newest; no version number is used twice |
| Batch ingest (`api/routes/routing.py:93-180`) | the envelope row, event rows and the policies of the batch's scopes | envelope, events, then per scope: read, update, publish | what is learnt is recorded; a 202 means learnt; nothing is learnt more often than listed and delivered |
| Event table (`core/routing_store.py:202-238`) | `routing_events` | insert row by row, `ON CONFLICT DO NOTHING`, one commit | each event one row and at most one delivery that reports it as new; every call ends |
| Hebbian update (`core/policies.py`) | weights of a scope | apply a batch, decide on a bump | weights are the sum of the published feedback, cut at the bounds, and no further from all feedback than what the unpublished batches may have dropped |
| Idempotency middleware (`api/middleware/idempotency.py`) | `idempotency_keys` | look up, run the handler, store, answer | one run per key; a retry is told what the first caller was told; a 5xx is never stored |
| Candidate jobs (`api/routes/jobs.py`, `api/adapters/gateway_events.py`) | none of its own; the gateway's queue and intake | evolve, push the candidate, map the answer | a job taken for done has its candidate at the gateway |
| Connection pool (`api/adapters/db.py`) | idle connections, line of waiters | acquire, release, time out | no leak, no wait without an end |
| Audit writers (`core/audit.py`) | `_last_id`, `audit_log`, `envelope_batches` | `write_signed`, `write_batch`, `write_envelope_only` | signed rows are one chain; batches are whole or absent, and their rows have the root they were stored with |
| Evolve loop and `prompts` command (`core/prompts.py`, `cli/evolve_prompts.py`) | accumulators, a run directory of three files | score candidates, write the files | winner, evidence and files tell one story; the heuristic scorer prefers nothing to the baseline |
| Constraint gates (`core/constraints.py`) | none; the current version of a skill | check a candidate against it | no sequence of passed candidates weakens a safety value that each of them names |
| Envelope (`core/envelope.py`, `api/middleware/envelope_verify.py`) | none; what was signed is on its way | sign, verify in a time window, Merkle root | an answer is kept for longer than the request it answers can come back |

What is hard here: requests that overlap between a read and the write it is
meant for (versions, weights, idempotency rows); work in several commits of
which some fail; row locks, unique keys and the pool as places to wait, and
waiting in a circle; retries of what was already done, by the gateway's queue
and by callers with new keys; a commit whose answer is lost; an expired row
that is still there; sums of floats at a threshold. `PROJECT.json` lists each
of these with its line and the properties that watch it.

## Conventions

A *worker* is one request in flight; it starts over when it has ended, so that
a few of them stand for any sequence of requests. `pc` says at which `await` or
statement it is suspended, and a step is what happens between two places at
which someone else could look: a statement's snapshot, a row lock, a commit.
`Fail(w)` is the loss of the request at any such place, whatever the reason
(an exception, a killed process, a cancelled task): what was committed stays,
the open transaction is rolled back. A restart of the service is the failure
of all its workers; they keep nothing else in memory that matters.

Variables under `\* history` are read by properties only: they record that
something happened (an overlap, an expiry, a lost commit) to which a property
makes an exception. Each exception is as narrow as it can be made: the code
does break the property once the exception applies. A definition whose name is that of another
one followed by an underscore and a word (`InWindow_AnyAge`) is a *mutant*:
a plausible mistake in that place of the code. No specification uses mutants.
With the definition replaced by it, TLC reports the property that
`PROJECT.json` names with it as violated, which shows that the property would
notice. `TypeOK` is checked as a property of its own where a specification
states it; for BatchIngest, ConnectionPool, AuditChain and EvolveRuns it is
stated and proved beside the theorems, as the first part of their inductive
invariants.

## The modules

**PolicyVersions** (`_bump_and_activate` with the SQL it runs). Row `(s, v)` has
a status (absent, staged, active, superseded), which is what `activated_at` and
`superseded_at` encode; `base` is the version its weights were computed from,
and stands for the weights; `auditOf` is `audit_id`. A pass reads the active
policy (`ReadActive`; if two rows are active, `fetchone` may return either),
drops the batch (`Keep`) or writes the audit row (`WriteAudit`), reads `MAX + 1` (`SelectMax`), inserts
(`InsertStaged`, or `UniqueViolation` if the number is taken), and activates: the supersede UPDATE
takes its snapshot (`SupersedeBegin`), locks and re-checks the rows it found
one by one (`SupersedeRow`), and the rest of the transaction is one step with
its commit (`ActivateCommit`). `DeadlockAbort` is Postgres breaking a circle of
passes that wait for each other's rows. **PolicyRegister** is what readers are
promised: a register to which versions are published one at a time, each once.

**BatchIngest** (`post_events_batch`) has the commits of a delivery: envelope,
events, one policy per scope, the answer. A batch is what was signed, with its
list of events; nothing in the code stops two of them from having one `batch_id`
(`IdOf`), in which case the envelope row stays that of the first, or a list from
having an event twice, under one scope or two. A policy is the bag of events it has
learnt, each as often as its bucket lists it, so that counting an entry twice or
forgetting one shows. The pipeline
of PolicyVersions is one step here, and so is the recording of the events,
which **EventInsert** justifies: it has every INSERT, the waiting for rows of
uncommitted transactions, the aborts, `rowcount`, and commits that take place
although nobody is told (`CommitUnanswered`), and is shown to implement
**EventTable**, in which a batch is recorded at once, as `RecordEvents` does.

**Hebbian** (`HebbianUpdater.apply`, `PolicyBumpDecision.should_bump`) counts
weights and deltas in units of the reward, 0.05. The code adds floats, and the
sum of eight or more terms can come out below the 0.1 it stands for, so from
`RoundedFrom` events on a batch whose sum is due exactly at the threshold may
be published or not. `given` is what users said, published or not, and `slack`
what the batches that were not published may have dropped of it.

**IdempotencyGate** (`IdempotencyMiddleware.dispatch`): `Replay` and `Collide`
are the two answers of a live row, `RunHandler` is a miss, `HandlerAnswers`
lets the handler answer with any class of status (`IsStored`: below 500), `Store` is `INSERT ... ON
CONFLICT DO NOTHING`. Rows are never deleted: `core/idempotency.py:8` speaks of
a clean-up job, but there is none in the repository. **JobsRun** extends it: the handler
is `jobs_run`, the callers are the gateway's queue, and `push[w]` is the POST to
the gateway's intake. Queue and intake are not in this repository and are modelled
from what `jobs.py` and `gateway_events.py` say of them.

**SignedWrites** extends IdempotencyGate too, with what is in front of it
(`EnvelopeVerifyMiddleware.dispatch`, `sign_envelope`, `verify_envelope`). `sent`
is what callers have signed: each of it may be delivered any number of times, in
any order, at any time, and the caller may sign the same write again (`Sign`),
with a clock that is ahead by some `Drift`. `Verify` reads the clock; the request
then waits for a connection (`waiting`), at most `MaxWait` long, until the gate's
`LookUp` reads the clock again, or it gives up. An envelope of an unknown key
or over another body is refused whenever it comes (401), as are headers that
do not parse, so these are left out.

**ConnectionPool** says who holds and who waits: the middleware's connection of
a write (`HoldsGate`), the handler's connections in turn (`using`), reads and
`readyz` with one. The pool itself (first come, first served, a timeout for
each wait) is `psycopg_pool`'s.

**AuditChain** (`AuditWriter` with `chain=True`, and its asynchronous twin):
`InsertSigned` moves `_last_id` on, `Commit` follows; every statement may raise,
and a commit that raises may have taken place or not. `InsertEnvelope` and
`InsertMember` are `write_batch`; each row reads the clock for itself, and its
`id`, a uuid4 in the code, tells nothing of its place. `MerkleRoot` is
`merkle_root` with the digest as a free function: `<<e>>` for a member, a pair for
two digests.

**EvolveRuns** (`evolve_prompts`, the candidate `run_fake_evolve` picks, and the
files of the command): `Explore` is one turn of the loop, `OpenDirectory` names the
directory after the second, the files are written one by one, and `Crash` may
leave one of them cut off. The rewriter returns any text. A run is scored by
the `Heuristic` (`_heuristic_scorer`, `keyword_overlap_score`, `composite`) or by a
judge that gives any score: the loop takes either, the command only the first.
A text is what the heuristic reads of it: its
words and its length. Fractions are counted in units of 1/`Scale`, a
multiple of all lengths, so that none is rounded. The floats of the code are,
but each part of a candidate's score is at most the baseline's, and rounded
products and sums keep that order.

**SafetyGates** (`run_skill_artifact_gates`) is the life of a skill: a candidate
that passes against the current version becomes the current version. An
artifact is what the gates look at, and its entries may be any words: a candidate
may have a word that no table lists, or one of another key, and the gates compare it
like any other (`Weakens`, `RankOf`). The run has two safety keys, one with all three
grades and `upl_check`, whose row has one; the theorem is about any keys and words.

## What is checked

| Run | Instance | Shows |
| --- | --- | --- |
| `policy_versions` | 2 passes at a time, 1 scope, 4 bumps | all nine properties of the versions, liveness included |
| `policy_race` | the same, 3 bumps | *violated*: "supersede any previously active" |
| `batch_ingest` | 2 deliveries at a time, 4 in all, of 3 batches with common events, one of them with an event twice, two with one `batch_id`; 2 scopes | `LearnedIsRecorded`, `AnsweredIsLearned`, `LearnedOncePerEntry` |
| `event_insert` | 3 deliveries, batches that repeat an event and list events in opposite orders, an empty one | `InsertedAddsUp`, `ImplementsTable`, `CallsEnd` |
| `hebbian` | 2 skills, batches of up to 8 events | `Accounted`, `LossBounded`, `Earned`, `BumpIsFelt` |
| `signed_writes` | 2 deliveries at a time of 2 envelopes, 1 key, 2 bodies, an answer that lives for 5 of 6 ticks, a window of 2 + 1 | `PromiseKept`, `RunsOnce`, `ServerErrorReRuns`, `RowOutlivesWindow` |
| `idempotency_expiry` | 1 request at a time | *violated*: "stores response ... for replay TTL" |
| `jobs_run` | 2 requests, 2 jobs, 3 faults | `AcceptedIsDelivered`, `JobsComplete` |
| `connection_pool` | 4 requests, 2 connections | `Conserved`, `OnlyBatchesStall`, `RequestsEnd` |
| `audit_chain` | 2 writers, 5 rows, batches of up to 3 entries | `ChainUnbroken`, `BatchesWhole`, `BatchVerifies`, `RefusedAfterLostCommit` |
| `evolve_runs` | 2 runs, up to 2 candidates, 3 scores of a judge, texts of up to 3 characters, 2 seconds | `ResultIsFirstBest`, `MetricsVouch`, `HeuristicKeepsBaseline` |
| `safety_gates` | 2 keys, all values of the table, 3 tiers and a word that is none, sizes up to 4 | `NamedNeverWeakens` |

### What the runs tell

*Versions.* Whatever overlaps or fails, the pointer names an active version
(`PointerNamesActive`), no row goes back or is taken over
(`StatusMovesForward`), each version has an audit row of its own
(`EveryVersionAudited`), and readers see a register (`ImplementsRegister`).
Without overlap of activations there is exactly one active version
(`SoleActive`), and where no bump has overlapped another pass, from its read to
its activation, a version is built on the newest
one (`LearningAccumulates`) and the pointer names it (`PointerIsNewest`), even
after passes that failed half-way and left staged rows behind. With overlap
none of the three holds: the supersede UPDATE does not see the other
transaction's row, and the last commit wins the pointer, also when its number is
the smaller one. (The register still holds then: the pointer does not come back to a
version it has been at.) `policy_race` shows the first: two
versions of one scope stay active, against the docstring of
`activate_policy_version`; the next activation supersedes both.

*Learning.* Learning looks at all events of a batch, those recorded before
included, so an event is learnt once for each entry of the list and each delivery
that reaches the handler, and no more often (`LearnedOncePerEntry`); only the
idempotency row stands between a re-delivery and a second count, and nothing between
an event that is listed twice and its second count, although it has one row.
What callers are told was `inserted` adds up to the rows, except for commits that
took place without an answer (`InsertedAddsUp`). A policy that another delivery published between the read
and the publication is overwritten and its learning lost: the one exception of
`AnsweredIsLearned`. When a `batch_id` comes again with other events, these are
recorded and learnt, but its envelope row, with `merkle_root` and
`member_count`, stays that of the first batch: the one exception of
`LearnedIsRecorded`, and the only way an event is learnt that no stored envelope
is of.

*Weights.* A weight is the sum of its published deltas until a bound cuts it
(`Accounted`). A batch below the threshold is dropped, not carried over. Per
such batch, what users said and the weight may come apart by one unit less than
the threshold (by the threshold, where sums round), in either direction; nothing
else is lost (`LossBounded`). A version that changes nothing is published when a skill at a
bound is pushed further (`BumpIsFelt` has the exact condition), since the
decision looks at the deltas before they are cut.

*Idempotency and jobs.* A handler succeeds twice under one key in three ways and
no others: overlapping requests, an expired row, an answer lost before its
commit (`RunsOnce`). An expired row is a miss for the lookup but a conflict for
the INSERT: from then on nothing is stored for that key (`idempotency_expiry`).
No failure is ever replayed (`ServerErrorReRuns`), and so jobs get done
(`JobsComplete`); a job done has its candidate at the gateway
(`AcceptedIsDelivered`), except that `jobs_run` takes every status below 400 for
a delivery: a 3xx of the intake, which the client does not follow, loses the candidate,
although `jobs.py:19` speaks of non-2xx. That is the exception of the property,
which is why it is no guard against this one.

*Signed writes.* The envelope's window is what makes the stored answers
sufficient. A request that was signed once reaches the lookup within
`MaxAge + FutureSkew + MaxWait` of its first arrival or never, and as long as an
answer is kept for longer, none of its deliveries finds its row expired:
`RowOutlivesWindow`. With the numbers of the code (30 days against 5 minutes, 60
seconds and the pool's 30 seconds) the margin is large; the property says it
depends on nothing else, such as the order of deliveries or the caller's clock.
Only a caller that signs the same write again after that
span has it run again, and then every time, since the expired row stays.

*Pool.* Each event batch needs a second connection while it holds one. As many
batches as there are connections stall until the timeout of 30 s
(`OnlyBatchesStall`); the deployed numbers, 8 connections and up to 10
concurrent requests, allow it. With more connections than requests it cannot
happen, since a stall takes as many batches as there are connections.

*Audit.* The chain has no fork and no gap (`ChainUnbroken`): that is why
`_last_id` moves before the commit. The price is `RefusedAfterLostCommit`: after
a commit that did not take place no signed row of that writer gets in again, since
each would refer to the missing row, and only such a commit has that effect.
A batch verifies: the root and the count of an envelope fit the rows of its batch
in an order their `ts` allow, and no other list (`BatchVerifies`). Where readings are
equal there are several such orders, of which the verifier has to find the one; a
clock that went back between two inserts loses it.

*Evolve and gates.* `metrics.json` is written last, so the other files are there
and whole. Two runs of one second share a directory, which `exist_ok=True` allows:
then the files may be of either, an `evolved.md` may lie beside the `metrics.json` of
a run that had no winner, and a crash of one may cut off a file of the other;
`MetricsVouch` says that nothing worse happens. What `metrics.json` says is rounded
to four decimals (`cli/evolve_prompts.py:165`), so that a positive improvement may
read 0.0: `ResultIsFirstBest` is about the numbers before that. With the heuristic, no candidate ever beats the baseline
(`HeuristicKeepsBaseline`): a text shares all words with itself, and the ratio of
lengths is cut at 1. The command passes no other
scorer to the loop, so `prompts` never writes `evolved.md` as it stands, and
`jobs_run` always sends its fall-back, the first of the best explored; the docstring
of `run_fake_evolve` says "may be `None`". A safety value never gets weaker while every
version names one that the key's row of the table has (`NamedNeverWeakens`). One that a
version leaves out may come back weaker, since a missing value is not compared, and
so may one that went through a word the row does not have: `required` may become
`enforced`, for which nothing is forbidden, and then `disabled`. For `upl_check`, whose
row forbids `not-applicable` alone, `advisory` and `disabled` are such words, reached
in one step, although the docstring speaks of "any safety key". The evolve loop calls
none of the gates.

### Bounds

The bounds cut off counters that only grow. `MaxAudit` 4: two versions become
active in a race, and two more passes lock them in opposite orders, which is
the least that deadlocks.
`TTL` 5 with `MaxAge` 2, `FutureSkew` 1 and `MaxWait` 1: the lifetime exceeds
window and wait by 1, so that the bound of `RowOutlivesWindow` counts; a caller
2 ahead has its envelope refused at first and accepted later. `MaxSigned` 2: a
write and what is signed later under its key. `MaxTime` 6: a row is stored,
expires, and a request runs after it. `MaxFaults` 3: a push is lost, the queue gives up, and a request dies in one
behaviour. `MaxDeliveries` 4: each of the three batches is delivered, fails or overlaps,
and one is repeated. `MaxUses` 2: a handler lets go of a connection and takes another.
`MaxEvents` 8 is where sums start to round. Hebbian's Start, Floor and Ceiling
are 5, 4 and 8 where the code has 20, 10 and 40 units: the shape is the same
and both bounds are in reach of a few batches. `MaxSlack` 2: two batches are
dropped and counted; later ones only stop being counted. `MaxIds` 5: a row, its successor,
a batch of two and what comes after a lost commit, or a batch of three, the
smallest with an odd layer of more than one digest. One word and three
characters: texts with and without a word, empty ones, and candidates longer and
shorter than the baseline (two words and six characters were checked for one
run, by hand). Two scores above the lowest
and two candidates have every order of a baseline, a best and a tie. A size limit of 3
with sizes up to 4 has both sides of the limit, of zero and of 50% growth. The payloads of
`batch_ingest`: one batch reaches the threshold of a scope only by an event it lists
twice, and that event is also another batch's, under the other scope, while that batch
has one entry too few under the first scope.

Deadlock is not checked where the model does stop: when the queue is drained
(JobsRun), the deliveries are used up (BatchIngest), all runs have ended
(EvolveRuns) or the ids are drawn (AuditChain).

### Fairness

`FairSpec` of PolicyVersions and EventInsert: weak fairness of each worker's next step, since the event
loop resumes every coroutine whose statement was answered, and Postgres answers
or aborts. EventInsert adds strong fairness of `InsertRow`: the end of a
transaction wakes all waiters for its rows, so a waiter is not passed over for
ever. ConnectionPool: weak fairness of the steps of a request and of the
timeout, which `psycopg_pool` keeps. JobsRun: the queue keeps dispatching, the
loop keeps serving, and a push is answered or times out after 5 s
(`gateway_events.py`). Failures, faults, giving up, new requests and the clock are never fair.

## What is proved

Eight modules of theorems, each about the module it is named after;
`IdempotencyGate_proofs` is also about JobsRun and SignedWrites, which extend the
gate, and `Candidates_proofs` is about EvolveRuns and SafetyGates, the way of a
candidate from the loop to a version. Each proof has the same course: `Init` and
every step preserve `TypeOK`; an inductive invariant adds to the property what it
depends on; one lemma or step per action of `Next` shows that the action preserves
it. Every inductive invariant was also checked by TLC on the instance of the
module's run (`ListedInv` with one writer; a premise about the behaviour was a
constraint). The assumptions are those of the specifications, and the bounds of a model are constants like any other: the
theorems hold for every value of them.

| Module | Theorems that state a property of a run | Others |
| --- | --- | --- |
| PolicyVersions | `PointerNamesActive`, `SoleActive`, `StatusMovesForward`, `EveryVersionAudited`, `LearningAccumulates`, `PointerIsNewest`, `ImplementsRegister` | exact policies where the passes of a scope do not overlap; a deadlock takes two active versions |
| BatchIngest | `LearnedIsRecorded`, `AnsweredIsLearned`, `LearnedOncePerEntry` | learned exactly once; nothing lost where no two deliveries decide about one scope |
| EventInsert | `InsertedAddsUp`, `ImplementsTable` | no deadlock where payloads follow one order |
| Hebbian | `Accounted`, `LossBounded`, `Earned`, `BumpIsFelt` | |
| IdempotencyGate | `PromiseKept`, `RunsOnce`, `ServerErrorReRuns` | |
| JobsRun | `AcceptedIsDelivered` | the jobs implement the gate |
| SignedWrites | `RowOutlivesWindow` | signed writes implement the gate and keep its promises; what is signed once runs once |
| ConnectionPool | `Conserved`, `OnlyBatchesStall` | no stall in a pool that is larger than the number of requests; no lost wake-up |
| AuditChain | `ChainUnbroken`, `RefusedAfterLostCommit`, `BatchesWhole`, `BatchVerifies` | `merkle_root` tells lists of one length apart |
| EvolveRuns | `ResultIsFirstBest`, `MetricsVouch`, `HeuristicKeepsBaseline` | |
| SafetyGates | `NamedNeverWeakens` | |

The theorem about property `P` is `PHolds`; those about `ImplementsRegister` and
`ImplementsTable` are `RegisterImplemented` and `TableImplemented`. A property that a specification checks and states as its `TypeOK`
is `TypeInvariant`.

Many properties make an exception for a history of overlap. Four of the theorems
beside them say that overlap is all there is to it: `SerializedPassesAreExact` and
`NothingClobbered` have the absence of overlap as a premise about the whole behaviour
and prove the properties without their exceptions; `DeadlockTakesRaceHolds` and
`OneOrderNeverDeadlocks` say what it takes for requests to wait in a circle.

### PolicyVersions_proofs

From `NoScopeAssumption` (the scope of an idle worker is none of the scopes)
and `MaxAuditAssumption` (the bound is a natural number).

`SoleActive` and the two action properties do not follow from `TypeOK` alone.
The invariant `IInv` adds what the unique number and the row locks are there
for:

- `OwnedRowsStaged`, `OwnedRowsDiffer`: from its INSERT to its commit the row a
  pass has inserted is staged and is no other pass's. So an activation turns
  exactly one staged row, its own, active, and no published version is
  published again.
- `LockedRowsActive`, `LocksExclusive`: a row locked by a supersede UPDATE is
  active until that transaction ends, and one transaction holds it. So the CASE in
  `ActivatedRow` only ever supersedes active rows.
- `ActivatesAlone`, `SupersedeCoversActive`: in a scope without overlapping
  activations the rows a pass has locked or has yet to lock are all the
  active ones. This is where the exception of `SoleActive` comes from: with
  overlap, the second conjunct fails, as `policy_race` shows.

`SoleActive` needs the third group. `StatusMovesForward` needs the first two at
the commit: the version goes from staged to active, and the rows superseded with it
were active. `RegisterImplemented` needs the same, since the published version was
staged and those superseded were published before, and maps every other step to a stutter.

`EveryVersionAudited` is inductive with what a bump knows of its audit row between
the two commits (`AuditInv`): the row is there and is of its scope (`BumpsAudited`), no
other bump holds it (`BumpAuditsDiffer`), and before the INSERT no version refers to it
(`UnusedAudits`).

`LearningAccumulates` and `PointerIsNewest` are proved together (`LearnInv`): in a
scope where no bump has overlapped another pass, a pass that has read is alone
when it bumps (`BumpsAlone`), so that what it has read is still the pointer
(`FreshBasis`) and its number is above every row (`NumberAboveRows`), those staged
by passes that failed included.

`SerializedPassesAreExact`: while no two passes of one scope are in flight
(`OnePassPerScope`, as with a lock per scope), no step adds to the race histories
(`NoRacesStep`), so that `SoleActive`, `LearningAccumulates` and `PointerIsNewest` hold
of every scope. `DeadlockTakesRaceHolds`: in a circle each pass waits for a row that
another one has locked and has itself locked a different one (`PendingUnlocked`), and
locked rows are active; two active rows mean, by `SoleActive`, that activations of the
scope have raced before.

### BatchIngest_proofs

From `PayloadAssumption` (the list of a batch is a sequence of events with their
scopes, and `NoBatch` and `NoScope` are no batch and no scope). `LearnedIsRecorded` needs `RecordInv`: an
envelope is of a batch that was delivered under its id (`EnvelopesTrue`), a
delivery in flight has an envelope under its `batch_id` (`EnvelopeFirst`), not
necessarily its own, a row names the id of a delivered batch with that event
(`RowsTrue`), and without a row no worker and no policy has learnt
it (`RowsFirst`, which is about the policies read before they are written back).
`AnsweredIsLearned` needs `LearnedSoFar`: of the scopes a delivery has dealt with,
those no other delivery has overwritten hold what it owes them.

`LearnedOncePerEntry` bounds a count by another one, of pairs of a delivery and an entry
of its list. `CountInv` adds the entries that deliveries in flight have yet to teach
(`Owing`): what a policy has learnt, or what a delivery has read and will write back,
leaves room for all of them below the number of those pairs (`RoomLeft`). So a delivery
that teaches takes the room that was its own, as many times as it lists the event, and
one that fails leaves room behind. With `AnsweredIsLearned` this gives
`LearnedExactlyOnceHolds`: an event that has been listed once under a scope, in all that
was delivered, is learnt at most once by the scope's policy, and exactly once when the
batch is answered and reaches the threshold, unless a stale baseline took its place.
`NothingClobbered` has the premise that no two deliveries decide about one scope at a
time (`DecideApart`); a baseline is then never stale (`FreshBaseline`), and the exception
of `AnsweredIsLearned` never applies.

### EventInsert_proofs

From `OrderAssumption` (a batch is a finite sequence of events) and
`NoBatchAssumption`: `TypeInvariant`; `InsertedAddsUpHolds`, that the `inserted`
counts that callers get add up to the rows of the table, less those committed by calls
that got no answer (`unacked`); `TableImplemented`,
that the row-by-row inserts implement `EventTable`, which takes a batch at
once. `IInv` says why a commit cannot meet a duplicate and leaves nothing out:

- `RowsExclusive`: no event has two rows in the making, or one on top of a
  committed row. An INSERT of the same `event_id` has to wait for the other
  transaction, which is what the guard of `InsertRow` models.
- `RowsCounted`, `RowsOfBatch`: the count a call will return is the number of
  its rows, and they are of its batch.
- `PassedHaveRows`: an event the call has gone past has a row, committed or
  in the making. A committed row is never deleted, so at the commit the rows in
  the making are the batch's events without a row, as `EventTable` records.

`OneOrderNeverDeadlocks` adds `MineIsPassed`: a row in the making is of an event the
call has gone past. If all payloads list events in one order, a call that
waits in a circle therefore holds only events before the one it waits for, and from
each call of a circle to the next the event waited for comes later in the order. That
cannot go on in a finite order. In the run, batches do list events in opposite
orders, and circles occur.

### Hebbian_proofs

From `WeightAssumption`, `UnitAssumption` and `BoundAssumption` (the default
weight lies between the bounds; reward, penalty and threshold are positive):
`TypeInvariant` (weights stay within their bounds), `AccountedHolds`,
`LossBoundedHolds`, `EarnedHolds`, `BumpIsFeltHolds`. `LossBounded` rests on a
lemma about `Keep` (`KeepStep`): a batch that does not bump has no delta beyond
`Allowance`, and that much is added to the slack. `Earned` needs `DeltasEarned`: a delta of the
batch at hand has the sign of some feedback in it, which publication then
remembers.

### IdempotencyGate_proofs

From `NoKeyAssumption`, `NoBodyAssumption` and `TimeAssumption`:
`TypeInvariant`, `PromiseKeptHolds`, `RunsOnceHolds`, `ServerErrorReRunsHolds`.
They say, for any requests and keys, that overlap, expiry and an answer lost
before its commit are the *only* ways to break the promise or to run a handler
twice. `IInv`:

- `UniqueRunner`: two requests of one key past the lookup are an overlap.
- `UnstoredHasNoRow`: of a key without overlap or expiry, a request in the
  handler or about to store has no row to run into, so `DO NOTHING` does insert
  and (`RespondingIsStored`) the caller is told what was stored.
- `HandlingHasNoRun`, `RunsAreStored`: of such a key that has lost no answer
  either, an answer is the first one, and is stored or about to be.
- `StoringHasRun`: a row is only written for an answer below 500.

JobsRun and SignedWrites are shown to implement the gate (`JobsAreGated`,
`SignedWritesAreGated`), so the three theorems hold of them too.

`AcceptedIsDelivered`, from `IntakeAssumption` and `NoWorkerAssumption` besides: a 2xx or
3xx of the intake passes from the push (`PushTold`) to the answer (`AnswerTold`), the row
(`RowTold`), the answer sent (`PromiseTold`) and the queue (`QueueTold`), and at each place
it stands for a candidate that is at the gateway or was redirected. `QueueListens`
is what makes the last link hold: the queue waits for the request that serves
its job and no other, though a worker's next request may be about another job.

`RowOutlivesWindow`, from `WindowAssumption` and `TimeAssumption`: a request that waits
was verified in its window and waits no longer than `MaxWait` (`WaitBounded`), and
both the request in flight and the row of a key go back to an envelope whose
date is at most `FutureSkew` ahead (`BusySigned`, `RowSigned`). That the lifetime is
longer than window and wait is no assumption but the premise of the property.
`SignedOnceRunsOnce` puts the two middlewares together: if the lifetime is longer and one
envelope was signed under a key, its row is never found expired, so of the three ways
to a second run only overlap and a lost answer remain, and of the two ways to a
broken promise only overlap.

### ConnectionPool_proofs

From `PoolSizeAssumption` and `WorkerAssumption` (finitely many requests at a
time). `IInv` has what kind of request may be where (`KindFits`), that the line has
exactly the requests that wait, each once, and is empty while a connection is idle
(`LineHolds`, which is also the theorem `LineHoldsAlways`: no time-out loses or doubles
a wake-up), and the count of connections (`LoadFits`). In a stall every connection is held and
nobody uses one, so each is held by the gate of an event batch:
`OnlyBatchesStall`. Then there are at least as many requests as
connections, and a pool with more of them never stalls (`LargePoolNeverStalls`). Its
hypothesis is about the deployment; with the present numbers it does not hold.

### AuditChain_proofs

From `NoneAssumption` and `BoundAssumption`. `ChainInv` follows `_last_id`: it is
the end of the committed chain (`TipIsLast`), or that of the open row, which refers to
the end (`SignedFollowsTip`), or of a row that no table has nor will have
(`LastMissing`), since ids are not drawn twice (`IdsDrawn`). The last case is
exactly that of a lost commit, and the foreign key then refuses, and in no other:
both directions of `RefusedAfterLostCommit`.
`BatchInv` counts: the open rows and the entries left of a batch
add up to the `member_count` of its open envelope (`BatchCounts`), whose id no other
envelope has (`EnvelopesDiffer`). Hence `BatchesWhole` at the commit.

`MerkleRootInjective` is about data: two lists of one positive length with the same root
are the same list. The provers cannot use the library's induction theorems, whose
parameter is an operator, but they can do induction with a set in place of the predicate
(`SetInduction`, from the least element of a set of naturals). It gives that
the recursion of `Layers` is well defined (`LayersDef`), and that after `d` turns of the loop
both layers are of the same size, at most `n - d` or one, and are equal only if the lists are
(`TurnOfLoop`: one turn makes fewer digests and loses nothing, the odd last digest that is
paired with itself included). After `n` turns one digest is left, the root.

`BatchVerifies` needs to know which list the root was computed from. `ListedInv` says
that there is one, of which the rows of the batch carry the first entries in the order
of their inserts, and the writer has the rest left; a commit finds nothing left. Where
readings of the clock do not go back, the order of the inserts is one of those that
`ts` allows (`ByTime`), and it gives the list back; that no other list has the root is
`MerkleRootInjective`.

### Candidates_proofs

The first part is about EvolveRuns, from all assumptions of that module.
`TextAssumption` says that there are finitely many words, and that `Judged`, the mark of a run with a judge, is no text. `IInv`:

- `Reporting`: the best score so far with its first occurrence, and the winner as
  the first of those above the baseline. The first occurrence is kept with the score
  because its existence, derived afterwards, would take an induction.
  `ResultIsFirstBest` compares the two accumulators.
- `Opened`, `Written`, `Progress`: a file that is there is of a run that opened the
  directory, or was cut off by the crash of one, and an `evolved.md` of one with a winner;
  what a run has gone past is there, since no file is ever removed. So at `metrics.json`
  the others are there, and of whom, is what `Written` says (`MetricsVouch`). The
  winner of a run no longer changes once its directory is open.
- `ScoredByHeuristic`, and the lemma `HeuristicBest`, that no text scores higher
  against `t` than `t`, for each weighted part and its division (`HeuristicKeepsBaseline`).

The second part is about SafetyGates, from `KeyAssumption` and `UnstatedAssumption`:
`NamedNeverWeakens`, for any safety keys, words and sizes and any sequence of adopted
versions. The gates compare a candidate with its predecessor only. `floor` is what the
first version asked for, less what a version has left out or given another word since,
and `GatesInv` says that the current version asks for at least that;
`AllowedIsNoWeaker` takes the table of forbidden changes for what it means, that between
two values of a key's row the allowed one is no weaker; so a step adds one comparison to
the chain of those before. Words of no row come in only where the floor falls with them.

### Model-checked only

Liveness (`PassesEnd`, `CallsEnd`, `RequestsEnd`, `JobsComplete`): fairness is stated with
ENABLED, which the prover does not handle. What liveness rests on is partly
proved: circles of waiting calls are characterised as above, and no wake-up of a
connection is lost (`LineHoldsAlways`).

## Not modelled

- Of the envelope: canonical JSON, base64, SHA-256 and Ed25519, which are calls of
  libraries, and requests that never pass (unknown key, other body, broken headers).
- `GatewayEventsClient.policy_invalidated`: nothing calls it, although its
  docstring (`gateway_events.py:3-4`) and `docs/ROADMAP.md:51` say that an
  activation notifies the gateway.
- The synchronous twins of the stores: the same statements, and no caller in
  the service.
- Runners and judges (a subprocess, an LLM call): no state of their own, and
  EvolveRuns takes any score they could give. `length_penalty` and
  `weighted_composite` of `fitness.py` are called by tests only. Skill files, settings
  and contracts: reads without state. Terraform, CI, scripts: no program state.

## Open ends

- Every safety property and refinement that a run checks is proved, so what is left is
  liveness, and parts that are not modelled.
- BatchIngest is not shown to implement PolicyRegister: a register has version numbers
  and no content, and a policy here has content and no number, so that the numbers
  would have to be made up for the purpose.
