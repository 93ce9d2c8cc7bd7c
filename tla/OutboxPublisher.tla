--------------------------- MODULE OutboxPublisher ---------------------------
(***************************************************************************)
(* OutboxPublisher, run by every orchestrator replica: select a batch of   *)
(* pending rows FOR UPDATE SKIP LOCKED, XADD them one by one, commit once  *)
(* at the end.  A RedisError commits what was published so far and leaves  *)
(* the loop; a crash rolls the whole batch back.  Published rows are       *)
(* deleted after their retention.                                          *)
(*                                                                         *)
(* OrchestratorProcess publishes one row per step; OutboxDelivery is the   *)
(* promise both share.  Rows are numbered by created_at.                   *)
(***************************************************************************)
EXTENDS Naturals, FiniteSets

CONSTANTS
  Row,        \* message ids, ordered by created_at
  Publisher,
  BatchLimit, \* LIMIT 100, and the batch_size of the clean-up
  MaxCrashes, \* bound: publisher crashes
  MaxErrors   \* bound: Redis errors

ASSUME RowAssumption == Row \subseteq Nat
ASSUME BatchLimitAssumption == BatchLimit \in Nat \ {0}
ASSUME FaultBoundsAssumption == MaxCrashes \in Nat /\ MaxErrors \in Nat

VARIABLES
  status,   \* the committed status of a row
  copies,   \* entries of the row on its stream
  todo,     \* per publisher: locked rows not yet sent
  sent,     \* per publisher: locked rows sent, to be marked by the commit
  crashes,
  errors

outboxVars == <<status, copies, todo, sent, crashes, errors>>

Locked == UNION {todo[p] \cup sent[p] : p \in Publisher}

InTransaction(p) == todo[p] \cup sent[p] # {}

OutboxInit ==
  /\ status = [r \in Row |-> "absent"]
  /\ copies = [r \in Row |-> 0]
  /\ todo = [p \in Publisher |-> {}]
  /\ sent = [p \in Publisher |-> {}]
  /\ crashes = 0 /\ errors = 0

\* The transaction of a service that wrote the row commits.
AddMessage(r) ==
  /\ status[r] = "absent"
  /\ status' = [status EXCEPT ![r] = "pending"]
  /\ UNCHANGED <<copies, todo, sent, crashes, errors>>

\* Mutant: the select takes no row locks into account.
LocksIgnored == {r \in Row : status[r] = "pending"}

\* Mutant: the publisher goes on from the newest row it has published, and
\* misses rows that are committed late.
CursorBased ==
  {r \in Row : /\ status[r] = "pending" /\ r \notin Locked
               /\ \A q \in Row : status[q] = "published" => q < r}

\* Pending rows that no other publisher has locked.
Selectable == {r \in Row : status[r] = "pending" /\ r \notin Locked}

\* B is what ORDER BY created_at LIMIT BatchLimit leaves of S.
Oldest(B, S) ==
  /\ B \subseteq S
  /\ IF Cardinality(S) <= BatchLimit THEN B = S
     ELSE Cardinality(B) = BatchLimit /\ \A x \in B, y \in S \ B : x < y

SelectBatch(p) ==
  /\ ~InTransaction(p)
  /\ \E B \in SUBSET Row :
       /\ B # {} /\ Oldest(B, Selectable)
       /\ todo' = [todo EXCEPT ![p] = B]
  /\ UNCHANGED <<status, copies, sent, crashes, errors>>

\* The select finds nothing and the transaction ends.
PollEmpty(p) ==
  /\ ~InTransaction(p)
  /\ Selectable = {}
  /\ UNCHANGED outboxVars

\* The row whose turn it is in the loop of p.
Current(p, r) == r \in todo[p] /\ \A x \in todo[p] : r <= x

PublishRow(p, r) ==
  /\ Current(p, r)
  /\ copies' = [copies EXCEPT ![r] = @ + 1]
  /\ todo' = [todo EXCEPT ![p] = @ \ {r}]
  /\ sent' = [sent EXCEPT ![p] = @ \cup {r}]
  /\ UNCHANGED <<status, crashes, errors>>

MarkPublished(S) == [r \in Row |-> IF r \in S THEN "published" ELSE status[r]]

EndTransaction(p) ==
  todo' = [todo EXCEPT ![p] = {}] /\ sent' = [sent EXCEPT ![p] = {}]

CommitBatch(p) ==
  /\ todo[p] = {} /\ sent[p] # {}
  /\ status' = MarkPublished(sent[p])
  /\ EndTransaction(p)
  /\ UNCHANGED <<copies, crashes, errors>>

\* Mutant: the error handler also marks the rows the loop did not reach.
WholeBatch(p) == sent[p] \cup todo[p]

\* Mutant: the error handler rolls the batch back.
NothingMarked(p) == {}

\* The rows that the commit of the error handler marks.
SentSoFar(p) == sent[p]

\* XADD raises; when the answer was lost, Redis has taken the entry.
RedisFails(p, r, accepted) ==
  /\ Current(p, r)
  /\ errors < MaxErrors
  /\ copies' = IF accepted THEN [copies EXCEPT ![r] = @ + 1] ELSE copies
  /\ status' = MarkPublished(SentSoFar(p))
  /\ EndTransaction(p)
  /\ errors' = errors + 1
  /\ UNCHANGED crashes

\* The transaction rolls back and its locks are released.
CrashPublisher(p) ==
  /\ InTransaction(p)
  /\ crashes < MaxCrashes
  /\ EndTransaction(p)
  /\ crashes' = crashes + 1
  /\ UNCHANGED <<status, copies, errors>>

Removable(r) == status[r] = "published" /\ r \notin Locked

\* cleanup_published: one transaction; which rows are past their retention is
\* left open.
CleanUp(p, S) ==
  /\ ~InTransaction(p)
  /\ S # {} /\ Cardinality(S) <= BatchLimit
  /\ \A r \in S : Removable(r)
  /\ status' = [r \in Row |-> IF r \in S THEN "deleted" ELSE status[r]]
  /\ UNCHANGED <<copies, todo, sent, crashes, errors>>

PublisherStep(p) ==
  \/ SelectBatch(p)
  \/ PollEmpty(p)
  \/ \E r \in Row : PublishRow(p, r)
  \/ CommitBatch(p)

PublisherFault(p) ==
  \/ \E r \in Row, accepted \in BOOLEAN : RedisFails(p, r, accepted)
  \/ CrashPublisher(p)

OutboxNext ==
  \/ \E r \in Row : AddMessage(r)
  \/ \E p \in Publisher : PublisherStep(p) \/ PublisherFault(p)
  \/ \E p \in Publisher, S \in SUBSET Row : CleanUp(p, S)

OutboxSpec == OutboxInit /\ [][OutboxNext]_outboxVars

\* Every round of the orchestrator loop calls the publisher.
FairOutboxSpec ==
  OutboxSpec /\ \A p \in Publisher : WF_outboxVars(PublisherStep(p))

-----------------------------------------------------------------------------
OutboxTypeOK ==
  /\ status \in [Row -> {"absent", "pending", "published", "deleted"}]
  /\ copies \in [Row -> Nat]
  /\ todo \in [Publisher -> SUBSET Row]
  /\ sent \in [Publisher -> SUBSET Row]
  /\ crashes \in Nat /\ errors \in Nat

\* DESIGN.md: "an expected duplicate, not a lost message": a row is marked or
\* deleted only if its entry is on the stream, and every entry beyond the
\* first is paid for by a crash or a Redis error.
DuplicatesAccounted ==
  /\ \A r \in Row : status[r] \in {"published", "deleted"} => copies[r] > 0
  /\ \A r \in Row : copies[r] <= 1 + crashes + errors

\* DESIGN.md: "Multiple publisher processes can safely work concurrently
\* because locked rows are skipped": no row is in two batches, and a batch
\* holds only pending rows.
ExclusiveBatches ==
  /\ \A p \in Publisher :
       /\ todo[p] \cap sent[p] = {}
       /\ \A r \in todo[p] \cup sent[p] : status[r] = "pending"
  /\ \A p, q \in Publisher :
       p # q => (todo[p] \cup sent[p]) \cap (todo[q] \cup sent[q]) = {}

\* A committed row reaches its stream and is marked, through crashes and
\* Redis errors.
EventuallyPublished ==
  \A r \in Row :
    status[r] = "pending" ~> (status[r] \in {"published", "deleted"} /\ copies[r] > 0)

Stage(r) ==
  CASE status[r] = "absent" -> "absent"
    [] status[r] = "pending" ->
         IF \E p \in Publisher : r \in sent[p] THEN "sent" ELSE "due"
    [] OTHER -> "settled"

Delivery == INSTANCE OutboxDelivery WITH stage <- [r \in Row |-> Stage(r)]

\* The batches, locks and rollbacks deliver rows as OutboxDelivery promises:
\* a settled row is never put on the stream again.
ImplementsDelivery == Delivery!Spec

=============================================================================
