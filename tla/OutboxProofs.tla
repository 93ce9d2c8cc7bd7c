---------------------------- MODULE OutboxProofs ----------------------------
(***************************************************************************)
(* The publisher's batches are exclusive and it implements OutboxDelivery, *)
(* for any number of rows, replicas, crashes and Redis errors.             *)
(***************************************************************************)
EXTENDS OutboxPublisher, TLAPS

\* Exclusive batches are inductive with the types.  The count of copies needs
\* the part of DuplicatesAccounted about marked rows: a row in "sent" has an
\* entry on its stream.
OutboxInv ==
  /\ OutboxTypeOK
  /\ ExclusiveBatches
  /\ \A p \in Publisher : \A r \in sent[p] : copies[r] > 0
  /\ \A r \in Row : status[r] \in {"published", "deleted"} => copies[r] > 0

\* Before the first message nothing is locked.
LEMMA OutboxInitInv == OutboxInit => OutboxInv
BY DEF OutboxInit, OutboxInv, OutboxTypeOK, ExclusiveBatches

\* A transaction of p that ends, keeping or dropping its marks, keeps the
\* batches of the others exclusive.
LEMMA EndTransactionInv ==
  ASSUME OutboxInv, NEW p \in Publisher, EndTransaction(p),
         NEW S \in SUBSET sent[p],
         status' = MarkPublished(S), copies' \in [Row -> Nat],
         \A r \in Row : copies[r] > 0 => copies'[r] > 0,
         crashes' \in Nat, errors' \in Nat
  PROVE  OutboxInv'
<1>1. /\ todo' = [todo EXCEPT ![p] = {}] /\ sent' = [sent EXCEPT ![p] = {}]
      /\ todo \in [Publisher -> SUBSET Row] /\ sent \in [Publisher -> SUBSET Row]
      /\ status \in [Row -> {"absent", "pending", "published", "deleted"}]
  BY DEF EndTransaction, OutboxInv, OutboxTypeOK
<1>2. OutboxTypeOK'
  BY <1>1 DEF OutboxInv, OutboxTypeOK, MarkPublished
<1>3. \A q \in Publisher : \A r \in todo'[q] \cup sent'[q] :
        q # p /\ r \in todo[q] \cup sent[q] /\ r \in Row
  BY <1>1
<1>4. \A q \in Publisher : \A r \in todo'[q] \cup sent'[q] : status'[r] = "pending"
  <2> SUFFICES ASSUME NEW q \in Publisher, NEW r \in todo'[q] \cup sent'[q]
               PROVE  status'[r] = "pending"
    OBVIOUS
  <2>1. q # p /\ r \in todo[q] \cup sent[q] /\ r \in Row
    BY <1>3
  <2>2. r \notin S /\ status[r] = "pending"
    BY <2>1 DEF OutboxInv, ExclusiveBatches
  <2> QED
    BY <2>1, <2>2 DEF MarkPublished
<1>5. ExclusiveBatches'
  BY <1>1, <1>4 DEF OutboxInv, ExclusiveBatches
<1>6. \A q \in Publisher : \A r \in sent'[q] : copies'[r] > 0
  BY <1>1, <1>3 DEF OutboxInv
<1>7. \A r \in Row : status'[r] \in {"published", "deleted"} => copies'[r] > 0
  BY <1>1 DEF OutboxInv, MarkPublished
<1> QED
  BY <1>2, <1>5, <1>6, <1>7 DEF OutboxInv

\* Every step keeps the invariant.
LEMMA OutboxNextInv ==
  ASSUME OutboxInv, [OutboxNext]_outboxVars
  PROVE  OutboxInv'
<1>0. /\ todo \in [Publisher -> SUBSET Row] /\ sent \in [Publisher -> SUBSET Row]
      /\ status \in [Row -> {"absent", "pending", "published", "deleted"}]
      /\ copies \in [Row -> Nat] /\ crashes \in Nat /\ errors \in Nat
  BY DEF OutboxInv, OutboxTypeOK
<1>1. ASSUME NEW r \in Row, AddMessage(r)
      PROVE  OutboxInv'
  BY <1>0, <1>1 DEF AddMessage, OutboxInv, OutboxTypeOK, ExclusiveBatches
<1>2. ASSUME NEW p \in Publisher, SelectBatch(p)
      PROVE  OutboxInv'
  <2>1. PICK B \in SUBSET Row : /\ B \subseteq Selectable
                                /\ todo' = [todo EXCEPT ![p] = B]
    BY <1>2, Zenon DEF SelectBatch, Oldest
  <2>2. todo[p] = {} /\ sent[p] = {}
          /\ UNCHANGED <<status, copies, sent, crashes, errors>>
    BY <1>2 DEF SelectBatch, InTransaction
  <2>3. \A r \in B : status[r] = "pending"
                     /\ \A q \in Publisher : r \notin todo[q] \cup sent[q]
    BY <2>1 DEF Selectable, Locked
  <2> HIDE DEF Selectable
  <2>4. ExclusiveBatches'
    <3>1. \A q \in Publisher : todo'[q] = IF q = p THEN B ELSE todo[q]
      BY <1>0, <2>1
    <3> QED
      BY <2>2, <2>3, <3>1 DEF OutboxInv, ExclusiveBatches
  <2> QED
    BY <1>0, <2>1, <2>2, <2>4 DEF OutboxInv, OutboxTypeOK
<1>3. ASSUME NEW p \in Publisher, NEW r \in Row, PublishRow(p, r)
      PROVE  OutboxInv'
  <2>1. /\ r \in todo[p] /\ copies' = [copies EXCEPT ![r] = @ + 1]
        /\ todo' = [todo EXCEPT ![p] = @ \ {r}]
        /\ sent' = [sent EXCEPT ![p] = @ \cup {r}]
        /\ UNCHANGED <<status, crashes, errors>>
    BY <1>3 DEF PublishRow, Current
  <2>2. \A q \in Publisher : /\ todo'[q] = IF q = p THEN todo[q] \ {r} ELSE todo[q]
                             /\ sent'[q] = IF q = p THEN sent[q] \cup {r} ELSE sent[q]
    BY <1>0, <2>1, Zenon
  <2>3. ExclusiveBatches'
    <3>1. \A q \in Publisher : todo'[q] \cup sent'[q] = todo[q] \cup sent[q]
      BY <2>1, <2>2
    <3>2. \A q \in Publisher : todo'[q] \cap sent'[q] = {}
      BY <2>2, Zenon DEF OutboxInv, ExclusiveBatches
    <3>3. \A q \in Publisher : \A s \in todo'[q] \cup sent'[q] : status'[s] = "pending"
      <4>1. \A q \in Publisher : \A s \in todo[q] \cup sent[q] : status[s] = "pending"
        BY DEF OutboxInv, ExclusiveBatches
      <4> QED
        BY <2>1, <3>1, <4>1
    <3>4. \A q, u \in Publisher :
            q # u => (todo'[q] \cup sent'[q]) \cap (todo'[u] \cup sent'[u]) = {}
      <4>1. \A q, u \in Publisher :
              q # u => (todo[q] \cup sent[q]) \cap (todo[u] \cup sent[u]) = {}
        BY DEF OutboxInv, ExclusiveBatches
      <4> QED
        BY <3>1, <4>1, Zenon
    <3> QED
      BY <3>2, <3>3, <3>4 DEF ExclusiveBatches
  <2>4. \A s \in Row : copies'[s] = IF s = r THEN copies[s] + 1 ELSE copies[s]
    BY <1>0, <2>1
  <2>5. OutboxTypeOK'
    BY <1>0, <2>1 DEF OutboxTypeOK
  <2>6. ASSUME NEW q \in Publisher, NEW s \in sent'[q]
        PROVE  copies'[s] > 0
    <3>1. s \in Row /\ (s = r \/ s \in sent[q])
      BY <1>0, <2>2, Zenon
    <3>2. copies[s] \in Nat /\ (s # r => copies[s] > 0)
      BY <1>0, <3>1 DEF OutboxInv
    <3> QED
      BY <2>4, <3>1, <3>2
  <2>7. \A s \in Row : status'[s] \in {"published", "deleted"} => copies'[s] > 0
    BY <1>0, <2>1, <2>4 DEF OutboxInv
  <2> QED
    BY <2>3, <2>5, <2>6, <2>7 DEF OutboxInv
<1>4. ASSUME NEW p \in Publisher, CommitBatch(p)
      PROVE  OutboxInv'
  BY <1>0, <1>4, EndTransactionInv DEF CommitBatch
<1>5. ASSUME NEW p \in Publisher, NEW r \in Row, NEW accepted \in BOOLEAN,
             RedisFails(p, r, accepted)
      PROVE  OutboxInv'
  <2>1. copies' = copies \/ copies' = [copies EXCEPT ![r] = @ + 1]
    BY <1>5 DEF RedisFails
  <2>2. copies' \in [Row -> Nat] /\ \A s \in Row : copies[s] > 0 => copies'[s] > 0
    BY <1>0, <2>1
  <2>3. errors' \in Nat /\ crashes' \in Nat
    BY <1>0, <1>5 DEF RedisFails
  <2> QED
    BY <1>5, <2>2, <2>3, EndTransactionInv DEF RedisFails, SentSoFar
<1>6. ASSUME NEW p \in Publisher, CrashPublisher(p)
      PROVE  OutboxInv'
  <2>1. status' = MarkPublished({})
    BY <1>0, <1>6 DEF CrashPublisher, MarkPublished
  <2> QED
    BY <1>0, <1>6, <2>1, EndTransactionInv DEF CrashPublisher
<1>7. ASSUME NEW p \in Publisher, NEW S \in SUBSET Row, CleanUp(p, S)
      PROVE  OutboxInv'
  <2>1. /\ status' = [r \in Row |-> IF r \in S THEN "deleted" ELSE status[r]]
        /\ \A r \in S : status[r] = "published"
        /\ UNCHANGED <<copies, todo, sent, crashes, errors>>
    BY <1>7 DEF CleanUp, Removable
  <2> QED
    BY <1>0, <2>1 DEF OutboxInv, OutboxTypeOK, ExclusiveBatches
<1>8. CASE UNCHANGED outboxVars
  BY <1>8 DEF outboxVars, OutboxInv, OutboxTypeOK, ExclusiveBatches
<1> QED
  BY <1>1, <1>2, <1>3, <1>4, <1>5, <1>6, <1>7, <1>8
     DEF OutboxNext, PublisherStep, PublisherFault, PollEmpty

\* SKIP LOCKED keeps the batches of any number of publishers apart.
THEOREM ExclusiveBatchesHolds == OutboxSpec => []ExclusiveBatches
<1>1. OutboxInv => ExclusiveBatches
  BY DEF OutboxInv
<1> QED
  BY <1>1, OutboxInitInv, OutboxNextInv, PTL DEF OutboxSpec

-----------------------------------------------------------------------------
(***************************************************************************)
(* Duplicates.  The bound is not inductive for a row that is still to be   *)
(* sent: its entries so far must be paid for by faults alone.              *)
(***************************************************************************)
\* No publisher has sent r under a commit that is still to come.
Unsent(r) == \A p \in Publisher : r \notin sent[p]

CopiesPaid ==
  \A r \in Row :
    /\ copies[r] <= 1 + crashes + errors
    /\ status[r] \in {"absent", "pending"} /\ Unsent(r)
         => copies[r] <= crashes + errors

\* A count within an old total is within a larger one.
LEMMA Tally ==
  ASSUME NEW n \in Nat, NEW x \in Nat, NEW y \in Nat, NEW u \in Nat, NEW v \in Nat,
         n <= x + y, u + v >= x + y
  PROVE  n <= u + v
OBVIOUS

\* The end of a transaction of p that marks all it has sent, or is paid for
\* by a fault.
LEMMA EndTransactionPaid ==
  ASSUME OutboxInv, CopiesPaid, NEW p \in Publisher, EndTransaction(p),
         NEW S \in {sent[p], {}}, status' = MarkPublished(S),
         crashes' \in Nat, errors' \in Nat,
         crashes' + errors' >= crashes + errors,
         S = {} => crashes' + errors' >= crashes + errors + 1,
         copies' \in [Row -> Nat],
         \A r \in Row \ todo[p] : copies'[r] = copies[r],
         \A r \in todo[p] : copies'[r] <= crashes' + errors'
  PROVE  CopiesPaid'
<1> SUFFICES ASSUME NEW r \in Row
             PROVE  /\ copies'[r] <= 1 + crashes' + errors'
                    /\ status'[r] \in {"absent", "pending"} /\ Unsent(r)'
                         => copies'[r] <= crashes' + errors'
  BY DEF CopiesPaid
<1>0. copies'[r] \in Nat /\ copies[r] \in Nat /\ crashes \in Nat /\ errors \in Nat
  BY DEF OutboxInv, OutboxTypeOK
<1>1. CASE r \in todo[p]
  BY <1>0, <1>1
<1>2. CASE r \notin todo[p]
  <2>1. copies'[r] = copies[r] /\ copies[r] <= 1 + crashes + errors
    BY <1>2 DEF CopiesPaid
  <2>2. CASE r \in S
    BY <1>0, <2>1, <2>2 DEF MarkPublished
  <2>3. CASE r \notin S /\ r \in sent[p]
    <3>1. crashes' + errors' >= crashes + errors + 1
      BY <2>3
    <3>2. copies'[r] <= crashes' + errors'
      BY <1>0, <2>1, <3>1
    <3> QED
      BY <1>0, <3>2
  <2>4. CASE r \notin S /\ r \notin sent[p]
    <3>1. status'[r] = status[r]
      BY <2>4 DEF MarkPublished
    <3>2. Unsent(r)' => Unsent(r)
      BY <2>4 DEF Unsent, EndTransaction, OutboxInv, OutboxTypeOK
    <3>3. copies'[r] <= 1 + crashes' + errors'
      BY <1>0, <2>1
    <3>4. ASSUME copies[r] <= crashes + errors
          PROVE  copies'[r] <= crashes' + errors'
      BY <1>0, <2>1, <3>4, Tally, Zenon
    <3>5. status[r] \in {"absent", "pending"} /\ Unsent(r)
            => copies[r] <= crashes + errors
      BY DEF CopiesPaid
    <3> QED
      BY <3>1, <3>2, <3>3, <3>4, <3>5
  <2> QED
    BY <2>2, <2>3, <2>4
<1> QED
  BY <1>1, <1>2

\* Every step pays for the copies it makes.
LEMMA CopiesPaidStep ==
  ASSUME OutboxInv, CopiesPaid, [OutboxNext]_outboxVars
  PROVE  CopiesPaid'
<1>0. /\ todo \in [Publisher -> SUBSET Row] /\ sent \in [Publisher -> SUBSET Row]
      /\ status \in [Row -> {"absent", "pending", "published", "deleted"}]
      /\ copies \in [Row -> Nat] /\ crashes \in Nat /\ errors \in Nat
  BY DEF OutboxInv, OutboxTypeOK
<1>a. \A p \in Publisher : \A r \in todo[p] :
        r \in Row /\ copies[r] <= crashes + errors
  BY <1>0 DEF OutboxInv, ExclusiveBatches, CopiesPaid, Unsent
<1>1. ASSUME NEW r \in Row, AddMessage(r)
      PROVE  CopiesPaid'
  BY <1>0, <1>1 DEF AddMessage, CopiesPaid, Unsent
<1>2. ASSUME NEW p \in Publisher, SelectBatch(p)
      PROVE  CopiesPaid'
  BY <1>2 DEF SelectBatch, CopiesPaid, Unsent
<1>3. ASSUME NEW p \in Publisher, NEW r \in Row, PublishRow(p, r)
      PROVE  CopiesPaid'
  <2>1. /\ r \in todo[p] /\ copies' = [copies EXCEPT ![r] = @ + 1]
        /\ sent' = [sent EXCEPT ![p] = @ \cup {r}]
        /\ UNCHANGED <<status, crashes, errors>>
    BY <1>3 DEF PublishRow, Current
  <2> SUFFICES ASSUME NEW s \in Row
               PROVE  /\ copies'[s] <= 1 + crashes + errors
                      /\ status[s] \in {"absent", "pending"} /\ Unsent(s)'
                           => copies'[s] <= crashes + errors
    BY <2>1 DEF CopiesPaid
  <2>2. CASE s = r
    <3>1. copies'[s] = copies[r] + 1 /\ copies[r] <= crashes + errors
      BY <1>0, <1>a, <2>1, <2>2
    <3>2. ~Unsent(s)'
      BY <1>0, <2>1, <2>2 DEF Unsent
    <3> QED
      BY <1>0, <3>1, <3>2
  <2>3. CASE s # r
    <3>1. copies'[s] = copies[s] /\ (Unsent(s)' => Unsent(s))
      BY <1>0, <2>1, <2>3 DEF Unsent
    <3> QED
      BY <3>1 DEF CopiesPaid
  <2> QED
    BY <2>2, <2>3
<1>4. ASSUME NEW p \in Publisher, CommitBatch(p)
      PROVE  CopiesPaid'
  <2>1. EndTransaction(p) /\ status' = MarkPublished(sent[p]) /\ sent[p] # {}
          /\ todo[p] = {} /\ UNCHANGED <<copies, crashes, errors>>
    BY <1>4 DEF CommitBatch
  <2> QED
    BY <1>0, <2>1, EndTransactionPaid
<1>5. ASSUME NEW p \in Publisher, NEW r \in Row, NEW accepted \in BOOLEAN,
             RedisFails(p, r, accepted)
      PROVE  CopiesPaid'
  <2>1. /\ r \in todo[p] /\ EndTransaction(p) /\ status' = MarkPublished(sent[p])
        /\ copies' = [copies EXCEPT ![r] = @ + 1] \/ copies' = copies
        /\ errors' = errors + 1 /\ crashes' = crashes
    BY <1>5 DEF RedisFails, SentSoFar, Current
  <2>2. \A s \in Row \ todo[p] : copies'[s] = copies[s]
    BY <1>0, <2>1
  <2>3. \A s \in todo[p] : copies'[s] <= crashes' + errors'
    <3> SUFFICES ASSUME NEW s \in todo[p]  PROVE copies'[s] <= crashes' + errors'
      OBVIOUS
    <3>1. s \in Row /\ copies[s] <= crashes + errors /\ copies[s] \in Nat
      BY <1>0, <1>a
    <3>2. copies'[s] = copies[s] \/ copies'[s] = copies[s] + 1
      BY <1>0, <2>1, <3>1
    <3> QED
      BY <1>0, <2>1, <3>1, <3>2
  <2>4. copies' \in [Row -> Nat]
    BY <1>0, <2>1
  <2>5. crashes' \in Nat /\ errors' \in Nat
          /\ crashes' + errors' >= crashes + errors + 1
          /\ crashes' + errors' >= crashes + errors
    BY <1>0, <2>1
  <2> QED
    BY <2>1, <2>2, <2>3, <2>4, <2>5, EndTransactionPaid
<1>6. ASSUME NEW p \in Publisher, CrashPublisher(p)
      PROVE  CopiesPaid'
  <2>1. EndTransaction(p) /\ crashes' = crashes + 1 /\ UNCHANGED <<copies, errors>>
    BY <1>6 DEF CrashPublisher
  <2>2. status' = MarkPublished({})
    BY <1>0, <1>6 DEF CrashPublisher, MarkPublished
  <2>3. \A s \in todo[p] : copies'[s] <= crashes' + errors'
    <3> SUFFICES ASSUME NEW s \in todo[p]  PROVE copies'[s] <= crashes' + errors'
      OBVIOUS
    <3>1. s \in Row /\ copies[s] <= crashes + errors /\ copies[s] \in Nat
      BY <1>0, <1>a
    <3> QED
      BY <1>0, <2>1, <3>1
  <2>4. crashes' \in Nat /\ errors' \in Nat
          /\ crashes' + errors' >= crashes + errors + 1
          /\ crashes' + errors' >= crashes + errors
    BY <1>0, <2>1
  <2> QED
    BY <1>0, <2>1, <2>2, <2>3, <2>4, EndTransactionPaid
<1>7. ASSUME NEW p \in Publisher, NEW S \in SUBSET Row, CleanUp(p, S)
      PROVE  CopiesPaid'
  BY <1>0, <1>7 DEF CleanUp, Removable, CopiesPaid, Unsent
<1>8. CASE UNCHANGED outboxVars
  BY <1>8 DEF outboxVars, CopiesPaid, Unsent
<1> QED
  BY <1>1, <1>2, <1>3, <1>4, <1>5, <1>6, <1>7, <1>8
     DEF OutboxNext, PublisherStep, PublisherFault, PollEmpty

\* No row is marked without an entry on its stream, and every entry beyond
\* the first is paid for by a crash or a Redis error, for any number of
\* rows, publishers and faults.
THEOREM DuplicatesAccountedHolds == OutboxSpec => []DuplicatesAccounted
<1>1. OutboxInit => CopiesPaid
  BY DEF OutboxInit, CopiesPaid
<1>2. OutboxInv /\ CopiesPaid => DuplicatesAccounted
  BY DEF OutboxInv, CopiesPaid, DuplicatesAccounted
<1> QED
  BY <1>1, <1>2, OutboxInitInv, OutboxNextInv, CopiesPaidStep, PTL
     DEF OutboxSpec

-----------------------------------------------------------------------------
(***************************************************************************)
(* Refinement.  A row is "sent" while its mark waits for the commit; the   *)
(* commit settles the batch and a rollback forgets it.                     *)
(***************************************************************************)
\* The transaction of p ends, marking S, which is all it has sent or nothing.
LEMMA EndTransactionStages ==
  ASSUME OutboxInv, NEW p \in Publisher, EndTransaction(p),
         NEW S, S = sent[p] \/ S = {}, status' = MarkPublished(S)
  PROVE  \A r \in Row :
           Stage(r)' = IF r \in sent[p] THEN (IF r \in S THEN "settled" ELSE "due")
                                        ELSE Stage(r)
<1> SUFFICES ASSUME NEW r \in Row
             PROVE  Stage(r)' = IF r \in sent[p]
                                  THEN (IF r \in S THEN "settled" ELSE "due")
                                  ELSE Stage(r)
  OBVIOUS
<1>1. sent \in [Publisher -> SUBSET Row] /\ sent' = [sent EXCEPT ![p] = {}]
  BY DEF EndTransaction, OutboxInv, OutboxTypeOK
<1>2. \A q \in Publisher : sent'[q] = IF q = p THEN {} ELSE sent[q]
  BY <1>1
<1>3. status'[r] = IF r \in S THEN "published" ELSE status[r]
  BY DEF MarkPublished
<1>4. CASE r \in sent[p]
  <2>1. status[r] = "pending" /\ \A q \in Publisher : q # p => r \notin sent[q]
    BY <1>4 DEF OutboxInv, ExclusiveBatches
  <2>2. ~\E q \in Publisher : r \in sent'[q]
    BY <1>2, <2>1
  <2> QED
    BY <1>3, <1>4, <2>1, <2>2 DEF Stage
<1>5. CASE r \notin sent[p]
  <2>1. (\E q \in Publisher : r \in sent'[q]) <=> (\E q \in Publisher : r \in sent[q])
    BY <1>2, <1>5
  <2> QED
    BY <1>3, <1>5, <2>1 DEF Stage
<1> QED
  BY <1>4, <1>5

\* A locked row that has not been sent is due.
LEMMA TodoIsDue ==
  ASSUME OutboxInv, NEW p \in Publisher, NEW r \in todo[p]
  PROVE  Stage(r) = "due"
<1>1. status[r] = "pending"
  BY DEF OutboxInv, ExclusiveBatches
<1>2. \A q \in Publisher : r \notin sent[q]
  BY DEF OutboxInv, ExclusiveBatches
<1> QED
  BY <1>1, <1>2 DEF Stage

\* A row that has been sent and not yet marked.
LEMMA SentStage ==
  ASSUME OutboxInv, NEW p \in Publisher
  PROVE  \A r \in sent[p] : r \in Row /\ Stage(r) = "sent"
BY DEF OutboxInv, OutboxTypeOK, ExclusiveBatches, Stage

\* Every step of the publisher is a step of the promise.
LEMMA OutboxStepImplements ==
  ASSUME OutboxInv, [OutboxNext]_outboxVars
  PROVE  [Delivery!Next]_(Delivery!deliveryVars)
<1>0. /\ sent \in [Publisher -> SUBSET Row] /\ todo \in [Publisher -> SUBSET Row]
      /\ status \in [Row -> {"absent", "pending", "published", "deleted"}]
  BY DEF OutboxInv, OutboxTypeOK
<1> SUFFICES Delivery!Next
               \/ (copies' = copies /\ \A r \in Row : Stage(r)' = Stage(r))
  BY DEF Delivery!deliveryVars
<1>1. ASSUME NEW r \in Row, AddMessage(r)
      PROVE  Delivery!Next
  <2>1. status[r] = "absent" /\ status' = [status EXCEPT ![r] = "pending"]
          /\ UNCHANGED <<copies, sent>>
    BY <1>1 DEF AddMessage
  <2>2. \A q \in Publisher : r \notin sent[q]
    BY <2>1 DEF OutboxInv, ExclusiveBatches
  <2>3. Stage(r) = "absent" /\ Stage(r)' = "due"
    BY <1>0, <2>1, <2>2 DEF Stage
  <2>4. \A s \in Row : s # r => Stage(s)' = Stage(s)
    BY <1>0, <2>1 DEF Stage
  <2>5. Delivery!Add(r)
    BY <2>1, <2>3, <2>4 DEF Delivery!Add, Delivery!Move
  <2> QED
    BY <2>5 DEF Delivery!Next
<1>2. ASSUME NEW p \in Publisher, SelectBatch(p)
      PROVE  copies' = copies /\ \A r \in Row : Stage(r)' = Stage(r)
  BY <1>2 DEF SelectBatch, Stage
<1>3. ASSUME NEW p \in Publisher, NEW r \in Row, PublishRow(p, r)
      PROVE  Delivery!Next
  <2>1. r \in todo[p] /\ copies' = [copies EXCEPT ![r] = @ + 1]
          /\ sent' = [sent EXCEPT ![p] = @ \cup {r}] /\ status' = status
    BY <1>3 DEF PublishRow, Current
  <2>2. Stage(r) = "due" /\ status[r] = "pending"
    BY <2>1, TodoIsDue DEF OutboxInv, ExclusiveBatches
  <2>3. \A q \in Publisher : sent'[q] = IF q = p THEN sent[q] \cup {r} ELSE sent[q]
    BY <1>0, <2>1
  <2>4. Stage(r)' = "sent"
    BY <2>1, <2>2, <2>3 DEF Stage
  <2>5. \A s \in Row : s # r => Stage(s)' = Stage(s)
    BY <2>1, <2>3 DEF Stage
  <2>6. Delivery!Deliver(r)
    BY <2>1, <2>2, <2>4, <2>5 DEF Delivery!Deliver, Delivery!Move
  <2> QED
    BY <2>6 DEF Delivery!Next
<1>4. ASSUME NEW p \in Publisher, CommitBatch(p)
      PROVE  Delivery!Next
  <2>1. EndTransaction(p) /\ status' = MarkPublished(sent[p]) /\ sent[p] # {}
          /\ copies' = copies
    BY <1>4 DEF CommitBatch
  <2>2. \A r \in Row : Stage(r)' = IF r \in sent[p] THEN "settled" ELSE Stage(r)
    BY <2>1, EndTransactionStages
  <2>3. Delivery!Settle(sent[p])
    BY <2>1, <2>2, SentStage DEF Delivery!Settle, Delivery!Move
  <2> QED
    BY <1>0, <2>3 DEF Delivery!Next
<1>5. ASSUME NEW p \in Publisher, NEW r \in Row, NEW accepted \in BOOLEAN,
             RedisFails(p, r, accepted)
      PROVE  Delivery!Next
  <2>1. EndTransaction(p) /\ status' = MarkPublished(sent[p]) /\ r \in todo[p]
          /\ copies' = IF accepted THEN [copies EXCEPT ![r] = @ + 1] ELSE copies
    BY <1>5 DEF RedisFails, SentSoFar, Current
  <2>2. \A s \in Row : Stage(s)' = IF s \in sent[p] THEN "settled" ELSE Stage(s)
    BY <2>1, EndTransactionStages
  <2>3. Delivery!Fail(r, sent[p], accepted)
    BY <2>1, <2>2, SentStage, TodoIsDue DEF Delivery!Fail
  <2> QED
    BY <1>0, <2>3 DEF Delivery!Next
<1>6. ASSUME NEW p \in Publisher, CrashPublisher(p)
      PROVE  Delivery!Next
               \/ (copies' = copies /\ \A r \in Row : Stage(r)' = Stage(r))
  <2>1. EndTransaction(p) /\ status' = MarkPublished({}) /\ copies' = copies
    BY <1>0, <1>6 DEF CrashPublisher, MarkPublished
  <2>2. \A r \in Row : Stage(r)' = IF r \in sent[p] THEN "due" ELSE Stage(r)
    BY <2>1, EndTransactionStages
  <2>3. CASE sent[p] = {}
    BY <2>1, <2>2, <2>3
  <2>4. CASE sent[p] # {}
    <3>1. Delivery!Forget(sent[p])
      BY <2>1, <2>2, <2>4, SentStage DEF Delivery!Forget, Delivery!Move
    <3> QED
      BY <1>0, <3>1 DEF Delivery!Next
  <2> QED
    BY <2>3, <2>4
<1>7. ASSUME NEW p \in Publisher, NEW S \in SUBSET Row, CleanUp(p, S)
      PROVE  copies' = copies /\ \A r \in Row : Stage(r)' = Stage(r)
  BY <1>0, <1>7 DEF CleanUp, Removable, Stage
<1>8. CASE UNCHANGED outboxVars
  BY <1>8 DEF outboxVars, Stage
<1> QED
  BY <1>1, <1>2, <1>3, <1>4, <1>5, <1>6, <1>7, <1>8
     DEF OutboxNext, PublisherStep, PublisherFault, PollEmpty

\* The publisher keeps the promise of OutboxDelivery for any number of rows,
\* replicas, crashes and Redis errors.
THEOREM OutboxImplementsDelivery == OutboxSpec => ImplementsDelivery
<1>1. OutboxInit => Delivery!Init
  BY DEF OutboxInit, Delivery!Init, Stage
<1> QED
  BY <1>1, OutboxInitInv, OutboxNextInv, OutboxStepImplements, PTL
     DEF OutboxSpec, ImplementsDelivery, Delivery!Spec

=============================================================================
