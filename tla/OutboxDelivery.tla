--------------------------- MODULE OutboxDelivery ---------------------------
(***************************************************************************)
(* What the outbox promises: a committed row is delivered at least once,   *)
(* is settled only after a delivery, and is never delivered again once it  *)
(* is settled.  A delivery that nobody remembers is repeated.              *)
(***************************************************************************)
EXTENDS Naturals

CONSTANT Row

VARIABLES stage, copies

deliveryVars == <<stage, copies>>

Init ==
  /\ stage = [r \in Row |-> "absent"]
  /\ copies = [r \in Row |-> 0]

Move(S, from, to) ==
  /\ S # {} /\ \A r \in S : stage[r] = from
  /\ stage' = [r \in Row |-> IF r \in S THEN to ELSE stage[r]]

Add(r) == Move({r}, "absent", "due") /\ UNCHANGED copies

Deliver(r) ==
  /\ Move({r}, "due", "sent")
  /\ copies' = [copies EXCEPT ![r] = @ + 1]

\* Redis has the entry, and the publisher was told otherwise; or it has not.
\* Earlier deliveries are settled by the same commit.
Fail(r, S, accepted) ==
  /\ stage[r] = "due"
  /\ \A s \in S : stage[s] = "sent"
  /\ stage' = [s \in Row |-> IF s \in S THEN "settled" ELSE stage[s]]
  /\ copies' = IF accepted THEN [copies EXCEPT ![r] = @ + 1] ELSE copies

Settle(S) == Move(S, "sent", "settled") /\ UNCHANGED copies

Forget(S) == Move(S, "sent", "due") /\ UNCHANGED copies

Next ==
  \/ \E r \in Row : Add(r) \/ Deliver(r)
  \/ \E r \in Row, S \in SUBSET Row, accepted \in BOOLEAN : Fail(r, S, accepted)
  \/ \E S \in SUBSET Row : Settle(S) \/ Forget(S)

Spec == Init /\ [][Next]_deliveryVars

=============================================================================
