------------------------------ MODULE Webhooks ------------------------------
(***************************************************************************)
(* One outgoing webhook and its test deliveries (internal/webhooks,        *)
(* internal/models/webhook.go, postgres/webhook_repository.go).  An edit   *)
(* reads the row and writes all of it back; a test records a delivery as   *)
(* pending, calls the receiver, and records the outcome.  Requests come    *)
(* from the webhook's organization or from another one.                    *)
(*                                                                         *)
(* The event each change publishes goes to a subject that nobody reads,    *)
(* and no caller of RetryFailedDeliveries exists: neither is modelled.     *)
(***************************************************************************)
EXTENDS Integers, FiniteSets

CONSTANTS Clients, None,
          Fields,      \* what an edit may set: url, active, ...
          Values,
          MaxOps       \* bound: requests begun

VARIABLES hook,        \* the webhook's columns, None when it is not there
          deliveries,  \* delivery to its record
          received,    \* deliveries that reached the receiver, with the column values used
          cl, ops,
          writes       \* ghost: writes of the webhook

vars == <<hook, deliveries, received, cl, ops, writes>>

Idle == [pc |-> "idle"]

Init ==
  /\ hook \in [Fields -> {CHOOSE v \in Values : TRUE}]
  /\ deliveries = <<>> /\ received = {} /\ ops = 0 /\ writes = 0
  /\ cl = [c \in Clients |-> Idle]

Begin(c, state) ==
  /\ cl[c].pc = "idle" /\ ops < MaxOps
  /\ ops' = ops + 1
  /\ cl' = [cl EXCEPT ![c] = state]

Become(c, state) == cl' = [cl EXCEPT ![c] = state]

Put(f, k, v) == [x \in DOMAIN f \cup {k} |-> IF x = k THEN v ELSE f[x]]

-----------------------------------------------------------------------------
(* Edits                                                                    *)

\* Mutant of Edited: a request that gives no value for a column clears it.
X_Edited(row, req) ==
  [f \in Fields |-> IF f \in DOMAIN req THEN req[f] ELSE CHOOSE v \in Values : TRUE]

\* The columns the request gives a value for.
Edited(row, req) == [f \in Fields |-> IF f \in DOMAIN req THEN req[f] ELSE row[f]]

\* An empty request is answered without a write.
GetForUpdate(c) ==
  /\ \E F \in SUBSET Fields : \E req \in [F -> Values] :
       Begin(c, IF hook = None \/ F = {} THEN Idle
                ELSE [pc |-> "update", req |-> req, make |-> Edited(hook, req), at |-> writes])
  /\ UNCHANGED <<hook, deliveries, received, writes>>

\* The statement sets every column.  The organization is compared after it, on
\* the way to the answer.
UpdateWebhook(c) ==
  /\ cl[c].pc = "update"
  /\ IF hook = None THEN UNCHANGED <<hook, writes>>
     ELSE hook' = cl[c].make /\ writes' = writes + 1
  /\ Become(c, Idle)
  /\ UNCHANGED <<deliveries, received, ops>>

\* The handler compares the organization, the service reads once more.
GetForDelete(c) ==
  /\ \E own \in BOOLEAN : Begin(c, IF hook = None \/ ~own THEN Idle ELSE [pc |-> "delete"])
  /\ UNCHANGED <<hook, deliveries, received, writes>>

\* The deliveries go along.
DeleteWebhook(c) ==
  /\ cl[c].pc = "delete"
  /\ hook' = None /\ deliveries' = <<>> /\ writes' = writes + 1
  /\ Become(c, Idle)
  /\ UNCHANGED <<received, ops>>

-----------------------------------------------------------------------------
(* Tests                                                                    *)

\* The delivery will go where the columns said at this read; a webhook that is
\* not active is tested all the same.
GetForTest(c) ==
  /\ \E own \in BOOLEAN :
       Begin(c, IF hook = None \/ ~own THEN Idle ELSE [pc |-> "record", id |-> ops + 1, hook |-> hook])
  /\ UNCHANGED <<hook, deliveries, received, writes>>

\* A delivery needs its webhook.
CreateDelivery(c) ==
  /\ cl[c].pc = "record"
  /\ deliveries' = IF hook = None THEN deliveries
                   ELSE Put(deliveries, cl[c].id, [status |-> "pending", attempts |-> 0])
  /\ Become(c, IF hook = None THEN Idle ELSE [cl[c] EXCEPT !.pc = "send"])
  /\ UNCHANGED <<hook, received, ops, writes>>

\* The call succeeds, is answered with an error, or fails on the way, before or
\* after it reached the receiver.
deliverWebhook(c) ==
  /\ cl[c].pc = "send"
  /\ \E reached \in BOOLEAN, ok \in BOOLEAN :
       /\ ok => reached
       /\ received' = IF reached THEN received \cup {<<cl[c].id, cl[c].hook>>} ELSE received
       /\ Become(c, [pc |-> "outcome", id |-> cl[c].id, ok |-> ok])
  /\ UNCHANGED <<hook, deliveries, ops, writes>>

Outcome(ok) == [status |-> IF ok THEN "sent" ELSE "failed", attempts |-> 1]

\* Not found when the webhook went in the meantime.
UpdateDelivery(c) ==
  /\ cl[c].pc = "outcome"
  /\ deliveries' = IF cl[c].id \notin DOMAIN deliveries THEN deliveries
                   ELSE [deliveries EXCEPT ![cl[c].id] = Outcome(cl[c].ok)]
  /\ Become(c, Idle)
  /\ UNCHANGED <<hook, received, ops, writes>>

\* The request's context ends, or a statement fails.
CutOff(c) ==
  /\ cl[c].pc # "idle" /\ Become(c, Idle)
  /\ UNCHANGED <<hook, deliveries, received, ops, writes>>

Next == \E c \in Clients :
  \/ GetForUpdate(c) \/ UpdateWebhook(c) \/ GetForDelete(c) \/ DeleteWebhook(c)
  \/ GetForTest(c) \/ CreateDelivery(c) \/ deliverWebhook(c) \/ UpdateDelivery(c)
  \/ CutOff(c)

Spec == Init /\ [][Next]_vars

-----------------------------------------------------------------------------
(* Properties                                                               *)

TypeOK ==
  /\ hook \in {None} \cup [Fields -> Values]
  /\ \A d \in DOMAIN deliveries : deliveries[d].status \in {"pending", "sent", "failed"}
  /\ ops \in 0 .. MaxOps

\* A recorded delivery belongs to the webhook, went out once at most, and is
\* recorded as sent only when it arrived, at where the webhook pointed when the
\* test began (TestWebhook).
DeliveriesAreTrue ==
  /\ hook = None => deliveries = <<>>
  /\ \A d \in DOMAIN deliveries :
       /\ Cardinality({r \in received : r[1] = d}) <= 1
       /\ deliveries[d].status = "sent" => \E r \in received : r[1] = d
       /\ deliveries[d].status = "pending" <=> deliveries[d].attempts = 0

\* An edit takes back a column that it was not asked to set only when another
\* edit came between its read and its write (UpdateWebhook).
EditLossStep ==
  \A c \in Clients :
    cl[c].pc = "update" /\ cl'[c].pc = "idle" /\ writes' # writes =>
      \A f \in Fields : hook'[f] # hook[f] => f \in DOMAIN cl[c].req \/ cl[c].at # writes
=============================================================================
