-------------------------------- MODULE Agent --------------------------------
(***************************************************************************)
(* The sidecar agent (cmd/agent, internal/agent): the weights it gives     *)
(* Envoy over xDS, the heartbeats it reports them with, and its row in the *)
(* registry of the API (internal/agent/registry, postgres/agents.go).      *)
(*                                                                         *)
(* The callback of the event stream pushes a snapshot and then tells the   *)
(* reporter, whose ticker runs in a goroutine of its own.  A heartbeat is  *)
(* three statements on the server; the agent gives up waiting after ten    *)
(* seconds and sends the next, so two may be under way.  The percentages   *)
(* are those of the events "deployment.phase_changed".  MarkStaleAgents    *)
(* has no caller and is not modelled.                                      *)
(***************************************************************************)
EXTENDS Integers, FiniteSets, FiniteSetsExt

CONSTANTS None,
          Upstreams,     \* names of the upstreams in the agent's configuration
          Percents,      \* traffic percentages of the phase events
          Keep,          \* heartbeats kept
          MaxEvents, MaxBeats, MaxInFlight   \* bounds

VARIABLES version,     \* the xDS server's atomic counter
          snapshot,    \* what Envoy is served
          callback,    \* the stream's callback
          rep,         \* the reporter: weights, version
          agentID,     \* "row": registered; "random": registration failed
          row,         \* the registry row
          beats,       \* agent_heartbeats
          flight,      \* heartbeat requests the server works on
          events, sent,
          unpruned     \* ghost: heartbeats cut off before they pruned

vars == <<version, snapshot, callback, rep, agentID, row, beats, flight, events, sent, unpruned>>

-----------------------------------------------------------------------------
(* xDS                                                                      *)

makeClusters == Upstreams
makeRouteConfig(weights) == [k \in DOMAIN weights |-> weights[k]]

\* A cluster for each upstream, one route over the weighted clusters.
BuildSnapshot(v, weights) ==
  [version |-> v, clusters |-> makeClusters, routes |-> makeRouteConfig(weights)]

initialWeights == [u \in Upstreams |-> 50]
newWeights(pct) == [u \in {"blue", "green"} |-> IF u = "green" THEN pct ELSE 100 - pct]

\* Shares in percent; none without weights.
computeTraffic(w) ==
  LET total == MapThenSumSet(LAMBDA u : w[u], DOMAIN w) IN
  IF total = 0 THEN <<>> ELSE [u \in DOMAIN w |-> (w[u] * 100) \div total]

-----------------------------------------------------------------------------
(* The agent                                                                *)

Done == [pc |-> "idle"]

\* The first snapshot is version 1; the reporter's version stays 0 until the
\* first event.  Without a registration the agent goes on under an id of its own
\* when it has been told its application.
Init ==
  /\ version = 1
  /\ snapshot = BuildSnapshot(1, initialWeights)
  /\ rep = [weights |-> initialWeights, version |-> 0]
  /\ callback = Done
  /\ agentID \in {"row", "random"}
  /\ row = (IF agentID = "row" THEN "connected" ELSE None)
  /\ beats = {} /\ flight = {} /\ events = 0 /\ sent = 0 /\ unpruned = 0

UpdateWeights ==
  /\ callback.pc = "idle" /\ events < MaxEvents
  /\ events' = events + 1
  /\ \E p \in Percents :
       /\ version' = version + 1
       /\ snapshot' = BuildSnapshot(version + 1, newWeights(p))
       /\ callback' = [pc |-> "weights", weights |-> newWeights(p)]
  /\ UNCHANGED <<rep, agentID, row, beats, flight, sent, unpruned>>

SetWeights ==
  /\ callback.pc = "weights"
  /\ rep' = [rep EXCEPT !.weights = callback.weights]
  /\ callback' = [pc |-> "version"]
  /\ UNCHANGED <<version, snapshot, agentID, row, beats, flight, events, sent, unpruned>>

SetConfigVersion ==
  /\ callback.pc = "version"
  /\ rep' = [rep EXCEPT !.version = version]
  /\ callback' = Done
  /\ UNCHANGED <<version, snapshot, agentID, row, beats, flight, events, sent, unpruned>>

\* One lock section reads weights and version; the request may not arrive.
buildPayload ==
  /\ sent < MaxBeats /\ Cardinality(flight) < MaxInFlight
  /\ sent' = sent + 1
  /\ \/ flight' = flight \cup {[at |-> sent + 1, pc |-> "insert", version |-> rep.version,
                                weights |-> rep.weights, torn |-> callback.pc # "idle"]}
     \/ UNCHANGED flight
  /\ UNCHANGED <<version, snapshot, callback, rep, agentID, row, beats, events, unpruned>>

-----------------------------------------------------------------------------
(* The registry                                                             *)

Step(h, pc) == flight' = (flight \ {h}) \cup (IF pc = "done" THEN {} ELSE {[h EXCEPT !.pc = pc]})

\* A heartbeat needs its agent.
InsertHeartbeat(h) ==
  /\ h.pc = "insert"
  /\ beats' = IF row = None THEN beats
              ELSE beats \cup {[at |-> h.at, version |-> h.version, weights |-> h.weights,
                                torn |-> h.torn]}
  /\ Step(h, IF row = None THEN "done" ELSE "seen")
  /\ UNCHANGED <<version, snapshot, callback, rep, agentID, row, events, sent, unpruned>>

\* A row that is gone answers 500 and nothing is pruned (its heartbeats went along).
UpdateLastSeen(h) ==
  /\ h.pc = "seen"
  /\ row' = IF row = None THEN None ELSE "connected"
  /\ Step(h, IF row = None THEN "done" ELSE "prune")
  /\ UNCHANGED <<version, snapshot, callback, rep, agentID, beats, events, sent, unpruned>>

\* Mutant of Newest: a heartbeat more than asked for.
X_Newest == {b \in beats : Cardinality({c \in beats : c.at > b.at}) < Keep + 1}
Newest == {b \in beats : Cardinality({c \in beats : c.at > b.at}) < Keep}

PruneHeartbeats(h) ==
  /\ h.pc = "prune"
  /\ beats' = Newest /\ unpruned' = 0
  /\ Step(h, "done")
  /\ UNCHANGED <<version, snapshot, callback, rep, agentID, row, events, sent>>

\* The agent hung up, or a statement failed.
CutOff(h) ==
  /\ Step(h, "done")
  /\ unpruned' = unpruned + 1
  /\ UNCHANGED <<version, snapshot, callback, rep, agentID, row, beats, events, sent>>

\* An operator removes the agent; its heartbeats go along.  Nobody tells it.
DeleteAgent ==
  /\ row # None
  /\ row' = None /\ beats' = {}
  /\ UNCHANGED <<version, snapshot, callback, rep, agentID, flight, events, sent, unpruned>>

Next ==
  \/ UpdateWeights \/ SetWeights \/ SetConfigVersion \/ buildPayload \/ DeleteAgent
  \/ \E h \in flight : InsertHeartbeat(h) \/ UpdateLastSeen(h) \/ PruneHeartbeats(h) \/ CutOff(h)

Spec == Init /\ [][Next]_vars

-----------------------------------------------------------------------------
(* Properties                                                               *)

TypeOK ==
  /\ snapshot.version = version /\ snapshot.clusters = Upstreams
  /\ row \in {None, "connected"} /\ (agentID = "random" => row = None)
  /\ rep.version \in 0 .. version

\* The weights of every version, as they were pushed, are not kept; a heartbeat
\* is compared with the others and with the present.
SameVersion(a, b) == a.version = b.version /\ a.version # 0 /\ ~a.torn /\ ~b.torn

\* The reporter shows what Envoy is served whenever no callback is under way; two
\* heartbeats of one version have the same weights unless one was taken within a
\* callback (SetWeights, SetConfigVersion); their shares add up to a hundred;
\* heartbeats beyond Keep are those of requests that did not come to their pruning
\* (PruneHeartbeats), and an agent that is not registered has none.
HeartbeatsHold ==
  /\ callback.pc = "idle" /\ rep.version # 0 =>
       rep.version = snapshot.version /\ rep.weights = snapshot.routes
  /\ \A a, b \in beats : SameVersion(a, b) => a.weights = b.weights
  /\ \A b \in beats : LET t == computeTraffic(b.weights) IN
       MapThenSumSet(LAMBDA u : t[u], DOMAIN t) = 100
  /\ Cardinality(beats) <= Keep + unpruned + Cardinality({h \in flight : h.pc # "insert"})
  /\ row = None => beats = {}
=============================================================================
