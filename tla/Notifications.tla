---------------------------- MODULE Notifications ---------------------------
(***************************************************************************)
(* Domain events on their way to the notification channels                 *)
(* (internal/notifications: subscriber.go, service.go, slack.go, email.go, *)
(* pagerduty.go, registered in cmd/api/main.go).                           *)
(*                                                                         *)
(* Every API process runs one consumer for each subject; the processes     *)
(* share the durable consumers, so either may get a message.  JetStream    *)
(* delivers a message again that was refused or not answered in time.      *)
(* PagerDuty itself is the set of open incidents.                          *)
(***************************************************************************)
EXTENDS Integers, Sequences, FiniteSets

CONSTANTS Processes, None,
          Events,        \* <<subject, type>>; type is "none" for the events of this
                         \* repository's publishers, whose payloads name none
          Channels,      \* the channels that are configured, in the order main
                         \* registers them: slack, email, pagerduty
          MaxMessages,   \* bound: messages published
          MaxDeliver,    \* deliveries of one message
          MaxCrashes     \* bound

VARIABLES msgs,      \* published messages: event, deliveries so far, state
          at,        \* what the consumer of a process and a subject is doing
          incidents, \* the last incident each process opened for the project
          open,      \* PagerDuty: keys of the open incidents
          sent,      \* channel and message pairs that arrived
          crashes,
          astray     \* ghost: incidents that lost their place in "incidents"

vars == <<msgs, at, incidents, open, sent, crashes, astray>>

Subjects == {e[1] : e \in Events}
Consumers == Processes \X Subjects
Idle == [pc |-> "idle"]

Init ==
  /\ msgs = <<>> /\ open = {} /\ sent = {} /\ crashes = 0 /\ astray = {}
  /\ at = [w \in Consumers |-> Idle]
  /\ incidents = [p \in Processes |-> None]

Become(w, state) == at' = [at EXCEPT ![w] = state]

-----------------------------------------------------------------------------
(* JetStream                                                                *)

Publish ==
  /\ Len(msgs) < MaxMessages
  /\ \E e \in Events \cup {<<s, "malformed">> : s \in Subjects} :
       msgs' = Append(msgs, [subject |-> e[1], type |-> e[2], tries |-> 0, state |-> "queued"])
  /\ UNCHANGED <<at, incidents, open, sent, crashes, astray>>

\* A message that has had its deliveries is not delivered again.
Requeued(m) == IF m.tries < MaxDeliver THEN "queued" ELSE "dropped"

\* The consumer did not answer within AckWait; it goes on all the same.
AckWaitExpires(i) ==
  /\ msgs[i].state = "out"
  /\ msgs' = [msgs EXCEPT ![i].state = Requeued(msgs[i])]
  /\ UNCHANGED <<at, incidents, open, sent, crashes, astray>>

-----------------------------------------------------------------------------
(* Channels                                                                 *)

Failures == {"deployment.failed", "deployment.rollback.initiated", "health.degraded",
             "health.alert.triggered"}
Resolved == "health.alert.resolved"

\* The email channel is configured without a filter.
SlackSupports(type) == TRUE
EmailSupports(type) == TRUE
PagerDutySupports(type) == type \in Failures \cup {Resolved}

Supports(ch, type) ==
  CASE ch = "slack" -> SlackSupports(type)
    [] ch = "email" -> EmailSupports(type)
    [] ch = "pagerduty" -> PagerDutySupports(type)

\* The channel after the n-th that supports the type; 0 when there is none.
NextChannel(n, type) ==
  LET later == {k \in n + 1 .. Len(Channels) : Supports(Channels[k], type)} IN
  IF later = {} THEN 0 ELSE CHOOSE k \in later : \A j \in later : k <= j

\* An error of one channel does not keep the next from being tried.  The
\* service in main has no RetryConfig: one attempt.
Dispatch(w, state, failed) ==
  LET n == NextChannel(state.ch, state.type) IN
  Become(w, [state EXCEPT !.ch = n, !.failed = @ \/ failed,
             !.pc = IF n = 0 THEN "answer"
                    ELSE IF Channels[n] = "pagerduty" THEN "page" ELSE "send"])

\* Slack's webhook or the SMTP server.
Send(w) ==
  /\ at[w].pc = "send"
  /\ \E failed \in BOOLEAN :
       /\ sent' = IF failed THEN sent ELSE sent \cup {<<Channels[at[w].ch], at[w].msg>>}
       /\ Dispatch(w, at[w], failed)
  /\ UNCHANGED <<msgs, incidents, open, crashes, astray>>

-----------------------------------------------------------------------------
(* PagerDuty                                                                *)

\* The incident this process opened last, whatever it was about; without one,
\* the alert's.  The key is the event type (and the project).
ResolveKey(p) == IF incidents[p] # None THEN incidents[p] ELSE "health.alert.triggered"

\* sendRequest of triggerIncident and resolveIncident.
sendRequest(w) ==
  /\ at[w].pc = "page"
  /\ LET key == IF at[w].type = Resolved THEN ResolveKey(w[1]) ELSE at[w].type IN
     \E arrived \in BOOLEAN, failed \in BOOLEAN :
       /\ ~failed => arrived
       /\ open' = IF ~arrived THEN open
                  ELSE IF at[w].type = Resolved THEN open \ {key} ELSE open \cup {key}
       /\ sent' = IF arrived THEN sent \cup {<<"pagerduty", at[w].msg>>} ELSE sent
       /\ astray' = IF arrived /\ failed /\ at[w].type # Resolved THEN astray \cup {key}
                    ELSE astray
       /\ IF failed THEN Dispatch(w, at[w], TRUE)
          ELSE Become(w, [at[w] EXCEPT !.pc = "track", !.key = key])
  /\ UNCHANGED <<msgs, incidents, crashes>>

\* The map has one entry for the project: the latest incident, or none after a
\* resolution, even if another incident was entered in the meantime.
Tracked(w) == IF at[w].type = Resolved THEN None ELSE at[w].key

Track(w) ==
  /\ at[w].pc = "track"
  /\ incidents' = [incidents EXCEPT ![w[1]] = Tracked(w)]
  /\ astray' = astray \cup ((open \cap {incidents[w[1]]}) \ {Tracked(w)})
  /\ Dispatch(w, at[w], FALSE)
  /\ UNCHANGED <<msgs, open, sent, crashes>>

-----------------------------------------------------------------------------
(* The subscriber                                                           *)

\* A payload that cannot be decoded is terminated at once.
handleMessage(w) ==
  /\ at[w].pc = "idle"
  /\ \E i \in DOMAIN msgs :
       /\ msgs[i].state = "queued" /\ msgs[i].subject = w[2]
       /\ IF msgs[i].type = "malformed"
            THEN msgs' = [msgs EXCEPT ![i].state = "terminated", ![i].tries = @ + 1] /\ UNCHANGED at
            ELSE /\ msgs' = [msgs EXCEPT ![i].state = "out", ![i].tries = @ + 1]
                 /\ Dispatch(w, [pc |-> "idle", msg |-> i, type |-> msgs[i].type, ch |-> 0,
                                 failed |-> FALSE, key |-> None], FALSE)
  /\ UNCHANGED <<incidents, open, sent, crashes, astray>>

\* Mutant of Answer: the message is acknowledged although a channel failed.
X_Answer(failed, m) == "acked"
Answer(failed, m) == IF failed THEN Requeued(m) ELSE "acked"

\* Nak: every channel gets the message again, those that had it included.
\* An answer to an earlier delivery than the last one counts as well.
AckOrNak(w) ==
  /\ at[w].pc = "answer"
  /\ LET i == at[w].msg IN
     msgs' = IF msgs[i].state = "acked" \/ (at[w].failed /\ msgs[i].state # "out") THEN msgs
             ELSE [msgs EXCEPT ![i].state = Answer(at[w].failed, msgs[i])]
  /\ Become(w, Idle)
  /\ UNCHANGED <<incidents, open, sent, crashes, astray>>

\* A process dies: what it was doing is forgotten, and so are its incidents.
Crash(p) ==
  /\ crashes < MaxCrashes /\ crashes' = crashes + 1
  /\ at' = [w \in Consumers |-> IF w[1] = p THEN Idle ELSE at[w]]
  /\ incidents' = [incidents EXCEPT ![p] = None]
  /\ astray' = astray \cup ({incidents[p]} \ {None})
       \cup {at[w].key : w \in {v \in Consumers : v[1] = p /\ at[v].pc = "track"}}
  /\ UNCHANGED <<msgs, open, sent>>

Next ==
  \/ Publish
  \/ \E i \in DOMAIN msgs : AckWaitExpires(i)
  \/ \E w \in Consumers : handleMessage(w) \/ Send(w) \/ sendRequest(w) \/ Track(w) \/ AckOrNak(w)
  \/ \E p \in Processes : Crash(p)

Spec == Init /\ [][Next]_vars

-----------------------------------------------------------------------------
(* Properties                                                               *)

TypeOK ==
  /\ \A i \in DOMAIN msgs :
       /\ msgs[i].state \in {"queued", "out", "acked", "dropped", "terminated"}
       /\ msgs[i].tries \in 0 .. MaxDeliver
  /\ incidents \in [Processes -> {None} \cup Failures] /\ open \subseteq Failures

\* A message is given up only after MaxDeliver deliveries, and one that was
\* acknowledged has reached every channel that supports it, through however many
\* failures, crashes and late answers (Dispatch, handleMessage).
AckedReachedAll ==
  \A i \in DOMAIN msgs :
    /\ msgs[i].state = "dropped" => msgs[i].tries = MaxDeliver
    /\ msgs[i].state = "acked" =>
         \A n \in DOMAIN Channels :
           Supports(Channels[n], msgs[i].type) => <<Channels[n], i>> \in sent

\* An open incident is one that some process would resolve, or is about to enter
\* into its map, unless it lost its place there: to a later incident of the
\* project, to a resolution that overtook it, to a crash, or to an answer of
\* PagerDuty that never came (triggerIncident, resolveIncident).
OpenIsTracked ==
  \A k \in open :
    \/ \E p \in Processes : incidents[p] = k
    \/ \E w \in Consumers : at[w].pc = "track" /\ at[w].key = k
    \/ k \in astray
=============================================================================
