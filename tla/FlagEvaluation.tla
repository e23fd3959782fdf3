--------------------------- MODULE FlagEvaluation ---------------------------
(***************************************************************************)
(* One feature flag between the database, the Redis cache and the API      *)
(* replicas that evaluate it (internal/flags/evaluator.go and service.go,  *)
(* internal/platform/cache/flagcache).                                     *)
(*                                                                         *)
(* An evaluation reads the flag, the environment's override, the rules,    *)
(* the rules' environment states and a segment one after the other, each   *)
(* from the cache or from the database; the misses of one replica share a  *)
(* database call (singleflight), and a miss is written back with a time to *)
(* live.  A writer changes the database first and then invalidates the     *)
(* cache with three Redis commands.  Writers and evaluations interleave at *)
(* every one of these steps, and either may stop between two.              *)
(*                                                                         *)
(* Ghosts: ver counts the writes of the database; an entry's ver is that   *)
(* of the read it came from, its late flag says that a write happened      *)
(* between that read and the store.                                        *)
(***************************************************************************)
EXTENDS FlagTargeting

CONSTANTS Requests,     \* concurrent evaluations
          Replica,      \* the replica each request runs on
          Writers,      \* concurrent operations of the flag service
          Rules,        \* 1..n, the flag's rules by priority
          Forms,        \* the rules an operator may write
          InitialRules, \* the flag's rules when the run begins
          Segments,     \* the contents a segment may have
          Contexts,     \* the evaluation contexts of the requests
          TTL,          \* ticks a cached entry lives (cacheTTL, 30 s)
          MaxWrites,    \* bound: database writes
          MaxCalls,     \* bound: evaluations begun
          None

VARIABLES db,       \* the rows of the flag
          cache,    \* the Redis keys of the flag
          flight,   \* database calls the requests of a replica share
          req,      \* the evaluations
          asked,    \* their contexts
          wr,       \* the writers
          ver,      \* ghost: writes so far
          missed,   \* ghost: the last write whose invalidation was not carried out
          quiet,    \* ghost: evaluations begun when all was settled, with no write since
          calls,    \* bound: evaluations begun
          bound     \* TRUE: the flag row carries the environment's id

ghosts == <<ver, missed, quiet>>
vars == <<db, cache, flight, req, asked, wr, ghosts, calls, bound>>

NoRule == [type |-> "none"]
RuleTable == [Rules -> Forms \cup {NoRule}]

\* What the other modules assume of the constants: no rule is the missing one.
EvaluationConstants ==
  /\ Rules \subseteq Nat \ {0} /\ InitialRules \subseteq RuleTable
  /\ \A f \in Forms : f # NoRule
  /\ TTL \in Nat \ {0} /\ MaxWrites \in Nat /\ MaxCalls \in Nat

Replicas == {Replica[q] : q \in Requests}
Idle == [pc |-> "idle"]

\* What one Redis key holds.
Entry(v, n, l) == [val |-> v, ver |-> n, late |-> l, age |-> 0]

\* The row of feature_flags, and the rows of flag_targeting_rules.
FlagRow == [archived |-> db.archived, enabled |-> db.enabled]

Init ==
  /\ bound \in BOOLEAN
  /\ db \in [archived : {FALSE}, enabled : {TRUE}, env : {None},
             rules : InitialRules, on : {[i \in Rules |-> TRUE]},
             seg : Segments]
  /\ cache = [flag |-> None, id |-> None, rules |-> None, seg |-> None]
  /\ flight = [r \in Replicas |-> [flag |-> None, rules |-> None]]
  /\ req = [q \in Requests |-> Idle]
  /\ asked = [q \in Requests |-> None]
  /\ wr = [w \in Writers |-> Idle]
  /\ ver = 0 /\ missed = 0 /\ quiet = {} /\ calls = 0

-----------------------------------------------------------------------------
(* What is current                                                          *)

\* Nothing outdated is cached, being read or about to be stored.
Settled ==
  /\ cache.flag # None => cache.flag.val = FlagRow
  /\ cache.rules # None => cache.rules.val = db.rules
  /\ cache.seg # None => cache.seg.val = db.seg
  /\ \A r \in Replicas : /\ flight[r].flag # None => flight[r].flag.val = FlagRow
                         /\ flight[r].rules # None => flight[r].rules.val = db.rules
  /\ \A q \in Requests :
       /\ req[q].pc = "setFlag" => req[q].flag = FlagRow
       /\ req[q].pc = "setRules" => req[q].rules = db.rules
       /\ req[q].pc = "setSeg" => req[q].seg \in {db.seg, NoSegment}

-----------------------------------------------------------------------------
(* Evaluations                                                              *)

Step(q, rec) == req' = [req EXCEPT ![q] = rec]
\* lost: what the evaluation could not read and went on without.
Finish(q, outcome, lost) == Step(q, [pc |-> "done", result |-> outcome, lost |-> lost])
Off == [on |-> FALSE, reason |-> "flag_disabled", rule |-> 0]
Nothing == [env |-> FALSE, rules |-> {}]

\* Evaluate: the flag from the cache.  SetFlag files a row under the row's own
\* environment id, GetFlag looks it up under the requested one, so that a row
\* without an environment is always a miss.  A miss starts the database call
\* or joins the one its replica has in flight.
GetFlag(q) ==
  /\ req[q].pc \in {"idle", "done"} /\ calls < MaxCalls
  /\ calls' = calls + 1
  /\ \E c \in Contexts : asked' = [asked EXCEPT ![q] = c]
  /\ quiet' = IF Settled THEN quiet \cup {q} ELSE quiet \ {q}
  /\ LET r == Replica[q] IN
     \/ /\ cache.flag # None /\ bound
        /\ Step(q, [pc |-> "env", flag |-> cache.flag.val])
        /\ UNCHANGED flight
     \/ /\ ~(cache.flag # None /\ bound)
        /\ Step(q, [pc |-> "flag"])
        /\ flight' = IF flight[r].flag # None THEN flight
                     ELSE [flight EXCEPT ![r].flag = [val |-> FlagRow, ver |-> ver]]
  /\ UNCHANGED <<db, cache, wr, ver, missed, bound>>

\* The shared call returns to everyone who waits for it.
FlagFlightDone(r) ==
  /\ flight[r].flag # None
  /\ req' = [q \in Requests |->
       IF Replica[q] = r /\ req[q].pc = "flag"
         THEN [pc |-> "setFlag", flag |-> flight[r].flag.val, read |-> flight[r].flag.ver]
         ELSE req[q]]
  /\ flight' = [flight EXCEPT ![r].flag = None]
  /\ UNCHANGED <<db, cache, asked, wr, ghosts, calls, bound>>

\* A shared call fails: everyone who waits for it at pc returns its error.
FlightFails(r, pc) ==
  req' = [q \in Requests |-> IF Replica[q] = r /\ req[q].pc = pc THEN Idle ELSE req[q]]

FlagFlightFails(r) ==
  /\ flight[r].flag # None
  /\ FlightFails(r, "flag")
  /\ flight' = [flight EXCEPT ![r].flag = None]
  /\ UNCHANGED <<db, cache, asked, wr, ghosts, calls, bound>>

\* FlagCache.SetFlag: the row first, the mapping from the id to its key second.
SetFlag(q) ==
  /\ req[q].pc = "setFlag"
  /\ cache' = [cache EXCEPT !.flag = Entry(req[q].flag, req[q].read, req[q].read < ver)]
  /\ Step(q, [pc |-> "setId", flag |-> req[q].flag])
  /\ UNCHANGED <<db, flight, asked, wr, ghosts, calls, bound>>

SetFlagId(q) ==
  /\ req[q].pc = "setId"
  /\ cache' = [cache EXCEPT !.id = Entry(TRUE, 0, FALSE)]
  /\ Step(q, [pc |-> "env", flag |-> req[q].flag])
  /\ UNCHANGED <<db, flight, asked, wr, ghosts, calls, bound>>

\* Mutant of CheckEnabled: the override cannot turn off what the flag has on.
X_CheckEnabled(q) ==
  /\ req[q].pc = "env"
  /\ \E fails \in BOOLEAN :
       LET known == db.env # None /\ ~fails
           enabled == req[q].flag.enabled \/ (known /\ db.env = "on") IN
       IF req[q].flag.archived \/ ~enabled THEN Finish(q, Off, [Nothing EXCEPT !.env = fails])
       ELSE Step(q, [pc |-> "getRules", value |-> IF known THEN "env" ELSE "default",
                     lost |-> [Nothing EXCEPT !.env = fails]])
  /\ UNCHANGED <<db, cache, flight, asked, wr, ghosts, calls, bound>>

\* Archived flags are off; then the environment's own state, always read from
\* the database, overrides the flag's.  When that look-up fails, the evaluation
\* goes on as if the environment had no state.
CheckEnabled(q) ==
  /\ req[q].pc = "env"
  /\ \E fails \in BOOLEAN :
       LET known == db.env # None /\ ~fails
           enabled == IF known THEN db.env = "on" ELSE req[q].flag.enabled IN
       IF req[q].flag.archived \/ ~enabled THEN Finish(q, Off, [Nothing EXCEPT !.env = fails])
       ELSE Step(q, [pc |-> "getRules", value |-> IF known THEN "env" ELSE "default",
                     lost |-> [Nothing EXCEPT !.env = fails]])
  /\ UNCHANGED <<db, cache, flight, asked, wr, ghosts, calls, bound>>

GetRules(q) ==
  /\ req[q].pc = "getRules"
  /\ LET r == Replica[q] IN
     IF cache.rules # None
       THEN /\ Step(q, [pc |-> "states", rules |-> cache.rules.val, value |-> req[q].value,
                        lost |-> req[q].lost])
            /\ UNCHANGED flight
       ELSE /\ Step(q, [pc |-> "rules", value |-> req[q].value, lost |-> req[q].lost])
            /\ flight' = IF flight[r].rules # None THEN flight
                         ELSE [flight EXCEPT ![r].rules = [val |-> db.rules, ver |-> ver]]
  /\ UNCHANGED <<db, cache, asked, wr, ghosts, calls, bound>>

RulesFlightDone(r) ==
  /\ flight[r].rules # None
  /\ req' = [q \in Requests |->
       IF Replica[q] = r /\ req[q].pc = "rules"
         THEN [pc |-> "setRules", rules |-> flight[r].rules.val,
               read |-> flight[r].rules.ver, value |-> req[q].value, lost |-> req[q].lost]
         ELSE req[q]]
  /\ flight' = [flight EXCEPT ![r].rules = None]
  /\ UNCHANGED <<db, cache, asked, wr, ghosts, calls, bound>>

RulesFlightFails(r) ==
  /\ flight[r].rules # None
  /\ FlightFails(r, "rules")
  /\ flight' = [flight EXCEPT ![r].rules = None]
  /\ UNCHANGED <<db, cache, asked, wr, ghosts, calls, bound>>

\* A flag without rules is stored as null, which the next GetRules takes for
\* a miss.
SetRules(q) ==
  /\ req[q].pc = "setRules"
  /\ cache' = [cache EXCEPT !.rules =
       IF \A i \in Rules : req[q].rules[i] = NoRule THEN None
       ELSE Entry(req[q].rules, req[q].read, req[q].read < ver)]
  /\ Step(q, [pc |-> "states", rules |-> req[q].rules, value |-> req[q].value, lost |-> req[q].lost])
  /\ UNCHANGED <<db, flight, asked, wr, ghosts, calls, bound>>

\* The rules that are on in this environment, and the first of them that
\* matches; seg is what loadSegment returned.
Outcome(rules, on, ctx, seg, value) ==
  LET hits == {i \in Rules : on[i] /\ rules[i] # NoRule /\ evaluateRule(rules[i], ctx, seg)}
  IN IF hits = {} THEN [on |-> TRUE, reason |-> value, rule |-> 0]
     ELSE [on |-> TRUE, reason |-> "rule_match",
           rule |-> CHOOSE i \in hits : \A j \in hits : i <= j]

\* The environment's states without those of the rules in skipped.
Without(on, skipped) == [i \in Rules |-> on[i] /\ i \notin skipped]

\* The rules' environment states come from the database; a segment rule that
\* may be reached loads its segment, through the cache.
ReadRuleStates(q) ==
  /\ req[q].pc = "states"
  /\ LET rules == req[q].rules
         first == Outcome(rules, db.on, asked[q], NoSegment, req[q].value)
         bySegment == {i \in Rules : db.on[i] /\ rules[i].type = "segment"}
         needs == \E i \in bySegment : first.rule # 0 => i < first.rule IN
     IF ~needs THEN Finish(q, first, req[q].lost)
     ELSE IF cache.seg # None
       THEN Finish(q, Outcome(rules, db.on, asked[q], cache.seg.val, req[q].value), req[q].lost)
       ELSE \E skipped \in SUBSET bySegment :   \* rules whose load fails
              Step(q, [pc |-> "setSeg", rules |-> rules, on |-> Without(db.on, skipped),
                       seg |-> IF skipped = bySegment THEN NoSegment ELSE db.seg,
                       read |-> ver, value |-> req[q].value,
                       lost |-> [req[q].lost EXCEPT !.rules = skipped]])
  /\ UNCHANGED <<db, cache, flight, asked, wr, ghosts, calls, bound>>

\* When the states cannot be read, no rule is on.
RuleStatesFail(q) ==
  /\ req[q].pc = "states"
  /\ Finish(q, Outcome(req[q].rules, Without(db.on, Rules), asked[q], NoSegment, req[q].value),
            [req[q].lost EXCEPT !.rules = Rules])
  /\ UNCHANGED <<db, cache, flight, asked, wr, ghosts, calls, bound>>

\* A segment that is deleted or fails to load: the rule is skipped and nothing is stored.
SetSegment(q) ==
  /\ req[q].pc = "setSeg"
  /\ cache' = IF req[q].seg = NoSegment THEN cache
              ELSE [cache EXCEPT !.seg = Entry(req[q].seg, req[q].read, req[q].read < ver)]
  /\ Finish(q, Outcome(req[q].rules, req[q].on, asked[q], req[q].seg, req[q].value), req[q].lost)
  /\ UNCHANGED <<db, flight, asked, wr, ghosts, calls, bound>>

-----------------------------------------------------------------------------
(* Operations of the service                                                *)

\* The write itself; whoever evaluates meanwhile is no longer undisturbed.
Write(w, new, next) ==
  /\ ver < MaxWrites /\ ver' = ver + 1
  /\ db' = new
  /\ wr' = [wr EXCEPT ![w] = [pc |-> next, ver |-> ver + 1]]
  /\ quiet' = {}
  /\ UNCHANGED <<cache, flight, req, asked, calls, bound>>

\* ToggleFlag reads the flag first and refuses an archived one.
ToggleFlag(w) ==
  /\ wr[w].pc = "idle" /\ ~db.archived
  /\ \E e \in BOOLEAN : Write(w, [db EXCEPT !.enabled = e], "getId")
  /\ missed' = missed

\* The second archive of a flag finds no row and returns without invalidating.
ArchiveFlag(w) ==
  /\ wr[w].pc = "idle" /\ ~db.archived
  /\ Write(w, [db EXCEPT !.archived = TRUE], "getId")
  /\ missed' = missed

RestoreFlag(w) ==
  /\ wr[w].pc = "idle"
  /\ Write(w, [db EXCEPT !.archived = FALSE], "getId")
  /\ missed' = missed

\* RecordSmokeTestResult and RecordUserTestResult with a failure: the flag and
\* every override of it go off in one transaction.
RecordTestFailure(w) ==
  /\ wr[w].pc = "idle"
  /\ Write(w, [db EXCEPT !.enabled = FALSE, !.env = IF @ = None THEN None ELSE "off"], "getId")
  /\ missed' = missed

SetFlagEnvState(w) ==
  /\ wr[w].pc = "idle"
  /\ \E e \in {"on", "off"} : Write(w, [db EXCEPT !.env = e], "getId")
  /\ missed' = missed

\* A rule that is added has no state in the environment yet, and so is off.
AddRule(w) ==
  /\ wr[w].pc = "idle"
  /\ \E i \in Rules, f \in Forms :
       /\ db.rules[i] = NoRule /\ ValidRule(f)
       /\ Write(w, [db EXCEPT !.rules[i] = f, !.on[i] = FALSE], "getId")
  /\ missed' = missed

UpdateRule(w) ==
  /\ wr[w].pc = "idle"
  /\ \E i \in Rules, f \in Forms :
       /\ db.rules[i] # NoRule /\ ValidRule(f)
       /\ Write(w, [db EXCEPT !.rules[i] = f], "getId")
  /\ missed' = missed

\* DeleteRule looks the rule's flag up before it deletes the rule, since there
\* is nothing to look up afterwards; a look-up that fails is passed over.
FindRuleToDelete(w) ==
  /\ wr[w].pc = "idle"
  /\ \E i \in Rules : \E known \in {db.rules[i] # NoRule, FALSE} :
       wr' = [wr EXCEPT ![w] = [pc |-> "pre", rule |-> i, known |-> known]]
  /\ UNCHANGED <<db, cache, flight, req, asked, ghosts, calls, bound>>

\* The deletion of a rule that is not there ends with an error.
NothingToDelete(w) ==
  /\ db.rules[wr[w].rule] = NoRule
  /\ wr' = [wr EXCEPT ![w] = Idle]
  /\ UNCHANGED <<db, cache, flight, req, asked, ghosts, calls, bound>>

WithoutRule(i) == [db EXCEPT !.rules = [@ EXCEPT ![i] = NoRule], !.on = [@ EXCEPT ![i] = FALSE]]

\* Mutant of DeleteRule: the flag is looked up after the deletion, and not
\* found, so that nothing is invalidated.
X_DeleteRule(w) ==
  /\ wr[w].pc = "pre"
  /\ \/ NothingToDelete(w)
     \/ /\ db.rules[wr[w].rule] # NoRule
        /\ Write(w, WithoutRule(wr[w].rule), "idle") /\ missed' = missed

\* Only when the flag was found its cache entry is invalidated.
DeleteRule(w) ==
  /\ wr[w].pc = "pre"
  /\ \/ NothingToDelete(w)
     \/ /\ db.rules[wr[w].rule] # NoRule /\ wr[w].known
        /\ Write(w, WithoutRule(wr[w].rule), "getId") /\ missed' = missed
     \/ /\ db.rules[wr[w].rule] # NoRule /\ ~wr[w].known
        /\ Write(w, WithoutRule(wr[w].rule), "idle") /\ missed' = ver + 1

SetRuleEnvironmentState(w) ==
  /\ wr[w].pc = "idle"
  /\ \E i \in Rules, e \in BOOLEAN :
       db.rules[i] # NoRule /\ Write(w, [db EXCEPT !.on[i] = e], "getId")
  /\ missed' = missed

\* UpdateSegment and DeleteSegment leave the cache alone.
WriteSegment(w) ==
  /\ wr[w].pc = "idle"
  /\ \E s \in Segments \cup {NoSegment} : Write(w, [db EXCEPT !.seg = s], "idle")
  /\ missed' = missed

\* FlagCache.Invalidate: the mapping is read, the row it names deleted, then
\* the mapping and the rules together.
InvalidateGetId(w) ==
  /\ wr[w].pc = "getId"
  /\ wr' = [wr EXCEPT ![w].pc = IF cache.id # None THEN "delFlag" ELSE "delRules"]
  /\ UNCHANGED <<db, cache, flight, req, asked, ghosts, calls, bound>>

InvalidateFlag(w) ==
  /\ wr[w].pc = "delFlag"
  /\ cache' = [cache EXCEPT !.flag = None]
  /\ wr' = [wr EXCEPT ![w].pc = "delRules"]
  /\ UNCHANGED <<db, flight, req, asked, ghosts, calls, bound>>

InvalidateRules(w) ==
  /\ wr[w].pc = "delRules"
  /\ cache' = [cache EXCEPT !.id = None, !.rules = None]
  /\ wr' = [wr EXCEPT ![w] = Idle]
  /\ UNCHANGED <<db, flight, req, asked, ghosts, calls, bound>>

\* The process of a writer stops between the write and the invalidation, or one of
\* the commands fails: the operations ignore what Invalidate returns.
Drop(w) ==
  /\ wr[w].pc \in {"getId", "delFlag", "delRules"}
  /\ wr' = [wr EXCEPT ![w] = Idle]
  /\ missed' = IF wr[w].ver > missed THEN wr[w].ver ELSE missed
  /\ UNCHANGED <<db, cache, flight, req, asked, ver, quiet, calls, bound>>

-----------------------------------------------------------------------------
(* Time: Redis drops a key when its time to live has passed.                *)

\* Mutant of Older: a key stored without a time to live.
X_OlderNever(e) == e

Older(e) == IF e = None THEN None ELSE IF e.age + 1 >= TTL THEN None
            ELSE [e EXCEPT !.age = @ + 1]

Tick ==
  /\ cache' = [flag |-> Older(cache.flag), id |-> Older(cache.id),
               rules |-> Older(cache.rules), seg |-> Older(cache.seg)]
  /\ UNCHANGED <<db, flight, req, asked, wr, ghosts, calls, bound>>

Evaluate(q) ==
  \/ GetFlag(q) \/ SetFlag(q) \/ SetFlagId(q) \/ CheckEnabled(q)
  \/ GetRules(q) \/ SetRules(q) \/ ReadRuleStates(q) \/ RuleStatesFail(q)
  \/ SetSegment(q)

Operate(w) ==
  \/ ToggleFlag(w) \/ ArchiveFlag(w) \/ RestoreFlag(w) \/ RecordTestFailure(w)
  \/ SetFlagEnvState(w) \/ AddRule(w) \/ UpdateRule(w) \/ FindRuleToDelete(w)
  \/ DeleteRule(w) \/ SetRuleEnvironmentState(w) \/ WriteSegment(w)
  \/ InvalidateGetId(w) \/ InvalidateFlag(w) \/ InvalidateRules(w) \/ Drop(w)

EvaluationStep ==
  \/ \E q \in Requests : Evaluate(q)
  \/ \E r \in Replicas : \/ FlagFlightDone(r) \/ FlagFlightFails(r)
                          \/ RulesFlightDone(r) \/ RulesFlightFails(r)

Next ==
  \/ EvaluationStep
  \/ \E w \in Writers : Operate(w)
  \/ Tick

\* Time passes and the server goes on with some evaluation; nothing obliges a
\* writer to finish.
Fairness == WF_vars(Tick) /\ WF_vars(EvaluationStep)

Spec == Init /\ [][Next]_vars /\ Fairness

-----------------------------------------------------------------------------
(* Properties                                                               *)

\* The evaluator's promise, over the database alone, without what was lost: off
\* when archived or disabled, else the matching rule of least number, else a default.
Reference(ctx, lost) ==
  LET known == db.env # None /\ ~lost.env
      enabled == IF known THEN db.env = "on" ELSE db.enabled IN
  IF db.archived \/ ~enabled THEN Off
  ELSE Outcome(db.rules, Without(db.on, lost.rules), ctx, db.seg, IF known THEN "env" ELSE "default")

TypeOK ==
  /\ db.rules \in RuleTable /\ db.on \in [Rules -> BOOLEAN]
  /\ db.env \in {None, "on", "off"}
  /\ \A k \in {"flag", "id", "rules", "seg"} : cache[k] # None => cache[k].age \in 0 .. TTL - 1
  /\ ver \in 0 .. MaxWrites

\* An evaluation that starts when nothing outdated is around and meets no write
\* answers with what the database says, whatever mixture of cached and fresh reads
\* it came from, or as if the environment's state, or the rules, did not exist whose
\* look-up failed.
QuietEvaluationIsExact ==
  \A q \in Requests :
    req[q].pc = "done" /\ q \in quiet =>
      req[q].result = Reference(asked[q], req[q].lost)

\* Cached rules that differ from the table are there for one of three reasons: a
\* writer newer than them has not finished its invalidation, or did not carry it
\* out, or whoever stored them had read them before a write.
StaleRulesAreExplained ==
  cache.rules # None /\ cache.rules.val # db.rules =>
    \/ cache.rules.late
    \/ \E w \in Writers : /\ wr[w].pc \in {"getId", "delFlag", "delRules"}
                          /\ wr[w].ver > cache.rules.ver
    \/ missed > cache.rules.ver

\* Once the writes are over, whatever the writers did or failed to do, the
\* cache ends up agreeing with the database.
CacheConverges == <>[](Settled)
=============================================================================
