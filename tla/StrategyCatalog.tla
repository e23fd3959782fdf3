-------------------------- MODULE StrategyCatalog --------------------------
(***************************************************************************)
(* Rollout strategies, defaults and policies of the scopes above one       *)
(* application (rollout/service.go, handler.go, resolver.go, attacher.go   *)
(* and postgres/rollout.go).                                               *)
(*                                                                         *)
(* A strategy is known by its scope and name; its row outlives a deletion  *)
(* and keeps the name taken.  Updates carry the version the client saw.    *)
(* The steps of an import, a deletion and a default put by name are        *)
(* separate statements, and other requests fall between them.              *)
(***************************************************************************)
EXTENDS Integers, FiniteSets, Sequences, Functions

CONSTANTS Clients,    \* concurrent requests
          Names,      \* strategy names
          Envs,       \* environments
          DefaultsAt, \* the scopes and keys defaults are put at
          PoliciesAt, \* the scopes and keys policies are put at
          MaxWrites,  \* bound: requests begun
          None

Scopes == <<"app", "project", "org">>
ScopeSet == Range(Scopes)
Targets == {"deploy", "config"}
Keys == (Envs \cup {None}) \X (Targets \cup {None})
Ids == ScopeSet \X Names

VARIABLES strategy,  \* the strategies' rows by scope and name
          default,   \* the default strategy of each scope and key
          policy,    \* the policy of each scope and key; "off" is also one disabled
          cl,        \* the clients' requests
          answer,    \* the answer to the last change, until the next request
          writes,
          late       \* ghost: defaults put without looking at the strategy, or
                     \* after a deletion had counted the references to it

vars == <<strategy, default, policy, cl, answer, writes, late>>

Idle == [pc |-> "idle"]
Alive(id) == strategy[id] # None /\ ~strategy[id].deleted

\* The migration's system strategy is in place.  saw: the version whose
\* content the last accepted update had read.
Rows == [version : Nat, saw : Nat, deleted : BOOLEAN, system : BOOLEAN]
Row(system) == [version |-> 1, saw |-> 0, deleted |-> FALSE, system |-> system]

Init ==
  /\ strategy \in {[id \in Ids |-> IF id = <<"org", n>> THEN Row(TRUE) ELSE None] : n \in Names}
  /\ default = [k \in ScopeSet \X Keys |-> None]
  /\ policy = [k \in ScopeSet \X Keys |-> None]
  /\ cl = [c \in Clients |-> Idle]
  /\ answer = None /\ writes = 0 /\ late = {}

Begin(c) == cl[c] = Idle /\ writes < MaxWrites /\ writes' = writes + 1

-----------------------------------------------------------------------------
(* Strategies                                                               *)

\* The insert fails where the name was ever used in the scope.
createStrategy(c, id) ==
  /\ Begin(c)
  /\ strategy[id] = None
  /\ strategy' = [strategy EXCEPT ![id] = Row(FALSE)]
  /\ answer' = None
  /\ UNCHANGED <<default, policy, cl, late>>

\* The client reads a strategy it is about to edit: getStrategy, or the import
\* that finds the name taken and carries its version over.
Read(c, id) ==
  /\ Begin(c)
  /\ Alive(id)
  /\ cl' = [cl EXCEPT ![c] = [pc |-> "edit", id |-> id, version |-> strategy[id].version]]
  /\ answer' = None
  /\ UNCHANGED <<strategy, default, policy, late>>

\* Mutant of VersionMatches: any version.
X_VersionMatches(id, v) == Alive(id)

\* UPDATE ... WHERE version = expected AND deleted_at IS NULL.
VersionMatches(id, v) == Alive(id) /\ strategy[id].version = v

\* ErrSystemStrategyImmutable.
Immutable(id) == strategy[id].system

\* StrategyService.Update: refused for a system strategy and on a conflict.
Update(c) ==
  /\ cl[c].pc = "edit"
  /\ LET id == cl[c].id IN
     strategy' =
       IF VersionMatches(id, cl[c].version) /\ ~Immutable(id)
       THEN [strategy EXCEPT ![id].version = @ + 1, ![id].saw = cl[c].version]
       ELSE strategy
  /\ cl' = [cl EXCEPT ![c] = Idle]
  /\ answer' = None
  /\ UNCHANGED <<default, policy, writes, late>>

IsReferenced(id) == \E k \in DOMAIN default : default[k] = id

\* StrategyService.Delete counts the references, and deletes in a second
\* statement.
DeleteCheck(c, id) ==
  /\ Begin(c)
  /\ Alive(id) /\ ~Immutable(id) /\ ~IsReferenced(id)
  /\ cl' = [cl EXCEPT ![c] = [pc |-> "delete", id |-> id]]
  /\ answer' = None
  /\ UNCHANGED <<strategy, default, policy, late>>

SoftDelete(c) ==
  /\ cl[c].pc = "delete"
  /\ strategy' = [strategy EXCEPT ![cl[c].id].deleted = TRUE]
  /\ cl' = [cl EXCEPT ![c] = Idle]
  /\ answer' = None
  /\ UNCHANGED <<default, policy, writes, late>>

-----------------------------------------------------------------------------
(* Defaults and policies                                                    *)

\* By name: the strategy is looked up in the scope of the default.
DefaultLookup(c, at, n) ==
  /\ Begin(c)
  /\ Alive(<<at[1], n>>)
  /\ cl' = [cl EXCEPT ![c] = [pc |-> "default", at |-> at, id |-> <<at[1], n>>]]
  /\ answer' = None
  /\ UNCHANGED <<strategy, default, policy, late>>

Deleting(id) == \E c \in Clients : cl[c].pc = "delete" /\ cl[c].id = id

DefaultUpsert(at, id, unchecked) ==
  /\ default' = [default EXCEPT ![at] = id]
  /\ late' = IF unchecked \/ ~Alive(id) \/ Deleting(id) THEN late \cup {at} ELSE late \ {at}

putDefault(c) ==
  /\ cl[c].pc = "default"
  /\ DefaultUpsert(cl[c].at, cl[c].id, FALSE)
  /\ cl' = [cl EXCEPT ![c] = Idle]
  /\ answer' = None
  /\ UNCHANGED <<strategy, policy, writes>>

\* By id: any row, of any scope, deleted or not.
putDefaultById(c, at, id) ==
  /\ Begin(c)
  /\ strategy[id] # None
  /\ DefaultUpsert(at, id, ~Alive(id))
  /\ answer' = None
  /\ UNCHANGED <<strategy, policy, cl>>

deleteDefault(c, at) ==
  /\ Begin(c)
  /\ default[at] # None
  /\ default' = [default EXCEPT ![at] = None] /\ late' = late \ {at}
  /\ answer' = None
  /\ UNCHANGED <<strategy, policy, cl>>

putPolicy(c, at) ==
  /\ Begin(c)
  /\ \E p \in {"off", "prompt", "mandate"} : policy' = [policy EXCEPT ![at] = p]
  /\ answer' = None
  /\ UNCHANGED <<strategy, default, cl, late>>

-----------------------------------------------------------------------------
(* Resolution                                                               *)

\* The scopes from the leaf up, those that the caller knows: "all" of them, not
\* the organisation ("project"), or only the leaf ("none").
AncestorScopes(leaf, known) ==
  CASE leaf = "app" /\ known = "all" -> Scopes
    [] leaf = "app" /\ known = "project" -> <<"app", "project">>
    [] leaf = "project" /\ known = "all" -> <<"project", "org">>
    [] OTHER -> <<leaf>>

\* The scopes of a list come with its route.  An edit of a rule goes by the
\* flag, of an application or of the project alone, and knows the organisation
\* where the look-up of the project succeeds; the attacher of a deployment is
\* told of neither project nor organisation.
Knowledge == {"all", "project", "none"}
Attaches == {<<"deploy", "app", "none">>}
            \cup {<<"config", leaf, known>> : leaf \in {"app", "project"}, known \in {"all", "project"}}

\* Mutant of Patterns: the target before the environment.
X_Patterns(env, target) == <<<<env, target>>, <<None, target>>, <<env, None>>, <<None, None>>>>

\* The keys tried in a scope, in order.  A pattern on the environment finds
\* nothing for a caller without one.
Patterns(env, target) == <<<<env, target>>, <<env, None>>, <<None, target>>, <<None, None>>>>
Usable(env, i) == env # None \/ i > 2

\* ResolveDefault and ResolvePolicy: the first row found, scope by scope and
\* pattern by pattern; a key without a row holds None.
Resolve(table, leaf, known, env, target) ==
  LET scopes == AncestorScopes(leaf, known)
      pats == Patterns(env, target)
      At(t) == <<scopes[t[1]], pats[t[2]]>>
      hits == {t \in (1..Len(scopes)) \X (1..4) :
                 Usable(env, t[2]) /\ table[At(t)] # None}
  IN IF hits = {} THEN None
     ELSE At(CHOOSE t \in hits : \A u \in hits : t[1] < u[1] \/ (t[1] = u[1] /\ t[2] <= u[2]))

\* The strategy a name stands for in an attach: the nearest scope that has it
\* alive; a scope whose look-up fails is passed over.
ByName(leaf, known, n, failing) ==
  LET scopes == AncestorScopes(leaf, known)
      found == {i \in 1..Len(scopes) : scopes[i] \notin failing /\ Alive(<<scopes[i], n>>)}
  IN IF found = {} THEN None ELSE <<scopes[CHOOSE i \in found : \A j \in found : i <= j], n>>

\* What a scope's list shows: each name once.
EffectiveList(leaf) ==
  {id \in Ids :
     LET scopes == AncestorScopes(leaf, "all") IN
     \E i \in 1..Len(scopes) :
       /\ scopes[i] = id[1] /\ Alive(id)
       /\ \A j \in 1..(i - 1) : ~Alive(<<scopes[j], id[2]>>)}

Mandated(leaf, known, env, target) ==
  LET at == Resolve(policy, leaf, known, env, target)
  IN at # None /\ policy[at] = "mandate"

\* What an attach without a strategy comes to: the default's strategy when it
\* is alive, otherwise refused under a mandate and otherwise no rollout.  A
\* look-up that fails has found nothing.
AttachOutcome(leaf, known, env, target, failing) ==
  LET at == Resolve(default, leaf, known, env, target)
  IN IF "default" \notin failing /\ at # None /\ Alive(default[at]) THEN "rollout"
     ELSE IF "policy" \notin failing /\ Mandated(leaf, known, env, target) THEN "refused"
     ELSE "none"

\* A deployment or an edit of a rule: the policy is looked at only for a
\* request that asks for a rollout, and no attacher names an environment.
Submit(c, target, leaf, known) ==
  /\ Begin(c)
  /\ \E asks \in BOOLEAN, failing \in SUBSET {"default", "policy"} :
       answer' = [mandated |-> Mandated(leaf, "all", None, target),
                  outcome |-> IF asks THEN AttachOutcome(leaf, known, None, target, failing)
                              ELSE "applied"]
  /\ UNCHANGED <<strategy, default, policy, cl, late>>

-----------------------------------------------------------------------------
Next ==
  \E c \in Clients :
    \/ \E id \in Ids : createStrategy(c, id) \/ Read(c, id) \/ DeleteCheck(c, id)
    \/ Update(c) \/ SoftDelete(c) \/ putDefault(c)
    \/ \E at \in DefaultsAt :
         \/ \E n \in Names : DefaultLookup(c, at, n)
         \/ \E id \in Ids : putDefaultById(c, at, id)
         \/ deleteDefault(c, at)
    \/ \E at \in PoliciesAt : putPolicy(c, at)
    \/ \E a \in Attaches : Submit(c, a[1], a[2], a[3])

Spec == Init /\ [][Next]_vars

-----------------------------------------------------------------------------
(* Properties                                                               *)

\* Every row and request has the shape the code gives it, and a system
\* strategy is never changed or deleted.
TypeOK ==
  /\ \A id \in Ids : strategy[id] # None =>
       /\ strategy[id].version \in 1..(MaxWrites + 1)
       /\ strategy[id].system => strategy[id].version = 1 /\ ~strategy[id].deleted
  /\ \A at \in DOMAIN default : default[at] \in Ids \cup {None}
  /\ \A at \in DOMAIN policy : policy[at] \in {"off", "prompt", "mandate", None}
  /\ \A c \in Clients : cl[c].pc \in {"idle", "edit", "delete", "default"}
  /\ late \subseteq DOMAIN default

\* No accepted update overwrites one its author had not read.
NoLostUpdate ==
  \A id \in Ids : strategy[id] # None => strategy[id].saw = strategy[id].version - 1

\* A default names a deleted strategy only where it was put by the id of a
\* deleted strategy or after the deletion had counted the references.
DanglingIsExplained ==
  \A at \in DOMAIN default : default[at] # None /\ ~Alive(default[at]) => at \in late

\* The defaults that apply, and how specific each is: the nearer scope first, then
\* the environment, then the target.
Applies(scopes, env, target, at) ==
  /\ default[at] # None /\ at[1] \in Range(scopes)
  /\ at[2][1] \in {env, None} /\ at[2][2] \in {target, None}
Depth(scopes, s) == CHOOSE i \in 1..Len(scopes) : scopes[i] = s
Rank(scopes, at) ==
  4 * Depth(scopes, at[1]) + (IF at[2][1] = None THEN 2 ELSE 0) + (IF at[2][2] = None THEN 1 ELSE 0)

\* The default that wins is the most specific one: none of a nearer scope, and
\* in its scope none that fixes the environment where it does not, or the
\* target where it does not and both agree on the environment, applies.
MostSpecificWins ==
  \A leaf \in ScopeSet, known \in Knowledge, env \in Envs \cup {None}, target \in Targets :
    LET scopes == AncestorScopes(leaf, known)
        won == Resolve(default, leaf, known, env, target)
        all == {at \in DOMAIN default : Applies(scopes, env, target, at)}
    IN IF all = {} THEN won = None
       ELSE won \in all /\ \A at \in all : Rank(scopes, won) <= Rank(scopes, at)

\* A scope's list of strategies and an attach by name agree for every caller,
\* as far as it knows the scopes and reads them: a listed strategy is the one
\* attached, unless it is of a scope the attacher is not told of (for a
\* deployment, project and organisation) or whose look-up failed; and what is
\* attached is listed, unless the look-up of a nearer one failed.
ListedIsAttached ==
  \A leaf \in ScopeSet : LET listed == EffectiveList(leaf) IN
  \A known \in Knowledge : LET scopes == Range(AncestorScopes(leaf, known)) IN
  \A failing \in SUBSET scopes :
    /\ \A id \in listed :
         id[1] \in scopes \ failing => ByName(leaf, known, id[2], failing) = id
    /\ \A n \in Names : LET id == ByName(leaf, known, n, failing) IN
         id # None => \/ id \in listed
                      \/ \E s \in failing : s # id[1] /\ Alive(<<s, n>>)

\* "policy=mandate: every qualifying change must resolve to a strategy" (design
\* of the rollout strategies): under a mandate no change is applied at once.
MandateHonoured == answer # None /\ answer.mandated => answer.outcome # "applied"
=============================================================================
