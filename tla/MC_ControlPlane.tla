--------------------------- MODULE MC_ControlPlane --------------------------
(***************************************************************************)
(* The control plane's catalogues and records, one at a time: the rigid    *)
(* variable "scenario" says which module runs.  RuleRollout has variables  *)
(* of its own; the other modules share the registers v1 to v7, of which    *)
(* those that a module does not use stay None.                             *)
(***************************************************************************)
EXTENDS RuleRollout

CONSTANTS Clients,                          \* concurrent requests
          Settings, AuditOps,               \* AuditRevert
          Names, Envs, DefaultsAt, PoliciesAt, CatalogWrites,  \* StrategyCatalog
          Users, Groups, Apps, Roles, WorkOps                  \* Workspace

VARIABLES scenario, v1, v2, v3, v4, v5, v6, v7

shared == <<v1, v2, v3, v4, v5, v6, v7>>
allVars == <<scenario, vars, shared>>

\* The requests on one flag and its audit trail.
Audit == INSTANCE AuditRevert WITH
    MaxOps <- AuditOps, row <- v1, log <- v2, cl <- v3, begun <- v4, turn <- v5

\* Strategies, defaults and policies.
Catalog == INSTANCE StrategyCatalog WITH
    MaxWrites <- CatalogWrites,
    strategy <- v1, default <- v2, policy <- v3, cl <- v4, answer <- v5,
    writes <- v6, late <- v7

\* Members, groups, grants, a project with its applications.
Work == INSTANCE Workspace WITH
    MaxOps <- WorkOps,
    role <- v1, groups <- v2, inGroup <- v3, grants <- v4, item <- v5, cl <- v6, ops <- v7

\* "unset", "on" and "off" are states of a rule or an override, "empty" is an empty
\* column, "deploy" and "config" are targets, and the project is not one of its
\* applications.
ASSUME PlaneAssumption ==
  /\ None \notin {"unset", "on", "off", "empty", "owner", "deploy", "config"}
  /\ None \notin Catalog!Rows \cup Catalog!Ids /\ None \notin Rollouts
  /\ Settings # {} /\ AuditOps \in Nat
  /\ DefaultsAt \cup PoliciesAt \subseteq Catalog!ScopeSet \X Catalog!Keys
  /\ Names # {} /\ CatalogWrites \in Nat
  /\ Work!Project \notin Apps /\ "owner" \in Roles

\* The instance TLC checks: three requests of two operators on one flag; one
\* strategy name at three scopes, defaults of three shapes, one policy; two
\* members and a group, a project with one application.
MCStrategies == {<<50, 60>>}
MCOverrides == {[idx |-> 2, pct |-> 100]}
\* One statement of a kind fails, of the first rollout or, before there is one, of
\* the second.
MCFaults == {{<<q, what>>} : q \in {1}, what \in {"status", "apply", "revert", "restore"}}
            \cup {{<<q, what>>} : q \in {2}, what \in {"read", "search"}}
MCDefaultsAt == {<<"app", <<"e1", None>>>>, <<"app", <<None, "deploy">>>>,
                 <<"org", <<None, None>>>>}
MCPoliciesAt == {<<"project", <<None, None>>>>}
Symmetry == Permutations(Clients)

NoRules ==
    /\ rule = None /\ req = None /\ ro = None /\ drv = None /\ undo = None
    /\ inbox = None /\ edits = None /\ disturbed = None /\ overlap = None
    /\ failed = None /\ lost = None
NoShared ==
    v1 = None /\ v2 = None /\ v3 = None /\ v4 = None /\ v5 = None /\ v6 = None /\ v7 = None

PlaneInit ==
    \/ scenario = "rules" /\ Init /\ NoShared
    \/ scenario = "audit" /\ Audit!Init /\ NoRules /\ v6 = None /\ v7 = None
    \/ scenario = "catalog" /\ Catalog!Init /\ NoRules
    \/ scenario = "workspace" /\ Work!Init /\ NoRules

PlaneNext ==
    /\ scenario' = scenario
    /\ \/ scenario = "rules" /\ Next /\ UNCHANGED shared
       \/ scenario = "audit" /\ Audit!Next /\ UNCHANGED <<vars, v6, v7>>
       \/ scenario = "catalog" /\ Catalog!Next /\ UNCHANGED vars
       \/ scenario = "workspace" /\ Work!Next /\ UNCHANGED vars

PlaneSpec == PlaneInit /\ [][PlaneNext]_allVars

-----------------------------------------------------------------------------
(* The modules' properties, each in its scenario                            *)

\* TypeOK of every module.
PlaneTyped ==
    CASE scenario = "rules" -> TypeOK
      [] scenario = "audit" -> Audit!TypeOK
      [] scenario = "catalog" -> Catalog!TypeOK
      [] scenario = "workspace" -> Work!TypeOK

\* RuleRollout: two live rollouts of a rule had overlapping searches, or one
\* whose error was dropped (GetActiveByRule, Create); and a rule that nobody
\* else wrote shows the outcome of its rollout (MarkCompleted, Revert), but for
\* a revert whose error was dropped.
RuleOutcomeShows == scenario = "rules" => TwoLiveIsExplained /\ OutcomeShows

\* RuleRollout: a phase lowers the percentage (UpdateRulePercentage) only over
\* someone else's write, on a percentage that could not be read, or where the
\* strategy says so; and what a phase or a revert writes back holds every edit
\* made before it began.
RuleNeverStepsBack ==
    [][scenario = "rules" => BackwardIsExplainedStep /\ EditsBeforeThePhaseStayStep]_allVars

\* AuditRevert: an undisturbed revert restores what its entry changed, and
\* reverting an entry twice undoes it once (revertAuditEntry).
AuditReverts ==
    [][scenario = "audit" => Audit!RevertRestoresStep /\ Audit!RevertTwiceIsOnceStep]_allVars

\* StrategyCatalog: an accepted update never overwrites one its author had not
\* read (the version check of Update), and a default of a deleted strategy was
\* put past the check of the deletion (IsReferenced).
CatalogKeepsEdits == scenario = "catalog" => Catalog!NoLostUpdate /\ Catalog!DanglingIsExplained

\* StrategyCatalog: ResolveDefault takes the most specific default, and
\* EffectiveList shows what AttachDeploy and AttachConfig take by name, as far as
\* they know the scopes and read them.
CatalogResolves == scenario = "catalog" => Catalog!MostSpecificWins /\ Catalog!ListedIsAttached

\* Workspace: what the listings show, ResolveAccess opens, and what it opens they
\* leave out only where it is soft-deleted or under a project that is not shown.
WorkListedIsAccessible == scenario = "workspace" => Work!ListedIsAccessible

\* Workspace: the last owner is lost only past an outdated count of owners,
\* taking something away widens access only where the last grant or an own read
\* grant goes, and a project or application vanishes only after its retention,
\* without flags, or past an outdated look at it.
WorkChangesAreExplained ==
    [][scenario = "workspace" => Work!OwnerLossStep /\ Work!WideningStep /\ Work!VanishStep]_allVars
=============================================================================
