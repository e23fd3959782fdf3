------------------------------- MODULE Workspace -------------------------------
(***************************************************************************)
(* One organisation: its members, groups, grants, and the life of one      *)
(* project and its applications (members, groups, grants and entities      *)
(* packages with their repositories).                                      *)
(*                                                                         *)
(* Every statement is atomic and requests run side by side: the checks of  *)
(* a demotion, a removal or a deletion are statements of their own, and    *)
(* the write that follows them is by id alone, unless the statement says   *)
(* otherwise.  An id that was hard-deleted is gone; the same slug created  *)
(* again is another id.                                                    *)
(***************************************************************************)
EXTENDS Integers, FiniteSets

CONSTANTS Users, Groups, Apps, Clients,
          Roles,    \* org roles, "owner" among them
          MaxOps,   \* bound: requests
          None

Project == "project"
Resources == {Project} \cup Apps

VARIABLES role,     \* org_members: each user's role, or None
          groups,   \* the groups there are
          inGroup,  \* group_members: pairs of a group and a user
          grants,   \* resource_grants: to a user or group, on a resource
          item,     \* projects and applications
          cl,       \* the requests between their statements
          ops

vars == <<role, groups, inGroup, grants, item, cl, ops>>

Idle == [pc |-> "idle"]
Absent == [is |-> "absent", flags |-> FALSE, recent |-> FALSE]
Fresh == [Absent EXCEPT !.is = "live"]

Init ==
  /\ role \in [Users -> {"owner", None}]
  /\ \E u \in Users : role[u] = "owner"
  /\ groups = {} /\ inGroup = {} /\ grants = {}
  /\ item = [r \in Resources |-> IF r = Project THEN Fresh ELSE Absent]
  /\ cl = [c \in Clients |-> Idle] /\ ops = 0

Begin(c) == cl[c] = Idle /\ ops < MaxOps /\ ops' = ops + 1
People == <<role, groups, inGroup, grants>>
Exists(r) == item[r].is \notin {"absent", "gone"}

-----------------------------------------------------------------------------
(* Members                                                                  *)

\* addOrgMember: any role; the unique index refuses a second row.
AddOrgMember(c, u) ==
  /\ Begin(c)
  /\ role[u] = None
  /\ \E r \in Roles : role' = [role EXCEPT ![u] = r]
  /\ UNCHANGED <<groups, inGroup, grants, item, cl>>

Owners == {u \in Users : role[u] = "owner"}

\* updateOrgMemberRole and removeOrgMember read the member; only an owner is
\* counted.  An update cannot make an owner.
GetOrgMember(c, u) ==
  /\ Begin(c)
  /\ role[u] # None
  /\ \E to \in (Roles \ {"owner"}) \cup {None} :
       cl' = [cl EXCEPT ![c] = [pc |-> IF role[u] = "owner" THEN "count" ELSE "write",
                                user |-> u, to |-> to, saw |-> Owners \cap {u}]]
  /\ UNCHANGED <<People, item>>

\* Mutant of LastOwner: off by one.
X_LastOwner(n) == n < 1

\* ErrLastOwner.
LastOwner(n) == n <= 1

CountOrgOwners(c) ==
  /\ cl[c].pc = "count"
  /\ cl' = [cl EXCEPT ![c] = IF LastOwner(Cardinality(Owners)) THEN Idle
                             ELSE [@ EXCEPT !.pc = "write", !.saw = Owners]]
  /\ UNCHANGED <<People, item, ops>>

\* UPDATE or DELETE by organisation and user.  The user's group memberships
\* and grants stay.
WriteMember(c) ==
  /\ cl[c].pc = "write"
  /\ role' = IF role[cl[c].user] = None THEN role ELSE [role EXCEPT ![cl[c].user] = cl[c].to]
  /\ cl' = [cl EXCEPT ![c] = Idle]
  /\ UNCHANGED <<groups, inGroup, grants, item, ops>>

-----------------------------------------------------------------------------
(* Groups and grants                                                        *)

createGroup(c, g) ==
  /\ Begin(c)
  /\ g \notin groups /\ groups' = groups \cup {g}
  /\ UNCHANGED <<role, inGroup, grants, item, cl>>

\* The members and the grants of the group go with it.
deleteGroup(c, g) ==
  /\ Begin(c)
  /\ g \in groups /\ groups' = groups \ {g}
  /\ inGroup' = {m \in inGroup : m[1] # g}
  /\ grants' = {t \in grants : t.to # g}
  /\ UNCHANGED <<role, item, cl>>

\* Any user may be put into a group, a member of the organisation or not.
addGroupMember(c, g, u) ==
  /\ Begin(c)
  /\ g \in groups /\ inGroup' = inGroup \cup {<<g, u>>}
  /\ UNCHANGED <<role, groups, grants, item, cl>>

removeGroupMember(c, g, u) ==
  /\ Begin(c)
  /\ <<g, u>> \in inGroup /\ inGroup' = inGroup \ {<<g, u>>}
  /\ UNCHANGED <<role, groups, grants, item, cl>>

\* One grant for each grantee and resource, by the partial unique indexes.
createGrant(c, to, on) ==
  /\ Begin(c)
  /\ to \in Users \cup groups /\ Exists(on)
  /\ ~\E t \in grants : t.to = to /\ t.on = on
  /\ \E p \in {"read", "write"} : grants' = grants \cup {[to |-> to, on |-> on, perm |-> p]}
  /\ UNCHANGED <<role, groups, inGroup, item, cl>>

deleteGrant(c, t) ==
  /\ Begin(c)
  /\ t \in grants /\ grants' = grants \ {t}
  /\ UNCHANGED <<role, groups, inGroup, item, cl>>

-----------------------------------------------------------------------------
(* Access                                                                   *)

On(r) == {t \in grants : t.on = r}
HasAnyGrants(r) == On(r) # {}

\* The permission of the one direct grant.
GetUserPermission(u, r) == {t.perm : t \in {t \in On(r) : t.to = u}}

\* A write grant of any group before a read grant.
GetUserGroupPermission(u, r) ==
  LET perms == {t.perm : t \in {t \in On(r) : <<t.to, u>> \in inGroup}}
  IN IF "write" \in perms THEN {"write"} ELSE perms

\* Mutant of Effective: an application always has its project's grants.
X_Effective(r) == Project

\* An application's own grants replace its project's.
Effective(r) == IF r # Project /\ ~HasAnyGrants(r) THEN Project ELSE r

\* The permissions a user has on a resource: none, read, or write.  A resource
\* without grants is open, and a direct grant comes before any of a group.
ResolveAccess(u, r) ==
  LET e == Effective(r) IN
  IF role[u] = "owner" \/ ~HasAnyGrants(e) THEN {"write"}
  ELSE IF GetUserPermission(u, e) # {} THEN GetUserPermission(u, e)
  ELSE GetUserGroupPermission(u, e)

Reached(u, r) == \E t \in On(r) : t.to = u \/ <<t.to, u>> \in inGroup

\* The filters of the listings; all: the soft-deleted ones too.
Shown(r, all) == item[r].is = "live" \/ (all /\ Exists(r))
ListProjectsByOrg(u, all) ==
  /\ Shown(Project, all)
  /\ role[u] = "owner" \/ ~HasAnyGrants(Project) \/ Reached(u, Project)
ListAppsByProject(u, a, all) ==
  /\ Shown(a, all)
  /\ \/ role[u] = "owner"
     \/ ~HasAnyGrants(a) /\ (~HasAnyGrants(Project) \/ Reached(u, Project))
     \/ Reached(u, a)

\* Goes through the projects that are listed.
listAppsByOrg(u, a, all) == ListProjectsByOrg(u, all) /\ ListAppsByProject(u, a, all)

-----------------------------------------------------------------------------
(* The project and its applications                                         *)

\* createApp looks the project up by slug, deleted or not.
createApp(c, a) ==
  /\ Begin(c)
  /\ item[a].is = "absent" /\ Exists(Project)
  /\ item' = [item EXCEPT ![a] = Fresh]
  /\ UNCHANGED <<People, cl>>

\* Flags of the application, or of the project itself, and their evaluation.
CreateFlag(c, r) ==
  /\ Begin(c)
  /\ Exists(r) /\ ~item[r].flags
  /\ item' = [item EXCEPT ![r].flags = TRUE]
  /\ UNCHANGED <<People, cl>>

Evaluate(r) ==
  /\ Exists(r) /\ item[r].flags /\ ~item[r].recent
  /\ item' = [item EXCEPT ![r].recent = TRUE]
  /\ UNCHANGED <<People, cl, ops>>

\* A project's flags are its applications' and its own.
Under(r) == IF r = Project THEN Resources ELSE {r}
CountFlags(r) == \E q \in Under(r) : item[q].flags
HasRecentFlagActivity(r) == \E q \in Under(r) : item[q].flags /\ item[q].recent

\* DeleteProject and DeleteApp: read the row, count the flags.
DeleteCount(c, r) ==
  /\ Begin(c)
  /\ item[r].is = "live"
  /\ cl' = [cl EXCEPT ![c] = [pc |-> IF CountFlags(r) THEN "activity" ELSE "hard",
                              on |-> r, saw |-> item]]
  /\ UNCHANGED <<People, item>>

\* Flags evaluated within the window keep the resource.
DeleteActivity(c) ==
  /\ cl[c].pc = "activity"
  /\ cl' = [cl EXCEPT ![c] = IF HasRecentFlagActivity(@.on) THEN Idle ELSE [@ EXCEPT !.pc = "soft"]]
  /\ UNCHANGED <<People, item, ops>>

\* deleted_at is set where it was null.
SoftDelete(c) ==
  /\ cl[c].pc = "soft"
  /\ item' = [item EXCEPT ![cl[c].on].is = IF @ = "live" THEN "deleted" ELSE @]
  /\ cl' = [cl EXCEPT ![c] = Idle]
  /\ UNCHANGED <<People, ops>>

\* HardDeleteProject and HardDeleteApp: seven days after the soft delete.
HardDeleteCheck(c, r) ==
  /\ Begin(c)
  /\ item[r].is = "old"
  /\ cl' = [cl EXCEPT ![c] = [pc |-> "hard", on |-> r, saw |-> item]]
  /\ UNCHANGED <<People, item>>

\* The project's statement looks at its age again; the application's does not.
Deletable(r) == IF r = Project THEN item[r].is = "old" ELSE Exists(r)

\* Applications, flags and grants go with the row.
HardDelete(c) ==
  /\ cl[c].pc = "hard"
  /\ LET r == cl[c].on
         lost == IF Deletable(r) THEN {q \in Under(r) : Exists(q)} ELSE {}
     IN /\ item' = [q \in Resources |-> IF q \in lost THEN [Absent EXCEPT !.is = "gone"] ELSE item[q]]
        /\ grants' = {t \in grants : t.on \notin lost}
  /\ cl' = [cl EXCEPT ![c] = Idle]
  /\ UNCHANGED <<role, groups, inGroup, ops>>

\* The statement itself looks at deleted_at, so the check before it adds nothing.
Restore(c, r) ==
  /\ Begin(c)
  /\ item[r].is \in {"deleted", "old"}
  /\ item' = [item EXCEPT ![r].is = "live"]
  /\ UNCHANGED <<People, cl>>

\* Seven days pass without an evaluation.
Time ==
  /\ item' = [r \in Resources |->
                [item[r] EXCEPT !.is = IF @ = "deleted" THEN "old" ELSE @, !.recent = FALSE]]
  /\ UNCHANGED <<People, cl, ops>>

-----------------------------------------------------------------------------
Next ==
  \/ \E c \in Clients :
       \/ \E u \in Users : AddOrgMember(c, u) \/ GetOrgMember(c, u)
       \/ CountOrgOwners(c) \/ WriteMember(c)
       \/ \E g \in Groups :
            \/ createGroup(c, g) \/ deleteGroup(c, g)
            \/ \E u \in Users : addGroupMember(c, g, u) \/ removeGroupMember(c, g, u)
       \/ \E to \in Users \cup Groups, on \in Resources : createGrant(c, to, on)
       \/ \E t \in grants : deleteGrant(c, t)
       \/ \E a \in Apps : createApp(c, a)
       \/ \E r \in Resources : CreateFlag(c, r) \/ DeleteCount(c, r) \/ HardDeleteCheck(c, r) \/ Restore(c, r)
       \/ DeleteActivity(c) \/ SoftDelete(c) \/ HardDelete(c)
  \/ \E r \in Resources : Evaluate(r)
  \/ Time

Spec == Init /\ [][Next]_vars

-----------------------------------------------------------------------------
(* Properties                                                               *)

\* Every row has the shape the code gives it: one grant for each grantee and
\* resource, of groups and resources that are there, and members of groups
\* that are there.
TypeOK ==
  /\ role \in [Users -> Roles \cup {None}]
  /\ inGroup \subseteq groups \X Users
  /\ \A t \in grants : t.to \in Users \cup groups /\ Exists(t.on) /\ t.perm \in {"read", "write"}
  /\ \A t, s \in grants : t.to = s.to /\ t.on = s.on => t = s
  /\ \A r \in Resources : item[r].is \in {"absent", "live", "deleted", "old", "gone"}

\* "cannot remove or demote the last owner": the organisation loses its last
\* owner only to a request whose count of the owners is out of date.
OwnerLossStep ==
  Owners # {} /\ Owners' = {} =>
    \E c \in Clients : cl[c].pc = "write" /\ cl'[c] = Idle /\ cl[c].saw # Owners
OwnerLossIsExplained == [][OwnerLossStep]_vars

\* What a listing shows a member, a request by that member finds.  What such a
\* request finds is missing from a listing only where it is soft-deleted and the
\* listing is of live ones: the look-up by slug does not ask.  The listing of the
\* whole organisation also leaves out the applications of a project that it does
\* not show, an application with a grant of its own among them.
Hidden(r, all) == ~all /\ item[r].is \in {"deleted", "old"}
ListedIsAccessible ==
  \A u \in Users, all \in BOOLEAN : role[u] # None =>
    /\ ListProjectsByOrg(u, all) => ResolveAccess(u, Project) # {}
    /\ Exists(Project) /\ ResolveAccess(u, Project) # {} =>
         ListProjectsByOrg(u, all) \/ Hidden(Project, all)
    /\ \A a \in Apps :
         /\ ListAppsByProject(u, a, all) => ResolveAccess(u, a) # {}
         /\ Exists(a) /\ ResolveAccess(u, a) # {} =>
              ListAppsByProject(u, a, all) \/ Hidden(a, all)
         /\ Exists(Project) /\ Exists(a) /\ ResolveAccess(u, a) # {} =>
              \/ listAppsByOrg(u, a, all) \/ Hidden(a, all) \/ Hidden(Project, all)
              \/ ResolveAccess(u, Project) = {}

\* Taking grants, groups or memberships away widens someone's access only by
\* taking the last grant of a resource, which opens it, or a read grant of the
\* user's own, which had hidden a group's.
Level(perms) == IF "write" \in perms THEN 2 ELSE Cardinality(perms)
WideningStep ==
  grants' \subseteq grants /\ inGroup' \subseteq inGroup /\ role' = role =>
    \A u \in Users, r \in Resources :
      Exists(r)' /\ Level(ResolveAccess(u, r))' > Level(ResolveAccess(u, r)) =>
        \/ \E q \in {r, Project} : HasAnyGrants(q) /\ ~HasAnyGrants(q)'
        \/ \E t \in grants \ grants' : t.to = u /\ t.perm = "read"
WideningIsExplained == [][WideningStep]_vars

\* A project vanishes only seven days after its soft delete.  An application
\* vanishes with its project, seven days after its own soft delete, while it
\* has no flags, or to a request that looked at it before it changed.
VanishStep ==
  \A r \in Resources :
    Exists(r) /\ ~Exists(r)' =>
      \/ item[Project].is = "old" /\ ~Exists(Project)'
      \/ /\ r # Project
         /\ \/ item[r].is = "old" \/ ~item[r].flags
            \/ \E c \in Clients : cl[c].pc = "hard" /\ cl[c].on = r /\ cl[c].saw[r] # item[r]
VanishIsExplained == [][VanishStep]_vars

\* The guard of the members service: "don't demote the last owner".
OrgKeepsOwner == Owners # {}
=============================================================================
