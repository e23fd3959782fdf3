------------------------- MODULE ControlPlaneProofs -------------------------
(***************************************************************************)
(* Proofs about the control plane: the strategy catalogue, the workspace,  *)
(* the audit trail's reverts and the rollouts of a rule, for every number  *)
(* of clients, names, scopes, users, requests and operations.              *)
(*                                                                         *)
(* A behaviour of PlaneSpec runs one of the modules, the one "scenario"    *)
(* names.  Each part below gives its module an inductive invariant over    *)
(* the shared registers; the theorems at the end of each part carry it to  *)
(* PlaneSpec.                                                              *)
(***************************************************************************)
EXTENDS MC_ControlPlane, FiniteSetTheorems, TLAPS

-----------------------------------------------------------------------------
(* The strategy catalogue                                                   *)

CatalogKeys == Catalog!ScopeSet \X Catalog!Keys

\* The requests between their statements.
CatalogRequests ==
  {Catalog!Idle}
  \cup [pc : {"edit"}, id : Catalog!Ids, version : Nat]
  \cup [pc : {"delete"}, id : Catalog!Ids]
  \cup [pc : {"default"}, at : CatalogKeys, id : Catalog!Ids]

CatalogTyped ==
  /\ v1 \in [Catalog!Ids -> Catalog!Rows \cup {None}]
  /\ v2 \in [CatalogKeys -> Catalog!Ids \cup {None}]
  /\ v3 \in [CatalogKeys -> {"off", "prompt", "mandate", None}]
  /\ v4 \in [Clients -> CatalogRequests]
  /\ v6 \in 0..CatalogWrites
  /\ v7 \subseteq CatalogKeys

\* A row's content is the one its last author read, with one change; a version
\* is paid for by a request that read the one before.
RowInv ==
  \A id \in Catalog!Ids : v1[id] # None =>
    /\ v1[id].version \in 1..(v6 + 1) /\ v1[id].saw = v1[id].version - 1
    /\ v1[id].system => v1[id].version = 1 /\ ~v1[id].deleted

\* What a request relies on from its first statement: the row is still there,
\* and a default put while a deletion is under way is known as late.
RequestInv ==
  \A c \in Clients :
    /\ v4[c].pc = "edit" => v1[v4[c].id] # None /\ v4[c].version <= v6
    /\ v4[c].pc = "default" => v1[v4[c].id] # None
    /\ v4[c].pc = "delete" =>
         /\ v1[v4[c].id] # None /\ ~v1[v4[c].id].system
         /\ \A at \in CatalogKeys : v2[at] = v4[c].id => at \in v7

\* A default names a row, and a late one where the row is deleted.
DefaultInv ==
  \A at \in CatalogKeys : v2[at] # None =>
    /\ v1[v2[at]] # None
    /\ v1[v2[at]].deleted => at \in v7

CatalogInv == CatalogTyped /\ RowInv /\ RequestInv /\ DefaultInv

LEMMA CatalogRow ==
  \A system \in BOOLEAN : Catalog!Row(system) \in Catalog!Rows /\ Catalog!Row(system) # None
<1> TAKE system \in BOOLEAN
<1>1. Catalog!Row(system) \in Catalog!Rows
  BY DEF Catalog!Row, Catalog!Rows
<1> QED  BY <1>1, PlaneAssumption

LEMMA CatalogInitially == Catalog!Init => CatalogInv
<1> SUFFICES ASSUME Catalog!Init PROVE CatalogInv
  OBVIOUS
<1> USE PlaneAssumption
<1>1. CatalogTyped
  <2>1. v1 \in [Catalog!Ids -> Catalog!Rows \cup {None}]
    BY TRUE \in BOOLEAN, CatalogRow DEF Catalog!Init
  <2>2. /\ v2 \in [CatalogKeys -> Catalog!Ids \cup {None}]
        /\ v3 \in [CatalogKeys -> {"off", "prompt", "mandate", None}]
    BY DEF Catalog!Init, CatalogKeys
  <2>3. v4 \in [Clients -> CatalogRequests] /\ v6 \in 0..CatalogWrites /\ v7 \subseteq CatalogKeys
    BY DEF Catalog!Init, CatalogRequests
  <2> QED  BY <2>1, <2>2, <2>3 DEF CatalogTyped
<1>2. RowInv
  BY DEF Catalog!Init, RowInv, Catalog!Rows, Catalog!Row
<1>3. RequestInv /\ DefaultInv
  BY DEF Catalog!Init, RequestInv, DefaultInv, CatalogKeys, Catalog!Idle
<1> QED  BY <1>1, <1>2, <1>3 DEF CatalogInv

\* Requests that only read, and the answers, leave the invariant alone.
LEMMA CatalogStep == CatalogInv /\ [Catalog!Next]_shared => CatalogInv'
<1> SUFFICES ASSUME CatalogInv, [Catalog!Next]_shared PROVE CatalogInv'
  OBVIOUS
<1> USE PlaneAssumption
<1> USE DEF CatalogInv, CatalogTyped, RowInv, RequestInv, DefaultInv
<1>1. ASSUME NEW c \in Clients, NEW id \in Catalog!Ids, Catalog!createStrategy(c, id)
      PROVE  CatalogInv'
  <2>1. Catalog!Row(FALSE) \in Catalog!Rows /\ Catalog!Row(FALSE) # None
    BY CatalogRow
  <2>2. v6' = v6 + 1 /\ v6' \in 0..CatalogWrites /\ UNCHANGED <<v2, v3, v4, v7>>
    BY <1>1 DEF Catalog!createStrategy, Catalog!Begin
  <2>3. v1' = [v1 EXCEPT ![id] = Catalog!Row(FALSE)] /\ v1[id] = None
    BY <1>1 DEF Catalog!createStrategy
  <2>4. RowInv'
    BY <2>1, <2>2, <2>3 DEF Catalog!Row, Catalog!Rows
  <2>5. RequestInv'
    <3>1. \A i \in Catalog!Ids : v1[i] # None => v1'[i] = v1[i]
      BY <2>3
    <3>2. \A d \in Clients : /\ v4[d].pc # "idle" => v4[d].id \in Catalog!Ids
                             /\ v4[d].pc = "edit" => v4[d].version \in Nat
      BY DEF CatalogRequests, Catalog!Idle
    <3> SUFFICES ASSUME NEW d \in Clients, v4[d].pc # "idle"
                 PROVE  RequestInv!(d)'
      BY <2>2
    <3>3. v4[d].pc = "edit" => v1'[v4[d].id] # None /\ v4[d].version <= v6'
      BY <2>2, <3>1, <3>2
    <3>4. v4[d].pc = "default" => v1'[v4[d].id] # None
      BY <2>2, <3>1, <3>2
    <3>5. v4[d].pc = "delete" =>
            /\ v1'[v4[d].id] # None /\ ~v1'[v4[d].id].system
            /\ \A at \in CatalogKeys : v2[at] = v4[d].id => at \in v7
      BY <2>2, <3>1, <3>2
    <3> QED  BY <2>2, <3>3, <3>4, <3>5
  <2>6. DefaultInv'
    BY <2>1, <2>2, <2>3, ZenonT(60)
  <2> QED  BY <2>1, <2>2, <2>3, <2>4, <2>5, <2>6
<1>2. ASSUME NEW c \in Clients, NEW id \in Catalog!Ids, Catalog!Read(c, id)
      PROVE  CatalogInv'
  <2>1. v6' = v6 + 1 /\ v6' \in 0..CatalogWrites /\ UNCHANGED <<v1, v2, v3, v7>>
    BY <1>2 DEF Catalog!Read, Catalog!Begin
  <2>2. v1[id] # None /\ v1[id] \in Catalog!Rows
    BY <1>2 DEF Catalog!Read, Catalog!Alive
  <2>3. v4' = [v4 EXCEPT ![c] = [pc |-> "edit", id |-> id, version |-> v1[id].version]]
    BY <1>2 DEF Catalog!Read
  <2>4. v1[id].version \in Nat /\ v1[id].version <= v6'
    BY <2>1, <2>2 DEF Catalog!Rows
  <2>5. v4' \in [Clients -> CatalogRequests]
    BY <2>3, <2>4 DEF CatalogRequests
  <2>6. RequestInv'
    BY <2>1, <2>2, <2>3, <2>4 DEF CatalogRequests, Catalog!Idle
  <2>7. RowInv' /\ DefaultInv'
    BY <2>1
  <2> QED  BY <2>1, <2>5, <2>6, <2>7
<1>3. ASSUME NEW c \in Clients, NEW id \in Catalog!Ids, Catalog!DeleteCheck(c, id)
      PROVE  CatalogInv'
  <2>1. v6' = v6 + 1 /\ v6' \in 0..CatalogWrites /\ UNCHANGED <<v1, v2, v3, v7>>
    BY <1>3 DEF Catalog!DeleteCheck, Catalog!Begin
  <2>2. v1[id] # None /\ ~v1[id].system /\ \A at \in CatalogKeys : v2[at] # id
    BY <1>3 DEF Catalog!DeleteCheck, Catalog!Alive, Catalog!Immutable, Catalog!IsReferenced
  <2>3. v4' = [v4 EXCEPT ![c] = [pc |-> "delete", id |-> id]]
    BY <1>3 DEF Catalog!DeleteCheck
  <2>4. v4' \in [Clients -> CatalogRequests]
    BY <2>3 DEF CatalogRequests
  <2>5. RequestInv'
    BY <2>1, <2>2, <2>3 DEF CatalogRequests, Catalog!Idle
  <2>6. RowInv' /\ DefaultInv'
    BY <2>1
  <2> QED  BY <2>1, <2>4, <2>5, <2>6
<1>4. ASSUME NEW c \in Clients, Catalog!Update(c)
      PROVE  CatalogInv'
  <2> DEFINE id == v4[c].id
  <2>1. /\ v4[c].pc = "edit" /\ v4' = [v4 EXCEPT ![c] = Catalog!Idle]
        /\ UNCHANGED <<v2, v3, v6, v7>>
    BY <1>4 DEF Catalog!Update
  <2>2. id \in Catalog!Ids /\ v4[c].version \in Nat
    BY <2>1 DEF CatalogRequests, Catalog!Idle
  <2>3. v4' \in [Clients -> CatalogRequests]
    BY <2>1 DEF CatalogRequests
  <2>4. CASE v1' = v1
    BY <2>1, <2>3, <2>4 DEF CatalogRequests, Catalog!Idle
  <2>5. CASE v1' # v1
    <3>1. /\ v1[id] # None /\ v1[id].version = v4[c].version /\ ~v1[id].system
          /\ v1' = [v1 EXCEPT ![id].version = @ + 1, ![id].saw = v4[c].version]
      BY <1>4, <2>5 DEF Catalog!Update, Catalog!VersionMatches, Catalog!Alive, Catalog!Immutable
    <3>2. v1[id] \in Catalog!Rows /\ v1[id].version \in Nat
      BY <2>2, <3>1 DEF Catalog!Rows
    <3> DEFINE r == [v1[id] EXCEPT !.version = @ + 1, !.saw = v4[c].version]
    <3>3. /\ r \in Catalog!Rows /\ r.version = v4[c].version + 1 /\ r.saw = v4[c].version
          /\ r.system = v1[id].system /\ r.deleted = v1[id].deleted
      BY <2>2, <3>1, <3>2 DEF Catalog!Rows
    <3>4. v1' = [v1 EXCEPT ![id] = r]
      BY <2>2, <3>1, <3>2
    <3>5. r # None
      BY <3>3
    <3> HIDE DEF r
    <3>6. v4[c].version <= v6
      BY <2>1
    <3>7. RowInv'
      BY <2>1, <2>2, <3>1, <3>2, <3>3, <3>4, <3>6, SMTT(60)
    <3>8. RequestInv'
      BY <2>1, <2>2, <3>3, <3>4, <3>5 DEF CatalogRequests, Catalog!Idle
    <3>9. DefaultInv'
      BY <2>1, <2>2, <3>3, <3>4, <3>5
    <3> QED  BY <2>1, <2>2, <2>3, <3>3, <3>4, <3>7, <3>8, <3>9
  <2> QED  BY <2>4, <2>5
<1>5. ASSUME NEW c \in Clients, Catalog!SoftDelete(c)
      PROVE  CatalogInv'
  <2> DEFINE id == v4[c].id
  <2>1. /\ v4[c].pc = "delete" /\ v4' = [v4 EXCEPT ![c] = Catalog!Idle]
        /\ UNCHANGED <<v2, v3, v6, v7>>
        /\ v1' = [v1 EXCEPT ![id].deleted = TRUE]
    BY <1>5 DEF Catalog!SoftDelete
  <2>2. id \in Catalog!Ids
    BY <2>1 DEF CatalogRequests, Catalog!Idle
  <2>3. v4' \in [Clients -> CatalogRequests]
    BY <2>1 DEF CatalogRequests
  <2>4. /\ v1[id] # None /\ ~v1[id].system /\ v1[id] \in Catalog!Rows
        /\ \A at \in CatalogKeys : v2[at] = id => at \in v7
    BY <2>1, <2>2
  <2> DEFINE r == [v1[id] EXCEPT !.deleted = TRUE]
  <2>5. /\ r \in Catalog!Rows /\ r.version = v1[id].version /\ r.saw = v1[id].saw
        /\ r.system = v1[id].system
    BY <2>4 DEF Catalog!Rows
  <2>6. v1' = [v1 EXCEPT ![id] = r] /\ r # None
    BY <2>1, <2>2, <2>4, <2>5
  <2> HIDE DEF r
  <2>0. \A i \in Catalog!Ids : v1[i] # None => v1'[i] # None /\ v1'[i].system = v1[i].system
    BY <2>2, <2>5, <2>6
  <2>7. RowInv'
    BY <2>1, <2>2, <2>4, <2>5, <2>6, SMTT(60)
  <2>8. RequestInv'
    <3>1. \A d \in Clients : v4'[d] = Catalog!Idle \/ v4'[d] = v4[d]
      BY <2>1
    <3>2. \A d \in Clients : v4[d] # Catalog!Idle => v4[d].id \in Catalog!Ids
      BY DEF CatalogRequests
    <3> QED  BY <2>0, <2>1, <3>1, <3>2, SMTT(60) DEF Catalog!Idle
  <2>9. DefaultInv'
    <3> SUFFICES ASSUME NEW at \in CatalogKeys, v2[at] # None
                 PROVE  v1'[v2[at]] # None /\ (v1'[v2[at]].deleted => at \in v7)
      BY <2>1
    <3>1. v2[at] \in Catalog!Ids
      OBVIOUS
    <3>2. CASE v2[at] = id
      BY <2>0, <2>4, <3>1, <3>2
    <3>3. CASE v2[at] # id
      BY <2>0, <2>2, <2>6, <3>1, <3>3
    <3> QED  BY <3>2, <3>3
  <2> QED  BY <2>1, <2>2, <2>3, <2>5, <2>6, <2>7, <2>8, <2>9, ZenonT(60)
<1>6. ASSUME NEW c \in Clients, NEW at \in DefaultsAt, NEW n \in Names,
             Catalog!DefaultLookup(c, at, n)
      PROVE  CatalogInv'
  <2>1. v6' = v6 + 1 /\ v6' \in 0..CatalogWrites /\ UNCHANGED <<v1, v2, v3, v7>>
    BY <1>6 DEF Catalog!DefaultLookup, Catalog!Begin
  <2>2. at \in CatalogKeys /\ <<at[1], n>> \in Catalog!Ids /\ v1[<<at[1], n>>] # None
    BY <1>6 DEF Catalog!DefaultLookup, Catalog!Alive, CatalogKeys, Catalog!Ids
  <2>3. v4' = [v4 EXCEPT ![c] = [pc |-> "default", at |-> at, id |-> <<at[1], n>>]]
    BY <1>6 DEF Catalog!DefaultLookup
  <2>4. v4' \in [Clients -> CatalogRequests]
    BY <2>2, <2>3 DEF CatalogRequests
  <2>5. RequestInv'
    BY <2>1, <2>2, <2>3 DEF CatalogRequests, Catalog!Idle
  <2>6. RowInv' /\ DefaultInv'
    BY <2>1
  <2> QED  BY <2>1, <2>4, <2>5, <2>6
<1>7. ASSUME NEW at \in CatalogKeys, NEW id \in Catalog!Ids, NEW unchecked \in BOOLEAN,
             NEW c \in Clients,
             v1[id] # None, Catalog!DefaultUpsert(at, id, unchecked),
             v4' = v4 \/ v4' = [v4 EXCEPT ![c] = Catalog!Idle],
             v6' \in v6..CatalogWrites, UNCHANGED <<v1, v3>>
      PROVE  CatalogInv'
  <2>1. v2' = [v2 EXCEPT ![at] = id] /\ v7' \subseteq v7 \cup {at} /\ v7 \ {at} \subseteq v7'
    BY <1>7 DEF Catalog!DefaultUpsert
  <2>2. at \notin v7' => ~v1[id].deleted /\ ~Catalog!Deleting(id)
    BY <1>7 DEF Catalog!DefaultUpsert, Catalog!Alive
  <2>3. v4' \in [Clients -> CatalogRequests]
    BY <1>7 DEF CatalogRequests
  <2>4. RequestInv'
    BY <1>7, <2>1, <2>2, <2>3 DEF CatalogRequests, Catalog!Idle, Catalog!Deleting
  <2>5. DefaultInv'
    BY <1>7, <2>1, <2>2
  <2>6. RowInv'
    BY <1>7
  <2> QED  BY <1>7, <2>1, <2>3, <2>4, <2>5, <2>6
<1>8. ASSUME NEW c \in Clients, Catalog!putDefault(c)
      PROVE  CatalogInv'
  <2>1. v4[c].pc = "default" /\ v4[c].at \in CatalogKeys /\ v4[c].id \in Catalog!Ids
    BY <1>8 DEF Catalog!putDefault, CatalogRequests, Catalog!Idle
  <2>2. v1[v4[c].id] # None
    BY <2>1
  <2>3. /\ Catalog!DefaultUpsert(v4[c].at, v4[c].id, FALSE)
        /\ v4' = [v4 EXCEPT ![c] = Catalog!Idle] /\ UNCHANGED <<v1, v3, v6>>
    BY <1>8 DEF Catalog!putDefault
  <2>4. v6' \in v6..CatalogWrites /\ FALSE \in BOOLEAN
    BY <2>3
  <2> QED  BY <1>7, <2>1, <2>2, <2>3, <2>4
<1>9. ASSUME NEW c \in Clients, NEW at \in DefaultsAt, NEW id \in Catalog!Ids,
             Catalog!putDefaultById(c, at, id)
      PROVE  CatalogInv'
  <2>1. at \in CatalogKeys /\ v6' \in v6..CatalogWrites /\ v1[id] # None /\ v4' = v4
    BY <1>9 DEF Catalog!putDefaultById, Catalog!Begin, CatalogKeys
  <2>2. (~Catalog!Alive(id)) \in BOOLEAN
    OBVIOUS
  <2>3. Catalog!DefaultUpsert(at, id, ~Catalog!Alive(id)) /\ UNCHANGED <<v1, v3>>
    BY <1>9 DEF Catalog!putDefaultById
  <2> QED  BY <1>7, <2>1, <2>2, <2>3
<1>10. ASSUME NEW c \in Clients, NEW at \in DefaultsAt, Catalog!deleteDefault(c, at)
       PROVE  CatalogInv'
  <2>1. /\ v6' = v6 + 1 /\ v6' \in 0..CatalogWrites /\ UNCHANGED <<v1, v3, v4>>
        /\ v2' = [v2 EXCEPT ![at] = None] /\ v7' = v7 \ {at}
    BY <1>10 DEF Catalog!deleteDefault, Catalog!Begin
  <2>2. at \in CatalogKeys
    BY DEF CatalogKeys
  <2>3. RequestInv'
    <3>1. \A d \in Clients : /\ v4[d].pc # "idle" => v4[d].id \in Catalog!Ids
                             /\ v4[d].pc = "edit" => v4[d].version \in Nat
      BY DEF CatalogRequests, Catalog!Idle
    <3>2. \A k \in CatalogKeys, i \in Catalog!Ids : v2'[k] = i => k # at /\ v2[k] = i
      BY <2>1, <2>2
    <3> SUFFICES ASSUME NEW d \in Clients, v4[d].pc # "idle"
                 PROVE  RequestInv!(d)'
      BY <2>1
    <3>3. v4[d].pc = "edit" => v1[v4[d].id] # None /\ v4[d].version <= v6'
      BY <2>1, <3>1
    <3>4. v4[d].pc = "delete" => \A k \in CatalogKeys : v2'[k] = v4[d].id => k \in v7'
      BY <2>1, <3>1, <3>2
    <3> QED  BY <2>1, <3>3, <3>4
  <2> QED  BY <2>1, <2>2, <2>3
<1>11. ASSUME NEW c \in Clients, NEW at \in PoliciesAt, Catalog!putPolicy(c, at)
       PROVE  CatalogInv'
  <2>1. /\ v6' = v6 + 1 /\ v6' \in 0..CatalogWrites /\ UNCHANGED <<v1, v2, v4, v7>>
        /\ v3' \in [CatalogKeys -> {"off", "prompt", "mandate", None}]
    BY <1>11 DEF Catalog!putPolicy, Catalog!Begin, CatalogKeys
  <2> QED  BY <2>1 DEF CatalogRequests, Catalog!Idle
<1>12. ASSUME NEW c \in Clients, NEW target, NEW leaf, NEW known,
              Catalog!Submit(c, target, leaf, known)
       PROVE  CatalogInv'
  <2>1. v6' = v6 + 1 /\ v6' \in 0..CatalogWrites /\ UNCHANGED <<v1, v2, v3, v4, v7>>
    BY <1>12 DEF Catalog!Submit, Catalog!Begin
  <2> QED  BY <2>1 DEF CatalogRequests, Catalog!Idle
<1>13. CASE UNCHANGED shared
  BY <1>13 DEF shared
<1> QED
  BY <1>1, <1>2, <1>3, <1>4, <1>5, <1>6, <1>8, <1>9, <1>10, <1>11, <1>12, <1>13
     DEF Catalog!Next

CatalogPlaneInv == scenario = "catalog" => CatalogInv

LEMMA CatalogAlways == PlaneSpec => []CatalogPlaneInv
<1>1. PlaneInit => CatalogPlaneInv
  BY CatalogInitially DEF PlaneInit, CatalogPlaneInv
<1>2. CatalogPlaneInv /\ [PlaneNext]_allVars => CatalogPlaneInv'
  BY CatalogStep DEF PlaneNext, CatalogPlaneInv, allVars, shared
<1> QED  BY <1>1, <1>2, PTL DEF PlaneSpec

\* The version check of StrategyService.Update makes every accepted update one
\* of the row its author had read, and only a default put past the look at the
\* strategy (by id, or after IsReferenced) names a deleted one.
THEOREM CatalogAlwaysKeepsEdits == PlaneSpec => []CatalogKeepsEdits
<1>1. CatalogPlaneInv => CatalogKeepsEdits
  BY DEF CatalogPlaneInv, CatalogKeepsEdits, CatalogInv, CatalogTyped, RowInv, DefaultInv,
         CatalogKeys, Catalog!NoLostUpdate, Catalog!DanglingIsExplained, Catalog!Alive
<1> QED  BY <1>1, CatalogAlways, PTL

\* The scopes above a leaf, each once, the leaf's own first; who knows less
\* knows the first of them.
LEMMA Ancestors ==
  ASSUME NEW leaf \in Catalog!ScopeSet, NEW known \in Catalog!Knowledge, NEW scopes,
         scopes = Catalog!AncestorScopes(leaf, known)
  PROVE  /\ Len(scopes) \in 1..3 /\ DOMAIN scopes = 1..Len(scopes)
         /\ \A i \in 1..Len(scopes) : scopes[i] \in Catalog!ScopeSet
         /\ \A i, j \in 1..Len(scopes) : scopes[i] = scopes[j] => i = j
         /\ Len(scopes) <= Len(Catalog!AncestorScopes(leaf, "all"))
         /\ \A i \in 1..Len(scopes) : scopes[i] = Catalog!AncestorScopes(leaf, "all")[i]
<1>1. leaf \in {"app", "project", "org"} /\ Catalog!ScopeSet = {"app", "project", "org"}
  <2>1. Catalog!Scopes = <<"app", "project", "org">> /\ DOMAIN Catalog!Scopes = {1, 2, 3}
    BY DEF Catalog!Scopes
  <2>2. Catalog!Scopes[1] = "app" /\ Catalog!Scopes[2] = "project" /\ Catalog!Scopes[3] = "org"
    BY DEF Catalog!Scopes
  <2>3. Catalog!ScopeSet = {Catalog!Scopes[x] : x \in {1, 2, 3}}
    BY <2>1 DEF Catalog!ScopeSet, Catalog!Range
  <2> QED  BY <2>2, <2>3
<1> DEFINE all == Catalog!AncestorScopes(leaf, "all")
<1>2. CASE leaf = "app"
  <2>1. all = <<"app", "project", "org">>
    BY <1>2 DEF Catalog!AncestorScopes, Catalog!Scopes
  <2>2. scopes \in {<<"app", "project", "org">>, <<"app", "project">>, <<"app">>}
    BY <1>2 DEF Catalog!AncestorScopes, Catalog!Scopes, Catalog!Knowledge
  <2> HIDE DEF all
  <2> QED  BY <1>1, <2>1, <2>2 DEF all
<1>3. CASE leaf = "project"
  <2>1. all = <<"project", "org">>
    BY <1>3 DEF Catalog!AncestorScopes
  <2>2. scopes \in {<<"project", "org">>, <<"project">>}
    BY <1>3 DEF Catalog!AncestorScopes, Catalog!Knowledge
  <2> QED  BY <1>1, <2>1, <2>2
<1>4. CASE leaf = "org"
  <2>1. all = <<"org">> /\ scopes = <<"org">>
    BY <1>4 DEF Catalog!AncestorScopes
  <2> QED  BY <1>1, <2>1
<1> QED  BY <1>1, <1>2, <1>3, <1>4

\* A set of small numbers has a least one.
LEMMA LeastOfFew ==
  ASSUME NEW S \in SUBSET (1..4), S # {}
  PROVE  \E k \in S : \A j \in S : k <= j
<1>1. CASE 1 \in S
  BY <1>1
<1>2. CASE 1 \notin S /\ 2 \in S
  BY <1>2
<1>3. CASE 1 \notin S /\ 2 \notin S /\ 3 \in S
  BY <1>3
<1>4. CASE 1 \notin S /\ 2 \notin S /\ 3 \notin S
  <2>1. \A j \in S : j = 4
    <3>1. \A j \in 1..4 : j = 1 \/ j = 2 \/ j = 3 \/ j = 4
      OBVIOUS
    <3> QED  BY <1>4, <3>1
  <2>2. PICK k \in S : TRUE
    OBVIOUS
  <2> QED  BY <2>1, <2>2
<1> QED  BY <1>1, <1>2, <1>3, <1>4

\* What the loop over scopes and patterns comes to.
LEMMA FirstOfPairs ==
  ASSUME NEW n \in 1..3, NEW hits \in SUBSET ((1..n) \X (1..4)), hits # {}
  PROVE  \E t \in hits : \A u \in hits : t[1] < u[1] \/ (t[1] = u[1] /\ t[2] <= u[2])
<1> DEFINE rows == {t[1] : t \in hits}
<1>1. PICK i \in rows : \A j \in rows : i <= j
  <2>1. rows \in SUBSET (1..4) /\ rows # {}
    OBVIOUS
  <2> HIDE DEF rows
  <2> QED  BY <2>1, LeastOfFew
<1> DEFINE places == {t[2] : t \in {u \in hits : u[1] = i}}
<1>2. PICK j \in places : \A k \in places : j <= k
  <2>1. places \in SUBSET (1..4) /\ places # {}
    OBVIOUS
  <2> HIDE DEF places
  <2> QED  BY <2>1, LeastOfFew
<1>3. PICK t \in hits : t[1] = i /\ t[2] = j
  OBVIOUS
<1>4. ASSUME NEW u \in hits PROVE t[1] < u[1] \/ (t[1] = u[1] /\ t[2] <= u[2])
  <2>1. u[1] \in 1..3 /\ u[2] \in 1..4 /\ t[1] \in 1..3 /\ t[2] \in 1..4 /\ i <= u[1]
    BY <1>1, <1>3
  <2>2. u[1] = i => j <= u[2]
    BY <1>2
  <2> QED  BY <2>1, <2>2, <1>3
<1> QED  BY <1>4

\* A place that comes first in the order of places has the lesser rank.
LEMMA RanksOfPlaces ==
  ASSUME NEW i \in Nat, NEW j \in 1..4, NEW k \in Nat, NEW l \in 1..4,
         i < k \/ (i = k /\ j <= l)
  PROVE  4 * i + j - 1 <= 4 * k + l - 1
  OBVIOUS

\* ResolveDefault, for any table of defaults.
LEMMA DefaultsResolve ==
  ASSUME v2 \in [Catalog!ScopeSet \X Catalog!Keys -> Catalog!Ids \cup {None}]
  PROVE  Catalog!MostSpecificWins
<1> SUFFICES \A leaf \in Catalog!ScopeSet, known \in Catalog!Knowledge, env \in Envs \cup {None},
                target \in Catalog!Targets :
              LET scopes == Catalog!AncestorScopes(leaf, known)
                  won == Catalog!Resolve(v2, leaf, known, env, target)
                  all == {at \in DOMAIN v2 : Catalog!Applies(scopes, env, target, at)}
              IN IF all = {} THEN won = None
                 ELSE won \in all /\ \A at \in all : Catalog!Rank(scopes, won) <= Catalog!Rank(scopes, at)
  BY DEF Catalog!MostSpecificWins
<1> TAKE leaf \in Catalog!ScopeSet, known \in Catalog!Knowledge, env \in Envs \cup {None},
         target \in Catalog!Targets
<1> DEFINE scopes == Catalog!AncestorScopes(leaf, known)
           pats == Catalog!Patterns(env, target)
           Rank(at) == Catalog!Rank(scopes, at)
           won == Catalog!Resolve(v2, leaf, known, env, target)
           all == {at \in DOMAIN v2 : Catalog!Applies(scopes, env, target, at)}
           At(t) == <<scopes[t[1]], pats[t[2]]>>
           hits == {t \in (1..Len(scopes)) \X (1..4) :
                      Catalog!Usable(env, t[2]) /\ v2[At(t)] # None}
           first == CHOOSE t \in hits :
                      \A u \in hits : t[1] < u[1] \/ (t[1] = u[1] /\ t[2] <= u[2])
<1>1. /\ Len(scopes) \in 1..3 /\ DOMAIN scopes = 1..Len(scopes)
      /\ \A i \in 1..Len(scopes) : scopes[i] \in Catalog!ScopeSet
      /\ \A i, j \in 1..Len(scopes) : scopes[i] = scopes[j] => i = j
  BY Ancestors
<1>2. won = IF hits = {} THEN None ELSE At(first)
  BY DEF Catalog!Resolve
<1>3. /\ target # None
      /\ pats[1] = <<env, target>> /\ pats[2] = <<env, None>>
      /\ pats[3] = <<None, target>> /\ pats[4] = <<None, None>>
      /\ \A j \in 1..4 : pats[j] \in Catalog!Keys
  BY PlaneAssumption DEF Catalog!Targets, Catalog!Patterns, Catalog!Keys
<1> HIDE DEF scopes, pats
<1>4. ASSUME NEW i \in 1..Len(scopes)
      PROVE  Catalog!Depth(scopes, scopes[i]) = i
  BY <1>1 DEF Catalog!Depth
\* A hit is a default that applies, of the rank of its place.
<1>5. ASSUME NEW t \in hits
      PROVE  At(t) \in all /\ Rank(At(t)) = 4 * t[1] + t[2] - 1
  <2>1. t[1] \in 1..Len(scopes) /\ t[2] \in 1..4 /\ (env # None \/ t[2] > 2) /\ v2[At(t)] # None
    BY DEF Catalog!Usable
  <2>2. At(t)[1] = scopes[t[1]] /\ At(t)[2] = pats[t[2]]
    OBVIOUS
  <2>3. scopes[t[1]] \in Catalog!Range(scopes)
    BY <1>1, <2>1 DEF Catalog!Range
  <2>4. At(t) \in DOMAIN v2
    BY <1>1, <1>3, <2>1
  <2>5. /\ pats[t[2]][1] \in {env, None} /\ pats[t[2]][2] \in {target, None}
        /\ (IF pats[t[2]][1] = None THEN 2 ELSE 0) + (IF pats[t[2]][2] = None THEN 1 ELSE 0)
             = t[2] - 1
    BY <1>3, <2>1
  <2>6. Catalog!Depth(scopes, At(t)[1]) = t[1] /\ t[1] \in Int
    BY <1>1, <1>4, <2>1, <2>2
  <2>7. At(t) \in all
    <3>1. Catalog!Applies(scopes, env, target, At(t))
      <4> HIDE DEF At
      <4> QED  BY <2>1, <2>2, <2>3, <2>5 DEF Catalog!Applies
    <3> QED  BY <2>4, <3>1
  <2>8. Rank(At(t)) = 4 * t[1] + t[2] - 1
    <3>1. Catalog!Rank(scopes, At(t)) =
            4 * t[1] + ((IF pats[t[2]][1] = None THEN 2 ELSE 0)
                          + (IF pats[t[2]][2] = None THEN 1 ELSE 0))
      <4> HIDE DEF At
      <4> QED  BY <2>2, <2>6 DEF Catalog!Rank
    <3> HIDE DEF At
    <3> QED  BY <2>1, <2>5, <2>6, <3>1
  <2> QED  BY <2>7, <2>8
\* A default that applies is a hit.
<1>6. ASSUME NEW at \in all
      PROVE  \E t \in hits : At(t) = at
  <2>0. at[2][1] \in {env, None} /\ at[2][2] \in {target, None} /\ v2[at] # None
    BY DEF Catalog!Applies
  <2>1. PICK i \in 1..Len(scopes) : scopes[i] = at[1]
    <3>1. at[1] \in Catalog!Range(scopes)
      BY DEF Catalog!Applies
    <3> QED  BY <1>1, <3>1 DEF Catalog!Range
  <2>2. at[2] \in Catalog!Keys /\ at = <<at[1], at[2]>> /\ at[2] = <<at[2][1], at[2][2]>>
    BY DEF Catalog!Keys, Catalog!Applies
  <2>3. PICK j \in 1..4 : pats[j] = at[2] /\ (env # None \/ j > 2)
    <3>1. CASE at[2][1] = None /\ at[2][2] = None
      BY <1>3, <2>2, <2>0, <3>1
    <3>2. CASE at[2][1] = None /\ at[2][2] # None
      BY <1>3, <2>2, <2>0, <3>2
    <3>3. CASE at[2][1] # None /\ at[2][2] = None
      BY <1>3, <2>2, <2>0, <3>3
    <3>4. CASE at[2][1] # None /\ at[2][2] # None
      BY <1>3, <2>2, <2>0, <3>4
    <3> QED  BY <3>1, <3>2, <3>3, <3>4
  <2>4. At(<<i, j>>) = at
    BY <2>1, <2>2, <2>3
  <2>5. <<i, j>> \in hits
    BY <2>0, <2>3, <2>4 DEF Catalog!Usable
  <2> QED  BY <2>4, <2>5
<1>7. CASE hits = {}
  <2>1. all = {} /\ won = None
    BY <1>2, <1>6, <1>7
  <2> QED  BY <2>1 DEF scopes
<1>8. CASE hits # {}
  <2>1. first \in hits /\ \A u \in hits : first[1] < u[1] \/ (first[1] = u[1] /\ first[2] <= u[2])
    <3>1. hits \in SUBSET ((1..Len(scopes)) \X (1..4))
      OBVIOUS
    <3> HIDE DEF hits
    <3> QED  BY <1>1, <1>8, <3>1, FirstOfPairs
  <2>2. won = At(first)
    BY <1>2, <1>8
  <2>3. ASSUME NEW at \in all
        PROVE  Rank(won) <= Rank(at)
    <3>1. PICK t \in hits : At(t) = at
      BY <1>6
    <3>2. Rank(at) = 4 * t[1] + t[2] - 1 /\ Rank(won) = 4 * first[1] + first[2] - 1
      <4> HIDE DEF hits, first, Rank, all, At
      <4> QED  BY <1>5, <2>1, <2>2, <3>1
    <3>3. t[1] \in Nat /\ t[2] \in 1..4 /\ first[1] \in Nat /\ first[2] \in 1..4
      <4> HIDE DEF first
      <4> QED  BY <1>1, <2>1
    <3>4. first[1] < t[1] \/ (first[1] = t[1] /\ first[2] <= t[2])
      BY <2>1
    <3> HIDE DEF first, Rank, won, hits, all, At
    <3>5. 4 * first[1] + first[2] - 1 <= 4 * t[1] + t[2] - 1
      BY <3>3, <3>4, RanksOfPlaces, Zenon
    <3> QED  BY <3>2, <3>5, Zenon
  <2>4. won \in all
    BY <1>5, <2>1, <2>2
  <2>5. all # {}
    BY <2>4
  <2> QED  BY <2>3, <2>4, <2>5 DEF scopes
<1> QED  BY <1>7, <1>8 DEF scopes

\* EffectiveList against the search by name, for any strategies.
LEMMA ListingsAgree == Catalog!ListedIsAttached
<1> SUFFICES ASSUME NEW leaf \in Catalog!ScopeSet, NEW known \in Catalog!Knowledge,
                    NEW failing \in SUBSET Catalog!Range(Catalog!AncestorScopes(leaf, known))
             PROVE  /\ \A id \in Catalog!EffectiveList(leaf) :
                         id[1] \in Catalog!Range(Catalog!AncestorScopes(leaf, known)) \ failing =>
                           Catalog!ByName(leaf, known, id[2], failing) = id
                    /\ \A n \in Names : LET id == Catalog!ByName(leaf, known, n, failing) IN
                         id # None => \/ id \in Catalog!EffectiveList(leaf)
                                      \/ \E s \in failing : s # id[1] /\ Catalog!Alive(<<s, n>>)
  BY DEF Catalog!ListedIsAttached
<1> DEFINE all == Catalog!AncestorScopes(leaf, "all")
           scopes == Catalog!AncestorScopes(leaf, known)
           found(n) == {i \in 1..Len(scopes) :
                          scopes[i] \notin failing /\ Catalog!Alive(<<scopes[i], n>>)}
           first(n) == CHOOSE i \in found(n) : \A j \in found(n) : i <= j
<1>1. /\ Len(scopes) \in 1..3 /\ DOMAIN scopes = 1..Len(scopes)
      /\ \A i \in 1..Len(scopes) : scopes[i] \in Catalog!ScopeSet
      /\ Len(scopes) <= Len(all) /\ \A i \in 1..Len(scopes) : scopes[i] = all[i]
  BY Ancestors
<1>2. /\ Len(all) \in 1..3
      /\ \A i, j \in 1..Len(all) : all[i] = all[j] => i = j
  <2>1. "all" \in Catalog!Knowledge
    BY DEF Catalog!Knowledge
  <2> QED  BY <2>1, Ancestors
<1>3. \A n : Catalog!ByName(leaf, known, n, failing) =
               IF found(n) = {} THEN None ELSE <<scopes[first(n)], n>>
  BY DEF Catalog!ByName
<1>4. \A id : id \in Catalog!EffectiveList(leaf) <=>
        /\ id \in Catalog!Ids
        /\ \E i \in 1..Len(all) :
             /\ all[i] = id[1] /\ Catalog!Alive(id)
             /\ \A j \in 1..(i - 1) : ~Catalog!Alive(<<all[j], id[2]>>)
  BY DEF Catalog!EffectiveList
<1>5. ASSUME NEW n, found(n) # {}
      PROVE  first(n) \in found(n) /\ \A j \in found(n) : first(n) <= j
  <2>1. found(n) \in SUBSET (1..4)
    BY <1>1
  <2> HIDE DEF found
  <2> QED  BY <1>5, <2>1, LeastOfFew
<1> HIDE DEF all, scopes, first
<1>6. ASSUME NEW id \in Catalog!EffectiveList(leaf), id[1] \in Catalog!Range(scopes) \ failing
      PROVE  Catalog!ByName(leaf, known, id[2], failing) = id
  <2>1. PICK i \in 1..Len(all) :
           /\ all[i] = id[1] /\ Catalog!Alive(id)
           /\ \A j \in 1..(i - 1) : ~Catalog!Alive(<<all[j], id[2]>>)
    BY <1>4
  <2>2. id = <<id[1], id[2]>>
    BY <1>4 DEF Catalog!Ids
  <2>3. PICK k \in 1..Len(scopes) : scopes[k] = id[1]
    BY <1>1, <1>6 DEF Catalog!Range
  <2>4. k = i /\ i \in 1..Len(scopes) /\ scopes[i] = id[1]
    <3>1. k \in 1..Len(all) /\ all[k] = all[i]
      BY <1>1, <1>2, <2>1, <2>3
    <3>2. k = i
      BY <1>2, <2>1, <3>1
    <3> QED  BY <2>3, <3>2
  <2>5. i \in found(id[2])
    BY <1>6, <2>1, <2>2, <2>4
  <2>6. first(id[2]) \in found(id[2]) /\ first(id[2]) <= i
    BY <1>5, <2>5
  <2>7. first(id[2]) = i
    <3>1. first(id[2]) \in 1..Len(scopes) /\ Catalog!Alive(<<scopes[first(id[2])], id[2]>>)
      BY <2>6
    <3>2. scopes[first(id[2])] = all[first(id[2])] /\ first(id[2]) \in Nat /\ i \in Nat
      BY <1>1, <2>4, <3>1
    <3> QED  BY <1>1, <2>1, <2>6, <3>1, <3>2
  <2> QED  BY <1>3, <2>2, <2>4, <2>5, <2>7
<1>7. ASSUME NEW n \in Names, found(n) # {},
             ~\E s \in failing : s # scopes[first(n)] /\ Catalog!Alive(<<s, n>>)
      PROVE  <<scopes[first(n)], n>> \in Catalog!EffectiveList(leaf)
  <2>1. first(n) \in found(n) /\ \A j \in found(n) : first(n) <= j
    BY <1>5, <1>7
  <2>2. first(n) \in 1..Len(scopes) /\ Catalog!Alive(<<scopes[first(n)], n>>)
    BY <2>1
  <2>3. first(n) \in 1..Len(all) /\ scopes[first(n)] = all[first(n)]
    BY <1>1, <1>2, <2>2
  <2>4. ASSUME NEW j \in 1..(first(n) - 1)
        PROVE  ~Catalog!Alive(<<all[j], n>>)
    <3>1. j \in 1..Len(scopes) /\ j < first(n) /\ all[j] = scopes[j] /\ j \in 1..Len(all)
      BY <1>1, <1>2, <2>2
    <3>2. j \notin found(n)
      BY <2>1, <2>2, <3>1
    <3>3. scopes[j] # scopes[first(n)]
      BY <1>2, <2>3, <3>1
    <3> QED  BY <1>7, <3>1, <3>2, <3>3
  <2>5. <<scopes[first(n)], n>> \in Catalog!Ids
    BY <1>1, <2>2 DEF Catalog!Ids
  <2> QED  BY <1>4, <2>2, <2>3, <2>4, <2>5
<1>8. \A id \in Catalog!EffectiveList(leaf) :
         id[1] \in Catalog!Range(Catalog!AncestorScopes(leaf, known)) \ failing =>
           Catalog!ByName(leaf, known, id[2], failing) = id
  BY <1>6 DEF scopes
<1>9. ASSUME NEW n \in Names, Catalog!ByName(leaf, known, n, failing) # None
      PROVE  \/ Catalog!ByName(leaf, known, n, failing) \in Catalog!EffectiveList(leaf)
             \/ \E s \in failing :
                  s # Catalog!ByName(leaf, known, n, failing)[1] /\ Catalog!Alive(<<s, n>>)
  <2>1. found(n) # {} /\ Catalog!ByName(leaf, known, n, failing) = <<scopes[first(n)], n>>
    BY <1>3, <1>9
  <2> HIDE DEF found
  <2> QED  BY <1>7, <2>1
<1> QED  BY <1>8, <1>9

\* CatalogResolves: with any defaults in any scopes, ResolveDefault's first hit is
\* the most specific default that applies; and with any strategies, alive or
\* deleted, EffectiveList shows what AttachDeploy and AttachConfig take by name,
\* as far as they know the scopes and read them.
THEOREM CatalogAlwaysResolves == PlaneSpec => []CatalogResolves
<1>1. CatalogPlaneInv => CatalogResolves
  BY DefaultsResolve, ListingsAgree
     DEF CatalogPlaneInv, CatalogInv, CatalogTyped, CatalogKeys, CatalogResolves
<1> QED  BY <1>1, CatalogAlways, PTL

-----------------------------------------------------------------------------
(* The workspace                                                            *)

WorkItems == [is : {"absent", "live", "deleted", "old", "gone"}, flags : BOOLEAN, recent : BOOLEAN]
MemberRequests ==
  [pc : {"count", "write"}, user : Users, to : Roles \cup {None}, saw : SUBSET Users]
DeleteRequests ==
  [pc : {"activity", "soft", "hard"}, on : Work!Resources, saw : [Work!Resources -> WorkItems]]
WorkRequests == {Work!Idle} \cup MemberRequests \cup DeleteRequests

WorkTyped ==
  /\ v1 \in [Users -> Roles \cup {None}]
  /\ v3 \subseteq v2 \X Users
  /\ v5 \in [Work!Resources -> WorkItems]
  /\ v6 \in [Clients -> WorkRequests]

\* A grant is to someone there, on something there, and the only one.
GrantInv ==
  /\ \A t \in v4 : t.to \in Users \cup v2 /\ t.on \in Work!Resources
                   /\ Work!Exists(t.on) /\ t.perm \in {"read", "write"}
  /\ \A t, s \in v4 : t.to = s.to /\ t.on = s.on => t = s

\* What a request to demote or remove saw last is not a single owner: either
\* its member was none, or LastOwner let it pass.
CountInv == \A c \in Clients : v6[c].pc = "write" => \A u \in Users : v6[c].saw # {u}

\* A deletion for good saw its application old or without flags.
LookInv ==
  \A c \in Clients : v6[c].pc = "hard" /\ v6[c].on # Work!Project =>
    v6[c].saw[v6[c].on].is = "old" \/ ~v6[c].saw[v6[c].on].flags

WorkInv == WorkTyped /\ GrantInv /\ CountInv /\ LookInv

LEMMA WorkRows == Work!Absent \in WorkItems /\ Work!Fresh \in WorkItems
BY DEF Work!Absent, Work!Fresh, WorkItems

LEMMA WorkInitially == Work!Init => WorkInv
<1> SUFFICES ASSUME Work!Init PROVE WorkInv
  OBVIOUS
<1>1. WorkTyped
  BY WorkRows, PlaneAssumption DEF Work!Init, WorkTyped, WorkRequests
<1>2. GrantInv
  BY DEF Work!Init, GrantInv
<1>3. CountInv /\ LookInv
  BY DEF Work!Init, CountInv, LookInv, Work!Idle
<1> QED  BY <1>1, <1>2, <1>3 DEF WorkInv

\* The instance names the library's operator anew.
LEMMA WorkCardinality == \A S : Work!Cardinality(S) = Cardinality(S)
BY Zenon DEF Work!Cardinality, Cardinality, Work!IsFiniteSet, IsFiniteSet

\* A step that leaves the requests alone, or ends one.
LEMMA WorkIdleAgain ==
  ASSUME WorkInv, NEW c \in Clients, v6' = v6 \/ v6' = [v6 EXCEPT ![c] = Work!Idle]
  PROVE  v6' \in [Clients -> WorkRequests] /\ CountInv' /\ LookInv'
<1>1. v6 \in [Clients -> WorkRequests] /\ CountInv /\ LookInv
  BY DEF WorkInv, WorkTyped
<1>2. \A d \in Clients : v6'[d] = v6[d] \/ v6'[d] = Work!Idle
  BY <1>1
<1>3. v6' \in [Clients -> WorkRequests]
  BY <1>1 DEF WorkRequests
<1>4. CountInv'
  BY <1>1, <1>2 DEF CountInv, Work!Idle
<1>5. LookInv'
  BY <1>1, <1>2 DEF LookInv, Work!Idle
<1> QED  BY <1>3, <1>4, <1>5

\* The steps of the members, groups and grants.
LEMMA PeopleStep ==
  ASSUME WorkInv, NEW c \in Clients, UNCHANGED v5,
         \/ \E u \in Users : Work!AddOrgMember(c, u)
         \/ Work!WriteMember(c)
         \/ \E g \in Groups :
              \/ Work!createGroup(c, g) \/ Work!deleteGroup(c, g)
              \/ \E u \in Users : Work!addGroupMember(c, g, u) \/ Work!removeGroupMember(c, g, u)
         \/ \E to \in Users \cup Groups, on \in Work!Resources : Work!createGrant(c, to, on)
         \/ \E t \in v4 : Work!deleteGrant(c, t)
  PROVE  WorkInv'
<1> USE DEF WorkInv, WorkTyped, GrantInv
<1>0. \A r : Work!Exists(r) <=> Work!Exists(r)'
  BY DEF Work!Exists
<1>1. CASE \E u \in Users : Work!AddOrgMember(c, u)
  <2>1. v1' \in [Users -> Roles \cup {None}] /\ UNCHANGED <<v2, v3, v4, v6>>
    BY <1>1 DEF Work!AddOrgMember
  <2> QED  BY <1>0, <2>1, WorkIdleAgain
<1>2. CASE Work!WriteMember(c)
  <2>1. v6[c].pc = "write" /\ v6' = [v6 EXCEPT ![c] = Work!Idle] /\ UNCHANGED <<v2, v3, v4>>
    BY <1>2 DEF Work!WriteMember
  <2>2. v6[c].to \in Roles \cup {None}
    BY <2>1 DEF WorkRequests, MemberRequests, DeleteRequests, Work!Idle
  <2>3. v1' \in [Users -> Roles \cup {None}]
    BY <1>2, <2>2 DEF Work!WriteMember
  <2> QED  BY <1>0, <2>1, <2>3, WorkIdleAgain
<1>3. ASSUME NEW g \in Groups, Work!createGroup(c, g)
      PROVE  WorkInv'
  <2>1. v2' = v2 \cup {g} /\ UNCHANGED <<v1, v3, v4, v6>>
    BY <1>3 DEF Work!createGroup
  <2> QED  BY <1>0, <2>1, WorkIdleAgain
<1>4. ASSUME NEW g \in Groups, Work!deleteGroup(c, g)
      PROVE  WorkInv'
  <2>1. /\ v2' = v2 \ {g} /\ v3' = {m \in v3 : m[1] # g} /\ v4' = {t \in v4 : t.to # g}
        /\ UNCHANGED <<v1, v6>>
    BY <1>4 DEF Work!deleteGroup
  <2>2. v3' \subseteq v2' \X Users
    BY <2>1
  <2>3. GrantInv'
    BY <1>0, <2>1
  <2> QED  BY <2>1, <2>2, <2>3, WorkIdleAgain
<1>5. ASSUME NEW g \in Groups, NEW u \in Users,
             Work!addGroupMember(c, g, u) \/ Work!removeGroupMember(c, g, u)
      PROVE  WorkInv'
  <2>1. v3' \subseteq v2' \X Users /\ UNCHANGED <<v1, v2, v4, v6>>
    BY <1>5 DEF Work!addGroupMember, Work!removeGroupMember
  <2> QED  BY <1>0, <2>1, WorkIdleAgain
<1>6. ASSUME NEW to \in Users \cup Groups, NEW on \in Work!Resources, Work!createGrant(c, to, on)
      PROVE  WorkInv'
  <2>1. PICK p \in {"read", "write"} : v4' = v4 \cup {[to |-> to, on |-> on, perm |-> p]}
    BY <1>6 DEF Work!createGrant
  <2>2. /\ to \in Users \cup v2 /\ Work!Exists(on) /\ ~\E t \in v4 : t.to = to /\ t.on = on
        /\ UNCHANGED <<v1, v2, v3, v6>>
    BY <1>6 DEF Work!createGrant
  <2> DEFINE new == [to |-> to, on |-> on, perm |-> p]
  <2>3. new.to = to /\ new.on = on /\ new.perm = p
    OBVIOUS
  <2> HIDE DEF new
  <2>4. v4' = v4 \cup {new}
    BY <2>1 DEF new
  <2>5. GrantInv'
    BY <1>0, <2>2, <2>3, <2>4
  <2> QED  BY <2>2, <2>5, WorkIdleAgain
<1>7. ASSUME NEW t \in v4, Work!deleteGrant(c, t)
      PROVE  WorkInv'
  <2>1. v4' = v4 \ {t} /\ UNCHANGED <<v1, v2, v3, v6>>
    BY <1>7 DEF Work!deleteGrant
  <2> QED  BY <1>0, <2>1, WorkIdleAgain
<1> QED
  BY <1>1, <1>2, <1>3, <1>4, <1>5, <1>6, <1>7

\* A step that keeps every project and application there.
LEMMA KeepsItems ==
  ASSUME WorkInv, NEW c \in Clients, UNCHANGED <<v1, v2, v3, v4>>,
         v6' = v6 \/ v6' = [v6 EXCEPT ![c] = Work!Idle],
         v5' \in [Work!Resources -> WorkItems],
         \A r \in Work!Resources : Work!Exists(r) => Work!Exists(r)'
  PROVE  WorkInv'
<1>1. v6' \in [Clients -> WorkRequests] /\ CountInv' /\ LookInv'
  BY WorkIdleAgain
<1>2. GrantInv'
  BY DEF WorkInv, GrantInv
<1> QED  BY <1>1, <1>2 DEF WorkInv, WorkTyped

\* A request takes down what it read.
LEMMA WorkRequested ==
  ASSUME WorkInv, NEW c \in Clients, NEW req_1 \in WorkRequests,
         v6' = [v6 EXCEPT ![c] = req_1], UNCHANGED <<v1, v2, v3, v4, v5>>,
         req_1.pc = "write" => \A u \in Users : req_1.saw # {u},
         req_1.pc = "hard" /\ req_1.on # Work!Project =>
           req_1.saw[req_1.on].is = "old" \/ ~req_1.saw[req_1.on].flags
  PROVE  WorkInv'
<1> USE DEF WorkInv, WorkTyped
<1>1. \A d \in Clients : v6'[d] = IF d = c THEN req_1 ELSE v6[d]
  OBVIOUS
<1>2. CountInv'
  BY <1>1 DEF CountInv
<1>3. LookInv'
  BY <1>1 DEF LookInv
<1>4. GrantInv'
  BY DEF GrantInv, Work!Exists
<1> QED  BY <1>2, <1>3, <1>4

\* What a row may become while it stays there.
LEMMA RowsStay ==
  ASSUME NEW i \in WorkItems, NEW is \in {"live", "deleted", "old"}, NEW b \in BOOLEAN
  PROVE  /\ [i EXCEPT !.is = is] \in WorkItems /\ [i EXCEPT !.is = is].is = is
         /\ [i EXCEPT !.flags = b] \in WorkItems /\ [i EXCEPT !.flags = b].is = i.is
         /\ [i EXCEPT !.recent = b] \in WorkItems /\ [i EXCEPT !.recent = b].is = i.is
BY DEF WorkItems

LEMMA WorkStep == WorkInv /\ [Work!Next]_shared => WorkInv'
<1> SUFFICES ASSUME WorkInv, [Work!Next]_shared PROVE WorkInv'
  OBVIOUS
<1> USE DEF WorkInv, WorkTyped
<1>0. \A c \in Clients : v6[c].pc \in {"activity", "soft", "hard"} => v6[c] \in DeleteRequests
  BY DEF WorkRequests, MemberRequests, DeleteRequests, Work!Idle
<1>1. ASSUME NEW c \in Clients, NEW u \in Users, Work!GetOrgMember(c, u)
      PROVE  WorkInv'
  <2>1. PICK to \in (Roles \ {"owner"}) \cup {None} :
          v6' = [v6 EXCEPT ![c] = [pc |-> IF v1[u] = "owner" THEN "count" ELSE "write",
                                   user |-> u, to |-> to, saw |-> Work!Owners \cap {u}]]
    BY <1>1 DEF Work!GetOrgMember
  <2> DEFINE r == [pc |-> IF v1[u] = "owner" THEN "count" ELSE "write",
                   user |-> u, to |-> to, saw |-> Work!Owners \cap {u}]
  <2>2. r \in WorkRequests
    BY DEF WorkRequests, MemberRequests
  <2>3. r.pc = "write" => \A w \in Users : r.saw # {w}
    BY DEF Work!Owners
  <2>4. r.pc # "hard" /\ UNCHANGED <<v1, v2, v3, v4, v5>> /\ v6' = [v6 EXCEPT ![c] = r]
    BY <1>1, <2>1 DEF Work!GetOrgMember, Work!People
  <2> HIDE DEF r
  <2> QED  BY <2>2, <2>3, <2>4, WorkRequested
<1>2. ASSUME NEW c \in Clients, Work!CountOrgOwners(c)
      PROVE  WorkInv'
  <2>1. v6[c].pc = "count" /\ UNCHANGED <<v1, v2, v3, v4, v5>>
    BY <1>2 DEF Work!CountOrgOwners, Work!People
  <2>2. v6[c] \in MemberRequests
    BY <2>1 DEF WorkRequests, MemberRequests, DeleteRequests, Work!Idle
  <2>3. CASE Work!LastOwner(Work!Cardinality(Work!Owners))
    <3>1. v6' = [v6 EXCEPT ![c] = Work!Idle]
      BY <1>2, <2>3 DEF Work!CountOrgOwners
    <3> QED  BY <2>1, <3>1, KeepsItems DEF Work!Exists
  <2>4. CASE ~Work!LastOwner(Work!Cardinality(Work!Owners))
    <3> DEFINE r == [v6[c] EXCEPT !.pc = "write", !.saw = Work!Owners]
    <3>1. r \in WorkRequests /\ r.pc = "write" /\ r.saw = Work!Owners
      BY <2>2 DEF WorkRequests, MemberRequests, Work!Owners
    <3>2. v6' = [v6 EXCEPT ![c] = r]
      BY <1>2, <2>4 DEF Work!CountOrgOwners
    <3> HIDE DEF r
    <3>3. ASSUME NEW w \in Users, Work!Owners = {w}
          PROVE  FALSE
      <4>1. Cardinality({w}) = 1
        BY FS_Singleton
      <4>2. Work!Cardinality(Work!Owners) = 1
        BY <3>3, <4>1, WorkCardinality, Zenon
      <4> QED  BY <2>4, <4>2 DEF Work!LastOwner
    <3> QED  BY <2>1, <3>1, <3>2, <3>3, WorkRequested
  <2> QED  BY <2>3, <2>4
<1>3. ASSUME NEW c \in Clients, NEW a \in Apps, Work!createApp(c, a)
      PROVE  WorkInv'
  <2>1. /\ v5' = [v5 EXCEPT ![a] = Work!Fresh] /\ UNCHANGED <<v1, v2, v3, v4, v6>>
        /\ a \in Work!Resources
    BY <1>3 DEF Work!createApp, Work!People, Work!Resources
  <2> QED  BY <2>1, WorkRows, KeepsItems DEF Work!Exists, Work!Fresh, Work!Absent
<1>4. ASSUME NEW c \in Clients, NEW r \in Work!Resources, NEW i \in WorkItems,
             i.is \notin {"absent", "gone"}, v5' = [v5 EXCEPT ![r] = i],
             UNCHANGED <<v1, v2, v3, v4>>, v6' = v6 \/ v6' = [v6 EXCEPT ![c] = Work!Idle]
      PROVE  WorkInv'
  <2>1. v5' \in [Work!Resources -> WorkItems]
    BY <1>4
  <2>2. \A q \in Work!Resources : Work!Exists(q) => Work!Exists(q)'
    BY <1>4 DEF Work!Exists
  <2> QED  BY <1>4, <2>1, <2>2, KeepsItems
<1>5. ASSUME NEW c \in Clients, NEW r \in Work!Resources,
             Work!CreateFlag(c, r) \/ Work!Evaluate(r) \/ Work!Restore(c, r)
      PROVE  WorkInv'
  <2>1. UNCHANGED <<v1, v2, v3, v4, v6>>
    BY <1>5 DEF Work!CreateFlag, Work!Evaluate, Work!Restore, Work!People
  <2>2. CASE Work!CreateFlag(c, r)
    <3>1. v5' = [v5 EXCEPT ![r] = [v5[r] EXCEPT !.flags = TRUE]] /\ Work!Exists(r)
      BY <2>2 DEF Work!CreateFlag
    <3> QED  BY <1>4, <2>1, <3>1, RowsStay, TRUE \in BOOLEAN DEF Work!Exists
  <2>3. CASE Work!Evaluate(r)
    <3>1. v5' = [v5 EXCEPT ![r] = [v5[r] EXCEPT !.recent = TRUE]] /\ Work!Exists(r)
      BY <2>3 DEF Work!Evaluate
    <3> QED  BY <1>4, <2>1, <3>1, RowsStay, TRUE \in BOOLEAN DEF Work!Exists
  <2>4. CASE Work!Restore(c, r)
    <3>1. v5' = [v5 EXCEPT ![r] = [v5[r] EXCEPT !.is = "live"]]
      BY <2>4 DEF Work!Restore
    <3> QED  BY <1>4, <2>1, <3>1, RowsStay
  <2> QED  BY <1>5, <2>2, <2>3, <2>4
<1>6. ASSUME NEW c \in Clients, NEW r \in Work!Resources,
             Work!DeleteCount(c, r) \/ Work!HardDeleteCheck(c, r)
      PROVE  WorkInv'
  <2> DEFINE pc == IF Work!DeleteCount(c, r) /\ Work!CountFlags(r) THEN "activity" ELSE "hard"
             q == [pc |-> pc, on |-> r, saw |-> v5]
  <2>1. v6' = [v6 EXCEPT ![c] = q] /\ UNCHANGED <<v1, v2, v3, v4, v5>>
    BY <1>6 DEF Work!DeleteCount, Work!HardDeleteCheck, Work!People
  <2>2. q \in WorkRequests /\ q.pc # "write" /\ q.on = r /\ q.saw = v5
    BY DEF WorkRequests, DeleteRequests
  <2>3. q.pc = "hard" /\ r # Work!Project => v5[r].is = "old" \/ ~v5[r].flags
    <3> SUFFICES ASSUME q.pc = "hard", r # Work!Project, v5[r].is # "old"
                 PROVE  ~v5[r].flags
      OBVIOUS
    <3>1. Work!DeleteCount(c, r) /\ ~Work!CountFlags(r)
      BY <1>6 DEF Work!HardDeleteCheck
    <3> QED  BY <3>1 DEF Work!CountFlags, Work!Under
  <2> HIDE DEF q
  <2> QED  BY <2>1, <2>2, <2>3, WorkRequested
<1>7. ASSUME NEW c \in Clients, Work!DeleteActivity(c)
      PROVE  WorkInv'
  <2>1. v6[c] \in DeleteRequests /\ UNCHANGED <<v1, v2, v3, v4, v5>>
    BY <1>0, <1>7 DEF Work!DeleteActivity, Work!People
  <2>2. CASE v6' = [v6 EXCEPT ![c] = Work!Idle]
    BY <2>1, <2>2, KeepsItems DEF Work!Exists
  <2>3. CASE v6' # [v6 EXCEPT ![c] = Work!Idle]
    <3> DEFINE q == [v6[c] EXCEPT !.pc = "soft"]
    <3>1. v6' = [v6 EXCEPT ![c] = q]
      BY <1>7, <2>3 DEF Work!DeleteActivity
    <3>2. q \in WorkRequests /\ q.pc = "soft"
      BY <2>1 DEF WorkRequests, DeleteRequests
    <3> HIDE DEF q
    <3> QED  BY <2>1, <3>1, <3>2, WorkRequested
  <2> QED  BY <2>2, <2>3
<1>8. ASSUME NEW c \in Clients, Work!SoftDelete(c)
      PROVE  WorkInv'
  <2> DEFINE r == v6[c].on
  <2>1. /\ r \in Work!Resources
        /\ v5' = [v5 EXCEPT ![r] = [v5[r] EXCEPT !.is = IF @ = "live" THEN "deleted" ELSE @]]
        /\ v6' = [v6 EXCEPT ![c] = Work!Idle] /\ UNCHANGED <<v1, v2, v3, v4>>
    BY <1>0, <1>8 DEF Work!SoftDelete, Work!People, DeleteRequests
  <2>2. CASE v5[r].is = "live"
    <3>1. v5' = [v5 EXCEPT ![r] = [v5[r] EXCEPT !.is = "deleted"]]
      BY <2>1, <2>2
    <3> QED  BY <1>4, <2>1, <3>1, RowsStay, ZenonT(60)
  <2>3. CASE v5[r].is # "live"
    <3>1. v5' = v5
      BY <2>1, <2>3 DEF WorkItems
    <3> QED  BY <2>1, <3>1, KeepsItems DEF Work!Exists
  <2> QED  BY <2>2, <2>3
<1>9. ASSUME NEW c \in Clients, Work!HardDelete(c)
      PROVE  WorkInv'
  <2> DEFINE purged == IF Work!Deletable(v6[c].on)
                       THEN {q \in Work!Under(v6[c].on) : Work!Exists(q)} ELSE {}
  <2>1. /\ v5' = [q \in Work!Resources |->
                    IF q \in purged THEN [Work!Absent EXCEPT !.is = "gone"] ELSE v5[q]]
        /\ v4' = {t \in v4 : t.on \notin purged}
    BY <1>9 DEF Work!HardDelete
  <2> HIDE DEF purged
  <2>2. v6' = [v6 EXCEPT ![c] = Work!Idle] /\ UNCHANGED <<v1, v2, v3>>
    BY <1>9 DEF Work!HardDelete
  <2>3. v5' \in [Work!Resources -> WorkItems]
    BY <2>1 DEF Work!Absent, WorkItems
  <2>4. GrantInv'
    BY <2>1, <2>2 DEF GrantInv, Work!Exists
  <2> QED  BY <2>2, <2>3, <2>4, WorkIdleAgain
<1>10. ASSUME Work!Time
       PROVE  WorkInv'
  <2>1. UNCHANGED <<v1, v2, v3, v4, v6>>
    BY <1>10 DEF Work!Time, Work!People
  <2> DEFINE later(i) == [i EXCEPT !.is = IF @ = "deleted" THEN "old" ELSE @, !.recent = FALSE]
  <2>2. v5' = [r \in Work!Resources |-> later(v5[r])]
    BY <1>10 DEF Work!Time
  <2>3. \A i \in WorkItems :
          later(i) \in WorkItems /\ (i.is \notin {"absent", "gone"} => later(i).is \notin {"absent", "gone"})
    BY DEF WorkItems
  <2> HIDE DEF later
  <2>4. v5' \in [Work!Resources -> WorkItems]
    BY <2>2, <2>3
  <2>5. \A r \in Work!Resources : Work!Exists(r) => Work!Exists(r)'
    BY <2>2, <2>3 DEF Work!Exists
  <2>6. GrantInv'
    BY <2>1, <2>5 DEF GrantInv
  <2> QED  BY <2>1, <2>4, <2>6 DEF CountInv, LookInv
<1>11. CASE UNCHANGED shared
  BY <1>11 DEF shared, GrantInv, CountInv, LookInv, Work!Exists
<1>12. ASSUME NEW c \in Clients,
         \/ \E u \in Users : Work!AddOrgMember(c, u)
         \/ Work!WriteMember(c)
         \/ \E g \in Groups :
              \/ Work!createGroup(c, g) \/ Work!deleteGroup(c, g)
              \/ \E u \in Users : Work!addGroupMember(c, g, u) \/ Work!removeGroupMember(c, g, u)
         \/ \E to \in Users \cup Groups, on \in Work!Resources : Work!createGrant(c, to, on)
         \/ \E t \in v4 : Work!deleteGrant(c, t)
       PROVE  WorkInv'
  <2>1. v5' = v5
    BY <1>12 DEF Work!AddOrgMember, Work!WriteMember, Work!createGroup, Work!deleteGroup,
         Work!addGroupMember, Work!removeGroupMember, Work!createGrant, Work!deleteGrant
  <2> QED  BY <1>12, <2>1, PeopleStep
<1>13. CASE Work!Next
  <2>1. ASSUME NEW r \in Work!Resources, Work!Evaluate(r), Clients = {}
        PROVE  WorkInv'
    <3>1. v5' = [v5 EXCEPT ![r] = [v5[r] EXCEPT !.recent = TRUE]] /\ Work!Exists(r)
          /\ UNCHANGED <<v1, v2, v3, v4, v6>>
      BY <2>1 DEF Work!Evaluate, Work!People
    <3>2. GrantInv' /\ v5' \in [Work!Resources -> WorkItems]
      BY <3>1, RowsStay, TRUE \in BOOLEAN DEF GrantInv, Work!Exists
    <3> QED  BY <2>1, <3>1, <3>2 DEF CountInv, LookInv
  <2> QED
    BY <1>1, <1>2, <1>3, <1>5, <1>6, <1>7, <1>8, <1>9, <1>10, <1>12, <1>13, <2>1 DEF Work!Next
<1> QED  BY <1>11, <1>13

WorkPlaneInv == scenario = "workspace" => WorkInv

LEMMA WorkAlways == PlaneSpec => []WorkPlaneInv
<1>1. PlaneInit => WorkPlaneInv
  BY WorkInitially DEF PlaneInit, WorkPlaneInv
<1>2. WorkPlaneInv /\ [PlaneNext]_allVars => WorkPlaneInv'
  BY WorkStep DEF PlaneNext, WorkPlaneInv, allVars, shared
<1> QED  BY <1>1, <1>2, PTL DEF PlaneSpec

\* ResolveAccess and the filters of the listings agree on every member,
\* project and application, whatever the grants.
LEMMA ListedMeansAccessible == WorkTyped /\ GrantInv => Work!ListedIsAccessible
<1> SUFFICES ASSUME WorkTyped, GrantInv, NEW u \in Users, NEW all \in BOOLEAN, v1[u] # None
             PROVE  Work!ListedIsAccessible!(u, all)!2
  BY DEF Work!ListedIsAccessible
<1>1. ASSUME NEW e PROVE /\ Work!GetUserPermission(u, e) # {} <=> \E t \in Work!On(e) : t.to = u
                         /\ Work!GetUserGroupPermission(u, e) # {} <=>
                              \E t \in Work!On(e) : <<t.to, u>> \in v3
  BY DEF Work!GetUserPermission, Work!GetUserGroupPermission
<1>2. ASSUME NEW r, NEW e, e = Work!Effective(r)
      PROVE  Work!ResolveAccess(u, r) # {} <=>
               (v1[u] = "owner" \/ ~Work!HasAnyGrants(e) \/ Work!Reached(u, e))
  <2>1. {"write"} # {}
    OBVIOUS
  <2> QED  BY <1>1, <1>2, <2>1 DEF Work!ResolveAccess, Work!Reached
<1>3. Work!ListProjectsByOrg(u, all) <=>
        Work!Shown(Work!Project, all) /\ Work!ResolveAccess(u, Work!Project) # {}
  BY <1>2 DEF Work!ListProjectsByOrg, Work!Effective
<1>4. ASSUME NEW a \in Apps
      PROVE  Work!ListAppsByProject(u, a, all) <=>
               Work!Shown(a, all) /\ Work!ResolveAccess(u, a) # {}
  <2>1. a # Work!Project
    BY PlaneAssumption
  <2>2. CASE Work!HasAnyGrants(a)
    BY <1>2, <2>1, <2>2 DEF Work!ListAppsByProject, Work!Effective
  <2>3. CASE ~Work!HasAnyGrants(a)
    <3>1. ~Work!Reached(u, a)
      BY <2>3 DEF Work!HasAnyGrants, Work!Reached
    <3> QED  BY <1>2, <2>1, <2>3, <3>1 DEF Work!ListAppsByProject, Work!Effective
  <2> QED  BY <2>2, <2>3
<1>5. ASSUME NEW r \in Work!Resources, Work!Exists(r)
      PROVE  Work!Shown(r, all) \/ Work!Hidden(r, all)
  BY <1>5 DEF Work!Exists, Work!Shown, Work!Hidden, WorkTyped, WorkItems
<1>6. Work!Project \in Work!Resources /\ \A a \in Apps : a \in Work!Resources
  BY DEF Work!Resources
<1>7. ASSUME NEW a \in Apps, Work!Exists(Work!Project), Work!Exists(a),
             Work!ResolveAccess(u, a) # {}, Work!ResolveAccess(u, Work!Project) # {}
      PROVE  Work!listAppsByOrg(u, a, all) \/ Work!Hidden(a, all) \/ Work!Hidden(Work!Project, all)
  BY <1>3, <1>4, <1>5, <1>6, <1>7 DEF Work!listAppsByOrg
<1> QED  BY <1>3, <1>4, <1>5, <1>6, <1>7

\* What the listings of the entities package show a member, ResolveAccess opens;
\* what it opens, they leave out only where it is soft-deleted, or, in the
\* listing of the organisation's applications, under a project that is not shown.
THEOREM WorkListedIsAlwaysAccessible == PlaneSpec => []WorkListedIsAccessible
<1>1. WorkPlaneInv => WorkListedIsAccessible
  BY ListedMeansAccessible DEF WorkPlaneInv, WorkListedIsAccessible, WorkInv
<1> QED  BY <1>1, WorkAlways, PTL

\* Only the write of a demotion or removal takes an owner away, and one at a
\* time: it takes the last one only where there were more when it counted.
LEMMA OwnerLoss == WorkInv /\ [Work!Next]_shared => Work!OwnerLossStep
<1> SUFFICES ASSUME WorkInv, [Work!Next]_shared, Work!Owners # {}, Work!Owners' = {}
             PROVE  \E c \in Clients :
                      v6[c].pc = "write" /\ v6'[c] = Work!Idle /\ v6[c].saw # Work!Owners
  BY DEF Work!OwnerLossStep
<1> USE DEF WorkInv, WorkTyped
<1>1. v1' # v1
  BY DEF Work!Owners
<1>2. \E c \in Clients : Work!WriteMember(c) \/ \E u \in Users : Work!AddOrgMember(c, u)
  BY <1>1 DEF Work!Next, shared, Work!GetOrgMember, Work!CountOrgOwners, Work!createGroup,
     Work!deleteGroup, Work!addGroupMember, Work!removeGroupMember, Work!createGrant,
     Work!deleteGrant, Work!createApp, Work!CreateFlag, Work!DeleteCount, Work!HardDeleteCheck,
     Work!Restore, Work!DeleteActivity, Work!SoftDelete, Work!HardDelete, Work!Evaluate, Work!Time,
     Work!People
<1>3. ASSUME NEW c \in Clients, NEW u \in Users, Work!AddOrgMember(c, u)
      PROVE  FALSE
  <2>1. v1[u] = None /\ \E r \in Roles : v1' = [v1 EXCEPT ![u] = r]
    BY <1>3 DEF Work!AddOrgMember
  <2>2. PICK w \in Users : v1[w] = "owner"
    BY DEF Work!Owners
  <2>3. v1'[w] = "owner"
    BY <2>1, <2>2, PlaneAssumption
  <2> QED  BY <2>3 DEF Work!Owners
<1>4. ASSUME NEW c \in Clients, Work!WriteMember(c)
      PROVE  v6[c].pc = "write" /\ v6'[c] = Work!Idle /\ v6[c].saw # Work!Owners
  <2>1. v6[c].pc = "write" /\ v6'[c] = Work!Idle
    BY <1>4 DEF Work!WriteMember
  <2>2. v6[c].user \in Users /\ \A w \in Users : v6[c].saw # {w}
    BY <2>1 DEF WorkRequests, MemberRequests, DeleteRequests, Work!Idle, CountInv
  <2>3. Work!Owners \subseteq {v6[c].user}
    BY <1>1, <1>4, <2>2 DEF Work!WriteMember, Work!Owners
  <2>4. Work!Owners = {v6[c].user}
    BY <2>3
  <2> QED  BY <2>1, <2>2, <2>4
<1> QED  BY <1>2, <1>3, <1>4

\* What the levels of a permission come to.
LEMMA Levels ==
  ASSUME NEW perms \in SUBSET {"read", "write"}
  PROVE  Work!Level(perms) = IF "write" \in perms THEN 2 ELSE IF perms = {} THEN 0 ELSE 1
<1>1. CASE "write" \in perms
  BY <1>1 DEF Work!Level
<1>2. CASE perms = {}
  <2>1. Cardinality({}) = 0
    BY FS_EmptySet
  <2>2. Work!Cardinality(perms) = 0
    BY <1>2, <2>1, WorkCardinality, Zenon
  <2> QED  BY <1>2, <2>2 DEF Work!Level
<1>3. CASE "write" \notin perms /\ perms # {}
  <2>1. perms = {"read"}
    BY <1>3
  <2>2. Cardinality({"read"}) = 1
    BY FS_Singleton
  <2>3. Work!Cardinality(perms) = 1
    BY <2>1, <2>2, WorkCardinality, Zenon
  <2> QED  BY <1>3, <2>3 DEF Work!Level
<1> QED  BY <1>1, <1>2, <1>3

Permitted == \A u, r : Work!ResolveAccess(u, r) \in SUBSET {"read", "write"}

LEMMA Permissions == GrantInv => Permitted
<1> SUFFICES ASSUME GrantInv, NEW u, NEW r
             PROVE  Work!ResolveAccess(u, r) \in SUBSET {"read", "write"}
  BY DEF Permitted
<1> DEFINE e == Work!Effective(r)
<1>1. Work!GetUserPermission(u, e) \in SUBSET {"read", "write"}
  BY DEF Work!GetUserPermission, Work!On, GrantInv
<1>2. Work!GetUserGroupPermission(u, e) \in SUBSET {"read", "write"}
  BY DEF Work!GetUserGroupPermission, Work!On, GrantInv
<1> QED  BY <1>1, <1>2 DEF Work!ResolveAccess

\* Taking away widens nothing but where a resource opens or a member's own
\* read grant goes: ResolveAccess asks whether there are grants, and looks at
\* the member's own one before the groups'.
LEMMA Widening == GrantInv /\ GrantInv' => Work!WideningStep
<1> SUFFICES ASSUME GrantInv, GrantInv', v4' \subseteq v4, v3' \subseteq v3, v1' = v1,
                    NEW u \in Users, NEW r \in Work!Resources,
                    ~\E q \in {r, Work!Project} : Work!HasAnyGrants(q) /\ ~Work!HasAnyGrants(q)',
                    ~\E t \in v4 \ v4' : t.to = u /\ t.perm = "read"
             PROVE  ~(Work!Level(Work!ResolveAccess(u, r))' > Work!Level(Work!ResolveAccess(u, r)))
  BY DEF Work!WideningStep
<1>0. PICK e \in {r, Work!Project} : e = Work!Effective(r)
  BY DEF Work!Effective
<1> DEFINE own == Work!GetUserPermission(u, e)
           ownAfter == {t.perm : t \in {t \in v4' : t.on = e /\ t.to = u}}
           group == {t.perm : t \in {t \in v4 : t.on = e /\ <<t.to, u>> \in v3}}
           groupAfter == {t.perm : t \in {t \in v4' : t.on = e /\ <<t.to, u>> \in v3'}}
           old == Work!ResolveAccess(u, r)
           new == Work!ResolveAccess(u, r)'
<1>1. \A q \in {r, Work!Project} : Work!HasAnyGrants(q)' <=> Work!HasAnyGrants(q)
  BY DEF Work!HasAnyGrants, Work!On
<1>2. Work!Effective(r)' = e
  BY <1>0, <1>1 DEF Work!Effective
<1>3. old \in SUBSET {"read", "write"}
  BY Permissions DEF Permitted
<1>4. new \in SUBSET {"read", "write"}
  <2>1. GrantInv' => Permitted'
    BY Permissions, PTL
  <2> QED  BY <2>1 DEF Permitted
<1>5. Work!Level(old) \in 0..2 /\ Work!Level(new) \in 0..2
  BY <1>3, <1>4, Levels
<1>6. old = IF v1[u] = "owner" \/ ~Work!HasAnyGrants(e) THEN {"write"}
            ELSE IF own # {} THEN own
            ELSE IF "write" \in group THEN {"write"} ELSE group
  BY <1>0 DEF Work!ResolveAccess, Work!GetUserPermission, Work!GetUserGroupPermission, Work!On
<1>7. new = IF v1[u] = "owner" \/ ~Work!HasAnyGrants(e) THEN {"write"}
            ELSE IF ownAfter # {} THEN ownAfter
            ELSE IF "write" \in groupAfter THEN {"write"} ELSE groupAfter
  <2>1. Work!HasAnyGrants(e)' <=> Work!HasAnyGrants(e)
    BY <1>1, <1>2
  <2> QED  BY <1>2, <2>1 DEF Work!ResolveAccess, Work!GetUserPermission,
                             Work!GetUserGroupPermission, Work!On
<1>8. ownAfter \subseteq own /\ groupAfter \subseteq group
  BY DEF Work!GetUserPermission, Work!On
<1>9. \A p, q \in own : p = q
  BY DEF Work!GetUserPermission, Work!On, GrantInv
<1>10. ownAfter = {} => own \subseteq {"write"}
  BY DEF Work!GetUserPermission, Work!On, GrantInv
<1> HIDE DEF own, ownAfter, group, groupAfter
<1>11. CASE v1[u] = "owner" \/ ~Work!HasAnyGrants(e)
  BY <1>5, <1>6, <1>7, <1>11
<1>12. CASE ~(v1[u] = "owner" \/ ~Work!HasAnyGrants(e)) /\ ownAfter # {}
  <2>1. own = ownAfter
    BY <1>8, <1>9, <1>12
  <2> QED  BY <1>5, <1>6, <1>7, <1>12, <2>1
<1>13. CASE ~(v1[u] = "owner" \/ ~Work!HasAnyGrants(e)) /\ ownAfter = {} /\ own # {}
  <2>1. "write" \in old
    BY <1>6, <1>10, <1>13
  <2>2. Work!Level(old) = 2
    BY <1>3, <2>1, Levels
  <2> QED  BY <1>5, <2>2
<1>14. CASE ~(v1[u] = "owner" \/ ~Work!HasAnyGrants(e)) /\ ownAfter = {} /\ own = {}
  <2>1. /\ "write" \in new => "write" \in old
        /\ new # {} => old # {}
    BY <1>6, <1>7, <1>8, <1>14
  <2>2. Work!Level(new) <= Work!Level(old)
    <3>1. Work!Level(old) = IF "write" \in old THEN 2 ELSE IF old = {} THEN 0 ELSE 1
      BY <1>3, Levels
    <3>2. Work!Level(new) = IF "write" \in new THEN 2 ELSE IF new = {} THEN 0 ELSE 1
      BY <1>4, Levels
    <3> HIDE DEF old, new
    <3> QED  BY <2>1, <3>1, <3>2
  <2> QED  BY <1>5, <2>2
<1> QED  BY <1>11, <1>12, <1>13, <1>14

\* Only HardDelete takes something out: the project when it is old, and with it
\* its applications; an application when it is old, or without flags, or when
\* it changed after the request had looked at it.
LEMMA Vanishing == WorkInv /\ [Work!Next]_shared => Work!VanishStep
<1> SUFFICES ASSUME WorkInv, [Work!Next]_shared,
                    NEW r \in Work!Resources, Work!Exists(r), ~Work!Exists(r)'
             PROVE  Work!VanishStep!(r)!2
  BY DEF Work!VanishStep
<1> USE DEF WorkInv, WorkTyped
<1>1. ASSUME NEW c \in Clients, Work!HardDelete(c)
      PROVE  Work!VanishStep!(r)!2
  <2> DEFINE s == v6[c].on
  <2>1. v6[c].pc = "hard" /\ s \in Work!Resources
    BY <1>1 DEF Work!HardDelete, WorkRequests, MemberRequests, DeleteRequests, Work!Idle
  <2>2. Work!Deletable(s) /\ r \in Work!Under(s)
    BY <1>1 DEF Work!HardDelete, Work!Exists
  <2>3. CASE s = Work!Project
    <3>1. v5[Work!Project].is = "old"
      BY <2>2, <2>3 DEF Work!Deletable
    <3>2. Work!Project \in Work!Under(s) /\ Work!Exists(Work!Project) /\ s \in Work!Resources
      BY <2>1, <2>3, <3>1 DEF Work!Under, Work!Exists
    <3>3. v5'[Work!Project].is = "gone"
      BY <1>1, <2>2, <2>3, <3>2 DEF Work!HardDelete, Work!Absent
    <3> QED  BY <3>1, <3>3 DEF Work!Exists
  <2>4. CASE s # Work!Project
    <3>1. r = s
      BY <2>2, <2>4 DEF Work!Under
    <3>2. v6[c].saw[r].is = "old" \/ ~v6[c].saw[r].flags
      BY <2>1, <2>4, <3>1 DEF LookInv
    <3> QED  BY <2>1, <2>4, <3>1, <3>2
  <2> QED  BY <2>3, <2>4
<1>2. ASSUME v5' = v5 PROVE FALSE
  BY <1>2 DEF Work!Exists
<1>3. ASSUME NEW c \in Clients, NEW a \in Apps, Work!createApp(c, a) PROVE FALSE
  BY <1>3 DEF Work!createApp, Work!Exists, Work!Fresh, Work!Absent, Work!Resources
<1>4. ASSUME NEW q \in Work!Resources, NEW i \in WorkItems, i.is \notin {"absent", "gone"},
             v5' = [v5 EXCEPT ![q] = i]
      PROVE  FALSE
  BY <1>4 DEF Work!Exists
<1>5. ASSUME NEW c \in Clients, NEW q \in Work!Resources,
             Work!CreateFlag(c, q) \/ Work!Restore(c, q) PROVE FALSE
  <2>1. CASE Work!CreateFlag(c, q)
    <3>1. v5' = [v5 EXCEPT ![q] = [v5[q] EXCEPT !.flags = TRUE]] /\ Work!Exists(q)
      BY <2>1 DEF Work!CreateFlag
    <3> QED  BY <1>4, <3>1, RowsStay, TRUE \in BOOLEAN DEF Work!Exists
  <2>2. CASE Work!Restore(c, q)
    <3>1. v5' = [v5 EXCEPT ![q] = [v5[q] EXCEPT !.is = "live"]]
      BY <2>2 DEF Work!Restore
    <3> QED  BY <1>4, <3>1, RowsStay
  <2> QED  BY <1>5, <2>1, <2>2
<1>6. ASSUME NEW q \in Work!Resources, Work!Evaluate(q) PROVE FALSE
  <2>1. v5' = [v5 EXCEPT ![q] = [v5[q] EXCEPT !.recent = TRUE]] /\ Work!Exists(q)
    BY <1>6 DEF Work!Evaluate
  <2> QED  BY <1>4, <2>1, RowsStay, TRUE \in BOOLEAN DEF Work!Exists
<1>7. ASSUME NEW c \in Clients, Work!SoftDelete(c) PROVE FALSE
  BY <1>7 DEF Work!SoftDelete, Work!Exists, WorkItems
<1>8. ASSUME Work!Time PROVE FALSE
  BY <1>8 DEF Work!Time, Work!Exists, WorkItems
<1>9. CASE Work!Next
  BY <1>1, <1>2, <1>3, <1>5, <1>6, <1>7, <1>8, <1>9
     DEF Work!Next, Work!AddOrgMember, Work!GetOrgMember, Work!CountOrgOwners, Work!WriteMember,
     Work!createGroup, Work!deleteGroup, Work!addGroupMember, Work!removeGroupMember,
     Work!createGrant, Work!deleteGrant, Work!DeleteCount, Work!HardDeleteCheck,
     Work!DeleteActivity, Work!People
<1> QED  BY <1>2, <1>9 DEF shared

\* The members, grants and entities services: the last owner is lost only past
\* an outdated CountOrgOwners, taking something away widens access only where a
\* resource opens or an own read grant goes, and a project or an application is
\* hard-deleted only after its retention, without flags, or past an outdated
\* look at it.
THEOREM WorkChangesAreAlwaysExplained == PlaneSpec => WorkChangesAreExplained
<1>1. WorkPlaneInv /\ WorkPlaneInv' /\ [PlaneNext]_allVars =>
        (scenario = "workspace" => Work!OwnerLossStep /\ Work!WideningStep /\ Work!VanishStep)
  <2> SUFFICES ASSUME WorkPlaneInv, WorkPlaneInv', [PlaneNext]_allVars, scenario = "workspace"
               PROVE  Work!OwnerLossStep /\ Work!WideningStep /\ Work!VanishStep
    OBVIOUS
  <2>1. WorkInv /\ WorkInv' /\ [Work!Next]_shared
    BY DEF WorkPlaneInv, PlaneNext, allVars, shared
  <2>2. GrantInv /\ GrantInv'
    BY <2>1 DEF WorkInv
  <2> QED  BY <2>1, <2>2, OwnerLoss, Widening, Vanishing
<1> QED  BY <1>1, WorkAlways, PTL DEF PlaneSpec, WorkChangesAreExplained
-----------------------------------------------------------------------------
(* The audit trail's reverts                                                *)

AuditValues == Settings \cup BOOLEAN \cup {None, "unset", "on", "off", "empty"}
AuditEntries ==
  [id : Nat, action : Audit!Actions, new : AuditValues, old : AuditValues,
   before : Audit!RowType, seen : Audit!RowType, after : Audit!RowType]
WriteRequests ==
  [pc : {"write"}, id : Nat, action : Audit!Actions, arg : AuditValues, seen : Audit!RowType]
LogRequests == [pc : {"log"}, id : Nat, action : Audit!Actions, entry : AuditEntries]
RevertRequests ==
  [pc : {"reread", "revert"}, id : Nat, entry : AuditEntries, force : BOOLEAN,
   seen : Audit!RowType, checked : Int]
AuditIdle == [pc |-> "idle"]
AuditRequests == {AuditIdle} \cup WriteRequests \cup LogRequests \cup RevertRequests

\* What an operation may be asked to set.
Asked(action, v) ==
  /\ action = "flag.updated" => v \in Settings
  /\ action = "flag.toggled" => v \in BOOLEAN
  /\ action \in {"flag.env_state.updated", "flag.rule.env_state.updated"} => v \in {"on", "off"}

AuditTyped ==
  /\ v1 \in Audit!RowType /\ v2 \in Seq(AuditEntries) /\ v3 \in [Clients -> AuditRequests]
  /\ v4 \in 0..AuditOps /\ v5 \in Int
  /\ \A c \in Clients : v3[c].pc = "write" => Asked(v3[c].action, v3[c].arg)

\* The entries a revert may start from, now or after the next writeAudit.
Entries ==
  {v2[i] : i \in DOMAIN v2}
  \cup {v3[c].entry : c \in {d \in Clients : v3[d].pc \in {"log", "reread", "revert"}}}

\* What an entry says of the operation it records.
Truthful(e) ==
  /\ Asked(e.action, e.new)
  /\ e.action = "flag.toggled" => e.after.enabled = e.new /\ e.old = ~e.new
  /\ e.action = "flag.archived" => e.after.archived
  /\ e.action = "flag.restored" => ~e.after.archived
  /\ e.action = "flag.queued_for_deletion" => e.after.queued
  /\ e.action = "flag.env_state.updated" =>
       e.old = IF e.seen.env = None THEN "empty" ELSE e.seen.env
  /\ e.action = "flag.rule.created" => e.before.rule = None
  /\ e.action = "flag.rule.deleted" => e.before.rule # None
  /\ e.action = "flag.rule.env_state.updated" =>
       e.old = IF e.seen.rule \in {None, "unset"} THEN "empty" ELSE e.seen.rule

\* What the row shows once an entry was reverted.
Undone(e, r) ==
  /\ e.action = "flag.toggled" => r.enabled = e.old
  /\ e.action = "flag.archived" => ~r.archived
  /\ e.action = "flag.restored" => r.archived
  /\ e.action = "flag.queued_for_deletion" => ~r.queued
  /\ e.action = "flag.env_state.updated" => r.env = e.old
  /\ e.action = "flag.rule.created" => r.rule = None
  /\ e.action = "flag.rule.deleted" => r.rule # None
  /\ e.action = "flag.rule.env_state.updated" => r.rule = e.old

\* Entries are true and known by their number, which no request that is still
\* to write its row shares.
EntryInv ==
  /\ \A e \in Entries : e.id \in 1..v4 /\ Truthful(e)
  /\ \A e, f \in Entries : e.id = f.id => e = f
  /\ \A c \in Clients : v3[c].pc = "write" =>
       /\ v3[c].id \in 1..v4
       /\ \A e \in Entries : e.id # v3[c].id
       /\ \A d \in Clients : v3[d].pc = "write" /\ v3[d].id = v3[c].id => d = c

\* A revert is of an entry a handler can parse; and as long as the last write
\* is the revert of an entry, the row shows it undone.
UndoneInv ==
  /\ \A c \in Clients : v3[c].pc \in {"reread", "revert"} => Audit!Appliable(v3[c].entry)
  /\ \A e \in Entries : v5 = -e.id => Undone(e, v1)

AuditInv == AuditTyped /\ EntryInv /\ UndoneInv

LEMMA AuditInitially == Audit!Init => AuditInv
<1> SUFFICES ASSUME Audit!Init PROVE AuditInv
  OBVIOUS
<1>1. v1 \in Audit!RowType
  BY PlaneAssumption DEF Audit!Init, Audit!RowType
<1>2. v2 = <<>> /\ v4 = 0 /\ v5 = 0 /\ v3 = [c \in Clients |-> AuditIdle]
  BY DEF Audit!Init, AuditIdle
<1>3. AuditTyped
  BY <1>1, <1>2, PlaneAssumption DEF AuditTyped, AuditRequests, AuditIdle
<1>4. Entries = {} /\ \A c \in Clients : v3[c].pc = "idle"
  BY <1>2 DEF Entries, AuditIdle
<1> QED  BY <1>3, <1>4 DEF AuditInv, EntryInv, UndoneInv

-----------------------------------------------------------------------------
(* What the statements and the reverts do to the row                        *)

LEMMA RevertUndoes ==
  ASSUME v1 \in Audit!RowType, NEW e \in AuditEntries, Truthful(e), Audit!Appliable(e),
         NEW seen \in Audit!RowType, ~Audit!Refused(e)
  PROVE  Audit!Reverted(e, seen) \in Audit!RowType /\ Undone(e, Audit!Reverted(e, seen))
<1> USE DEF Audit!Reverted, Undone, Truthful, Audit!RowType, AuditEntries
<1>1. CASE e.action = "flag.archived"
  BY <1>1 DEF Audit!revertFlagArchived, Audit!SqlUnarchive
<1>2. CASE e.action = "flag.restored"
  BY <1>2 DEF Audit!revertFlagRestored, Audit!SqlArchive
<1>3. CASE e.action = "flag.toggled"
  BY <1>3, ZenonT(60) DEF Audit!revertFlagToggled, Audit!SqlUpdateFlag, Asked
<1>4. CASE e.action = "flag.queued_for_deletion"
  BY <1>4, ZenonT(60) DEF Audit!revertFlagQueuedForDeletion, Audit!SqlClearDeleteAfter
<1>5. CASE e.action = "flag.env_state.updated"
  <2>1. e.old \in {"on", "off"}
    BY <1>5 DEF Audit!Appliable
  <2> QED  BY <1>5, <2>1 DEF Audit!revertFlagEnvStateUpdated, Audit!SqlUpsertEnvState
<1>6. CASE e.action = "flag.rule.created"
  BY <1>6 DEF Audit!revertFlagRuleCreated, Audit!SqlSetRule
<1>7. CASE e.action = "flag.rule.deleted"
  BY <1>7, PlaneAssumption DEF Audit!revertFlagRuleDeleted, Audit!SqlSetRule
<1>8. CASE e.action = "flag.rule.env_state.updated"
  <2>1. e.old \in {"on", "off"}
    BY <1>8 DEF Audit!Appliable
  <2> QED  BY <1>8, <2>1 DEF Audit!revertFlagRuleEnvStateUpdated, Audit!SqlSetRule
<1> QED
  BY <1>1, <1>2, <1>3, <1>4, <1>5, <1>6, <1>7, <1>8 DEF Audit!Appliable, Audit!Actions

\* Rows that show an entry undone agree on its column.
LEMMA UndoneAgree ==
  ASSUME NEW e \in AuditEntries, Audit!Appliable(e),
         NEW r \in Audit!RowType, NEW s \in Audit!RowType, Undone(e, r), Undone(e, s)
  PROVE  Audit!Field(e.action, r) = Audit!Field(e.action, s)
BY DEF Audit!Field, Undone, Audit!RowType, AuditEntries, Audit!Actions, Audit!Appliable

\* And where the operation wrote what it had read, and changed it, they show
\* what was there before.
LEMMA UndoneRestores ==
  ASSUME NEW e \in AuditEntries, Truthful(e), Audit!Appliable(e),
         NEW r \in Audit!RowType, Undone(e, r), e.seen = e.before,
         Audit!Field(e.action, e.before) # Audit!Field(e.action, e.after)
  PROVE  Audit!Field(e.action, r) = Audit!Field(e.action, e.before)
BY DEF Audit!Field, Undone, Truthful, Asked, Audit!RowType, AuditEntries, Audit!Actions,
       Audit!Appliable

\* The row and the entry of an operation that is accepted.
LEMMA WrittenIsRow ==
  ASSUME AuditTyped, NEW c \in Clients, v3[c].pc = "write"
  PROVE  Audit!Written(c) \in Audit!RowType
<1> USE DEF AuditTyped, Audit!Written, Asked, Audit!RowType, Audit!SqlUpdateFlag, Audit!SqlArchive,
    Audit!SqlRestore, Audit!SqlQueue, Audit!SqlUpsertEnvState, Audit!SqlSetRule
<1>1. v3[c] \in WriteRequests
  BY DEF AuditRequests, AuditIdle, WriteRequests, LogRequests, RevertRequests
<1> QED  BY <1>1, ZenonT(60) DEF WriteRequests, Audit!Actions

\* The shape of a request by its position.
LEMMA AuditShapes ==
  ASSUME AuditTyped, NEW c \in Clients
  PROVE  /\ v3[c].pc = "write" => v3[c] \in WriteRequests
         /\ v3[c].pc = "log" => v3[c] \in LogRequests
         /\ v3[c].pc \in {"reread", "revert"} => v3[c] \in RevertRequests
         /\ v3[c].pc \in {"idle", "write", "log", "reread", "revert"}
BY DEF AuditTyped, AuditRequests, AuditIdle, WriteRequests, LogRequests, RevertRequests

LEMMA EntriesTyped == AuditTyped => Entries \subseteq AuditEntries
BY AuditShapes DEF AuditTyped, Entries, LogRequests, RevertRequests

\* A step that adds no entry and no writer.
LEMMA AuditKeeps ==
  ASSUME AuditInv, AuditTyped', Entries' \subseteq Entries, v4' \in Nat, v4 <= v4',
         \A c \in Clients : v3'[c].pc = "write" => v3'[c] = v3[c],
         \A c \in Clients : v3'[c].pc \in {"reread", "revert"} => Audit!Appliable(v3'[c].entry),
         \A e \in Entries : v5' = -e.id => Undone(e, v1')
  PROVE  AuditInv'
<1>0. v4 \in Nat
  BY PlaneAssumption DEF AuditInv, AuditTyped
<1>1. EntryInv'
  BY <1>0 DEF AuditInv, EntryInv
<1>2. UndoneInv'
  BY DEF UndoneInv
<1> QED  BY <1>1, <1>2 DEF AuditInv

\* One request takes another shape, and with it at most an entry it knew.
LEMMA EntriesShrink ==
  ASSUME AuditTyped, NEW c \in Clients, NEW r, v3' = [v3 EXCEPT ![c] = r], UNCHANGED v2,
         r.pc \in {"log", "reread", "revert"} => r.entry \in Entries
  PROVE  Entries' \subseteq Entries
<1>1. \A d \in Clients : v3'[d] = IF d = c THEN r ELSE v3[d]
  BY DEF AuditTyped
<1> SUFFICES ASSUME NEW e \in Entries', e \notin Entries PROVE FALSE
  OBVIOUS
<1>2. e \notin {v2[i] : i \in DOMAIN v2}
  BY DEF Entries
<1>3. PICK d \in Clients : v3'[d].pc \in {"log", "reread", "revert"} /\ e = v3'[d].entry
  BY <1>2 DEF Entries
<1>4. CASE d = c
  BY <1>1, <1>3, <1>4
<1>5. CASE d # c
  BY <1>1, <1>3, <1>5 DEF Entries
<1> QED  BY <1>4, <1>5

LEMMA AuditRead ==
  ASSUME AuditInv, NEW c \in Clients, NEW a \in Audit!Actions, NEW v \in AuditValues,
         Asked(a, v), Audit!Read(c, a, v)
  PROVE  AuditInv'
<1> USE DEF AuditInv, AuditTyped
<1> DEFINE r == [pc |-> "write", id |-> v4 + 1, action |-> a, arg |-> v, seen |-> v1]
<1>1. /\ v3[c].pc = "idle" /\ v4 < AuditOps /\ v3' = [v3 EXCEPT ![c] = r]
      /\ v4' = v4 + 1 /\ UNCHANGED <<v1, v2, v5>>
  BY DEF Audit!Read
<1>2. v4 \in Nat /\ v4' \in 0..AuditOps
  BY <1>1, PlaneAssumption
<1>3. r \in AuditRequests /\ r.pc = "write" /\ r.id = v4' /\ r.action = a /\ r.arg = v
  BY <1>1, <1>2 DEF AuditRequests, WriteRequests
<1> HIDE DEF r
<1>4. AuditTyped'
  BY <1>1, <1>2, <1>3
<1>5. Entries' \subseteq Entries
  BY <1>1, <1>3, EntriesShrink
<1>6. \A d \in Clients : v3'[d] = IF d = c THEN r ELSE v3[d]
  BY <1>1
<1>7. EntryInv'
  <2>1. \A e \in Entries' : e.id \in 1..v4 /\ Truthful(e)
    BY <1>5 DEF EntryInv
  <2>2. \A e \in Entries' : e.id \in 1..v4' /\ Truthful(e)
    BY <1>1, <1>2, <2>1
  <2>3. \A e, f \in Entries' : e.id = f.id => e = f
    BY <1>5 DEF EntryInv
  <2>4. ASSUME NEW d \in Clients, v3'[d].pc = "write"
        PROVE  /\ v3'[d].id \in 1..v4'
               /\ \A e \in Entries' : e.id # v3'[d].id
               /\ \A f \in Clients : v3'[f].pc = "write" /\ v3'[f].id = v3'[d].id => f = d
    <3>1. CASE d = c
      BY <1>1, <1>2, <1>3, <1>6, <2>1, <3>1 DEF EntryInv
    <3>2. CASE d # c
      BY <1>1, <1>2, <1>3, <1>5, <1>6, <2>4, <3>2 DEF EntryInv
    <3> QED  BY <3>1, <3>2
  <2> QED  BY <2>2, <2>3, <2>4 DEF EntryInv
<1>8. UndoneInv'
  BY <1>1, <1>3, <1>5, <1>6 DEF UndoneInv
<1> QED  BY <1>4, <1>7, <1>8

\* The row is written, and the entry it will have in the trail is made.
LEMMA AuditWrites ==
  ASSUME AuditInv, NEW c \in Clients, Audit!Write(c)
  PROVE  AuditInv'
<1> USE DEF AuditInv, AuditTyped
<1>0. v3[c].pc = "write" /\ UNCHANGED <<v2, v4>> /\ v3[c] \in WriteRequests /\ v4 \in Nat
  BY AuditShapes, PlaneAssumption DEF Audit!Write
<1>1. CASE ~Audit!Accepted(c)
  <2>1. v3' = [v3 EXCEPT ![c] = AuditIdle] /\ UNCHANGED <<v1, v5>>
    BY <1>1 DEF Audit!Write, AuditIdle
  <2>2. AuditTyped'
    BY <1>0, <2>1 DEF AuditRequests, AuditIdle
  <2>3. Entries' \subseteq Entries
    BY <1>0, <2>1, EntriesShrink DEF AuditIdle
  <2> QED  BY <1>0, <2>1, <2>2, <2>3, AuditKeeps DEF AuditIdle, UndoneInv
<1>2. CASE Audit!Accepted(c)
  <2> DEFINE e == [id |-> v3[c].id, action |-> v3[c].action, new |-> v3[c].arg,
                   old |-> Audit!OldValue(v3[c].action, v3[c].seen, v3[c].arg),
                   before |-> v1, seen |-> v3[c].seen, after |-> Audit!Written(c)]
             r == [pc |-> "log", id |-> v3[c].id, action |-> v3[c].action, entry |-> e]
  <2>1. /\ v1' = Audit!Written(c) /\ v5' = v3[c].id /\ v3' = [v3 EXCEPT ![c] = r]
    BY <1>2 DEF Audit!Write
  <2>2. Audit!Written(c) \in Audit!RowType
    BY <1>0, WrittenIsRow
  <2>3. Audit!OldValue(v3[c].action, v3[c].seen, v3[c].arg) \in AuditValues
    BY <1>0 DEF Audit!OldValue, AuditValues, WriteRequests, Audit!RowType, Asked
  <2>4. e \in AuditEntries /\ e.id = v3[c].id
    BY <1>0, <2>2, <2>3 DEF AuditEntries, WriteRequests
  <2>5. Truthful(e)
    BY <1>0, <1>2, <2>2, ZenonT(60) DEF Truthful, Asked, Audit!OldValue, Audit!Written, Audit!Accepted,
       Audit!SqlUpdateFlag, Audit!SqlArchive, Audit!SqlRestore, Audit!SqlQueue, Audit!RowType,
       WriteRequests, Audit!Actions
  <2> HIDE DEF e
  <2>6. r \in AuditRequests /\ r.pc = "log" /\ r.entry = e
    BY <1>0, <2>4 DEF AuditRequests, LogRequests, WriteRequests
  <2> HIDE DEF r
  <2>7. \A d \in Clients : v3'[d] = IF d = c THEN r ELSE v3[d]
    BY <2>1
  <2>8. AuditTyped'
    BY <1>0, <2>1, <2>2, <2>6, <2>7 DEF WriteRequests
  <2>9. Entries' \subseteq Entries \cup {e}
    <3> SUFFICES ASSUME NEW f \in Entries', f \notin Entries PROVE f = e
      OBVIOUS
    <3>1. f \notin {v2[i] : i \in DOMAIN v2}
      BY DEF Entries
    <3>2. PICK d \in Clients : v3'[d].pc \in {"log", "reread", "revert"} /\ f = v3'[d].entry
      BY <1>0, <3>1 DEF Entries
    <3>3. CASE d = c
      BY <2>6, <2>7, <3>2, <3>3
    <3>4. CASE d # c
      BY <2>7, <3>2, <3>4 DEF Entries
    <3> QED  BY <3>3, <3>4
  <2>10. EntryInv'
    <3>1. e.id \in 1..v4 /\ \A f \in Entries : f.id # e.id
      BY <1>0, <2>4 DEF EntryInv
    <3>2. \A f \in Entries' : f.id \in 1..v4' /\ Truthful(f)
      BY <1>0, <2>5, <2>9, <3>1 DEF EntryInv
    <3>3. \A f, g \in Entries' : f.id = g.id => f = g
      BY <2>9, <3>1 DEF EntryInv
    <3>4. \A d \in Clients : v3'[d].pc = "write" => d # c /\ v3'[d] = v3[d]
      BY <2>6, <2>7
    <3>5. ASSUME NEW d \in Clients, v3'[d].pc = "write"
          PROVE  /\ v3'[d].id \in 1..v4'
                 /\ \A f \in Entries' : f.id # v3'[d].id
                 /\ \A g \in Clients : v3'[g].pc = "write" /\ v3'[g].id = v3'[d].id => g = d
      <4>1. d # c /\ v3'[d] = v3[d] /\ v3[d].id # e.id
        BY <1>0, <2>4, <3>4, <3>5 DEF EntryInv
      <4> QED  BY <1>0, <2>9, <3>4, <3>5, <4>1 DEF EntryInv
    <3> QED  BY <3>2, <3>3, <3>5 DEF EntryInv
  <2>11. UndoneInv'
    <3>1. v5' \in 1..v4 /\ \A f \in Entries' : f.id \in 1..v4'
      BY <1>0, <2>1, <2>10 DEF EntryInv
    <3>2. \A f \in Entries' : v5' # -f.id
      BY <1>0, <3>1
    <3>3. \A d \in Clients : v3'[d].pc \in {"reread", "revert"} => v3'[d] = v3[d]
      BY <2>6, <2>7
    <3> QED  BY <3>2, <3>3 DEF UndoneInv
  <2> QED  BY <2>8, <2>10, <2>11
<1> QED  BY <1>1, <1>2

LEMMA AuditWriteAudit ==
  ASSUME AuditInv, NEW c \in Clients, Audit!WriteAudit(c) \/ Audit!Abandon(c)
  PROVE  AuditInv'
<1> USE DEF AuditInv, AuditTyped
<1>1. v3[c].pc = "log" /\ v3' = [v3 EXCEPT ![c] = AuditIdle] /\ UNCHANGED <<v1, v4, v5>>
  BY DEF Audit!WriteAudit, Audit!Abandon, AuditIdle
<1>2. v3[c] \in LogRequests /\ v3[c].entry \in Entries /\ v4 \in Nat
  BY <1>1, AuditShapes, PlaneAssumption DEF Entries
<1>3. \A d \in Clients : v3'[d] = IF d = c THEN AuditIdle ELSE v3[d]
  BY <1>1
<1>4. v2' = v2 \/ v2' = Append(v2, v3[c].entry)
  BY DEF Audit!WriteAudit, Audit!Abandon
<1>5. AuditTyped'
  BY <1>1, <1>2, <1>3, <1>4 DEF AuditRequests, AuditIdle, LogRequests
<1>6. \A i \in DOMAIN v2' : v2'[i] \in Entries
  BY <1>2, <1>4 DEF Entries, LogRequests
<1>7. Entries' \subseteq Entries
  <2> SUFFICES ASSUME NEW e \in Entries' PROVE e \in Entries
    OBVIOUS
  <2>1. CASE \E i \in DOMAIN v2' : e = v2'[i]
    BY <1>6, <2>1
  <2>2. CASE \E d \in Clients : v3'[d].pc \in {"log", "reread", "revert"} /\ e = v3'[d].entry
    BY <1>3, <2>2 DEF Entries, AuditIdle
  <2> QED  BY <2>1, <2>2 DEF Entries
<1> QED  BY <1>1, <1>2, <1>3, <1>5, <1>7, AuditKeeps DEF AuditIdle, UndoneInv

LEMMA AuditTestFailure ==
  ASSUME AuditInv, NEW c \in Clients, Audit!RecordTestFailure(c)
  PROVE  AuditInv'
<1> USE DEF AuditInv, AuditTyped
<1>1. /\ v4 \in Nat /\ v4' = v4 + 1 /\ v4' \in 0..AuditOps /\ v5' = v4 + 1
      /\ v1' = Audit!SqlDisableEverywhere(v1) /\ UNCHANGED <<v2, v3>>
  BY PlaneAssumption DEF Audit!RecordTestFailure
<1>2. v1' \in Audit!RowType
  BY <1>1 DEF Audit!SqlDisableEverywhere, Audit!RowType
<1>3. Entries' = Entries
  BY <1>1 DEF Entries
<1>4. \A e \in Entries : v5' # -e.id
  BY <1>1 DEF EntryInv
<1> QED  BY <1>1, <1>2, <1>3, <1>4, AuditKeeps DEF UndoneInv

LEMMA AuditChecks ==
  ASSUME AuditInv, NEW c \in Clients, Audit!CheckRevert(c)
  PROVE  AuditInv'
<1> USE DEF AuditInv, AuditTyped
<1>1. PICK i \in DOMAIN v2, force \in BOOLEAN :
        /\ Audit!Appliable(v2[i])
        /\ v3' = [v3 EXCEPT ![c] = [pc |-> IF v2[i].action = "flag.toggled" THEN "reread"
                                           ELSE "revert",
                                    id |-> v4 + 1, entry |-> v2[i], force |-> force,
                                    seen |-> v1, checked |-> v5]]
  BY DEF Audit!CheckRevert
<1> DEFINE r == [pc |-> IF v2[i].action = "flag.toggled" THEN "reread" ELSE "revert",
                 id |-> v4 + 1, entry |-> v2[i], force |-> force, seen |-> v1, checked |-> v5]
<1>2. v4 \in Nat /\ v4' = v4 + 1 /\ v4' \in 0..AuditOps /\ UNCHANGED <<v1, v2, v5>>
  BY PlaneAssumption DEF Audit!CheckRevert
<1>3. v2[i] \in AuditEntries /\ v2[i] \in Entries
  BY DEF Entries
<1>4. r \in AuditRequests /\ r.pc \in {"reread", "revert"} /\ r.entry = v2[i]
  BY <1>2, <1>3 DEF AuditRequests, RevertRequests
<1>5. v3' = [v3 EXCEPT ![c] = r]
  BY <1>1
<1> HIDE DEF r
<1>6. AuditTyped'
  BY <1>2, <1>4, <1>5
<1>7. Entries' \subseteq Entries
  BY <1>2, <1>3, <1>4, <1>5, EntriesShrink
<1> QED  BY <1>1, <1>2, <1>4, <1>5, <1>6, <1>7, AuditKeeps DEF UndoneInv

LEMMA AuditRereads ==
  ASSUME AuditInv, NEW c \in Clients, Audit!Reread(c)
  PROVE  AuditInv'
<1> USE DEF AuditInv, AuditTyped
<1> DEFINE r == IF v1.archived THEN AuditIdle
                ELSE [v3[c] EXCEPT !.pc = "revert", !.seen = v1]
<1>1. /\ v3[c].pc = "reread" /\ v3[c] \in RevertRequests /\ v3' = [v3 EXCEPT ![c] = r]
      /\ v4 \in Nat /\ UNCHANGED <<v1, v2, v4, v5>>
  BY AuditShapes, PlaneAssumption DEF Audit!Reread, AuditIdle
<1>2. r \in AuditRequests /\ r.pc \in {"idle", "revert"} /\ (r.pc = "revert" => r.entry = v3[c].entry)
  BY <1>1 DEF AuditRequests, RevertRequests, AuditIdle
<1>3. v3[c].entry \in Entries /\ Audit!Appliable(v3[c].entry)
  BY <1>1 DEF Entries, UndoneInv
<1> HIDE DEF r
<1>4. AuditTyped'
  BY <1>1, <1>2
<1>5. Entries' \subseteq Entries
  BY <1>1, <1>2, <1>3, EntriesShrink
<1> QED  BY <1>1, <1>2, <1>3, <1>4, <1>5, AuditKeeps DEF UndoneInv

LEMMA AuditReverting ==
  ASSUME AuditInv, NEW c \in Clients, Audit!ApplyRevert(c)
  PROVE  AuditInv'
<1> USE DEF AuditInv, AuditTyped
<1> DEFINE e == v3[c].entry
<1>1. /\ v3[c].pc = "revert" /\ v3[c] \in RevertRequests /\ v3' = [v3 EXCEPT ![c] = AuditIdle]
      /\ v4 \in Nat /\ UNCHANGED <<v2, v4>>
  BY AuditShapes, PlaneAssumption DEF Audit!ApplyRevert, AuditIdle
<1>2. e \in Entries /\ e \in AuditEntries /\ Audit!Appliable(e) /\ Truthful(e)
      /\ v3[c].seen \in Audit!RowType
  BY <1>1 DEF Entries, UndoneInv, EntryInv, RevertRequests
<1>3. v5' \in Int /\ v1' \in Audit!RowType /\ \A f \in Entries : v5' = -f.id => Undone(f, v1')
  <2>1. CASE Audit!Refused(e)
    BY <2>1 DEF Audit!ApplyRevert, UndoneInv
  <2>2. CASE ~Audit!Refused(e)
    <3>1. v1' = Audit!Reverted(e, v3[c].seen) /\ v5' = -e.id
      BY <2>2 DEF Audit!ApplyRevert
    <3>2. v1' \in Audit!RowType /\ Undone(e, v1')
      BY <1>2, <2>2, <3>1, RevertUndoes
    <3>3. e.id \in Int /\ \A f \in Entries : f.id \in Int
      BY <1>2, EntriesTyped DEF AuditEntries
    <3>4. \A f \in Entries : v5' = -f.id => f = e
      BY <1>2, <3>1, <3>3 DEF EntryInv
    <3> QED  BY <3>1, <3>2, <3>3, <3>4
  <2> QED  BY <2>1, <2>2
<1>4. AuditTyped'
  BY <1>1, <1>3 DEF AuditRequests, AuditIdle
<1>5. Entries' \subseteq Entries
  BY <1>1, EntriesShrink DEF AuditIdle
<1> QED  BY <1>1, <1>3, <1>4, <1>5, AuditKeeps DEF AuditIdle, UndoneInv

LEMMA AuditStep == AuditInv /\ [Audit!Next]_shared => AuditInv'
<1> SUFFICES ASSUME AuditInv, [Audit!Next]_shared PROVE AuditInv'
  OBVIOUS
<1>1. CASE UNCHANGED shared
  BY <1>1 DEF shared, AuditInv, AuditTyped, EntryInv, UndoneInv, Entries
<1>2. ASSUME NEW c \in Clients,
             \/ Audit!updateFlag(c) \/ Audit!toggleFlag(c) \/ Audit!archiveFlag(c)
             \/ Audit!restoreFlag(c) \/ Audit!queueFlagDeletion(c) \/ Audit!setFlagEnvState(c)
             \/ Audit!addRule(c) \/ Audit!deleteRule(c) \/ Audit!setRuleEnvState(c)
      PROVE  \E a \in Audit!Actions, v \in AuditValues : Asked(a, v) /\ Audit!Read(c, a, v)
  <2> USE DEF Audit!Actions, AuditValues, Asked
  <2>1. CASE Audit!updateFlag(c)
    BY <2>1 DEF Audit!updateFlag
  <2>2. CASE Audit!toggleFlag(c)
    BY <2>2 DEF Audit!toggleFlag
  <2>3. CASE Audit!setFlagEnvState(c)
    BY <2>3 DEF Audit!setFlagEnvState
  <2>4. CASE Audit!setRuleEnvState(c)
    BY <2>4 DEF Audit!setRuleEnvState
  <2>5. CASE \/ Audit!archiveFlag(c) \/ Audit!restoreFlag(c) \/ Audit!queueFlagDeletion(c)
             \/ Audit!addRule(c) \/ Audit!deleteRule(c)
    BY <2>5 DEF Audit!archiveFlag, Audit!restoreFlag, Audit!queueFlagDeletion, Audit!addRule,
       Audit!deleteRule
  <2> QED  BY <1>2, <2>1, <2>2, <2>3, <2>4, <2>5
<1>3. ASSUME NEW c \in Clients,
             \E a \in Audit!Actions, v \in AuditValues : Asked(a, v) /\ Audit!Read(c, a, v)
      PROVE  AuditInv'
  BY <1>3, AuditRead
<1> QED
  BY <1>1, <1>2, <1>3, AuditWrites, AuditWriteAudit, AuditTestFailure, AuditChecks, AuditRereads,
     AuditReverting DEF Audit!Next

AuditPlaneInv == scenario = "audit" => AuditInv

LEMMA AuditAlways == PlaneSpec => []AuditPlaneInv
<1>1. PlaneInit => AuditPlaneInv
  BY AuditInitially DEF PlaneInit, AuditPlaneInv
<1>2. AuditPlaneInv /\ [PlaneNext]_allVars => AuditPlaneInv'
  BY AuditStep DEF PlaneNext, AuditPlaneInv, allVars, shared
<1> QED  BY <1>1, <1>2, PTL DEF PlaneSpec

\* Only ApplyRevert takes a request from "revert" to rest.
LEMMA AuditReversion ==
  ASSUME AuditInv, [Audit!Next]_shared, NEW c \in Clients, v3[c].pc = "revert", v3'[c].pc = "idle"
  PROVE  Audit!ApplyRevert(c)
<1> USE DEF AuditInv, AuditTyped
<1>1. v3'[c] # v3[c]
  OBVIOUS
<1>2. CASE UNCHANGED shared
  BY <1>1, <1>2 DEF shared
<1>3. ASSUME NEW d \in Clients, d # c, NEW r, v3' = [v3 EXCEPT ![d] = r] PROVE FALSE
  BY <1>1, <1>3
<1>4. PICK d \in Clients : Audit!Next!(d)
  BY <1>2 DEF Audit!Next
<1>5. CASE d = c
  BY <1>4, <1>5 DEF Audit!updateFlag, Audit!toggleFlag, Audit!archiveFlag, Audit!restoreFlag,
     Audit!queueFlagDeletion, Audit!setFlagEnvState, Audit!addRule, Audit!deleteRule,
     Audit!setRuleEnvState, Audit!Read, Audit!Write, Audit!WriteAudit, Audit!RecordTestFailure,
     Audit!Abandon, Audit!CheckRevert, Audit!Reread
<1>6. CASE d # c
  <2>1. v3' = v3 \/ \E r : v3' = [v3 EXCEPT ![d] = r]
    BY <1>4 DEF Audit!updateFlag, Audit!toggleFlag, Audit!archiveFlag, Audit!restoreFlag,
       Audit!queueFlagDeletion, Audit!setFlagEnvState, Audit!addRule, Audit!deleteRule,
       Audit!setRuleEnvState, Audit!Read, Audit!Write, Audit!WriteAudit, Audit!RecordTestFailure,
       Audit!Abandon, Audit!CheckRevert, Audit!Reread, Audit!ApplyRevert
  <2> QED  BY <1>1, <1>3, <1>6, <2>1
<1> QED  BY <1>5, <1>6

LEMMA AuditRevertStep ==
  AuditInv /\ [Audit!Next]_shared => Audit!RevertRestoresStep /\ Audit!RevertTwiceIsOnceStep
<1> SUFFICES ASSUME AuditInv, [Audit!Next]_shared, NEW c \in Clients,
                    v3[c].pc = "revert", v3'[c].pc = "idle"
             PROVE  LET e == v3[c].entry IN
                    /\ /\ v5' = -e.id /\ v5 = e.id /\ e.seen = e.before
                       /\ Audit!Field(e.action, e.before) # Audit!Field(e.action, e.after)
                       => Audit!Field(e.action, v1') = Audit!Field(e.action, e.before)
                    /\ v5 = -e.id => Audit!Field(e.action, v1') = Audit!Field(e.action, v1)
  BY DEF Audit!RevertRestoresStep, Audit!RevertTwiceIsOnceStep
<1> DEFINE e == v3[c].entry
<1>1. Audit!ApplyRevert(c)
  BY AuditReversion
<1>2. /\ e \in Entries /\ e \in AuditEntries /\ Audit!Appliable(e) /\ Truthful(e) /\ e.id \in 1..v4
      /\ v3[c].seen \in Audit!RowType /\ v1 \in Audit!RowType
  BY AuditShapes DEF AuditInv, AuditTyped, Entries, UndoneInv, EntryInv, RevertRequests
<1>3. CASE Audit!Refused(e)
  <2>1. v1' = v1 /\ v5' = v5
    BY <1>1, <1>3 DEF Audit!ApplyRevert
  <2>2. v4 \in Nat /\ e.id \in 1..v4
    BY <1>2, PlaneAssumption DEF AuditInv, AuditTyped
  <2>3. ~(v5' = -e.id /\ v5 = e.id)
    BY <2>1, <2>2
  <2> QED  BY <2>1, <2>3
<1>4. CASE ~Audit!Refused(e)
  <2>1. v1' = Audit!Reverted(e, v3[c].seen)
    BY <1>1, <1>4 DEF Audit!ApplyRevert
  <2>2. v1' \in Audit!RowType /\ Undone(e, v1')
    BY <1>2, <1>4, <2>1, RevertUndoes
  <2>3. v5 = -e.id => Undone(e, v1)
    BY <1>2 DEF AuditInv, UndoneInv
  <2>4. v5 = -e.id => Audit!Field(e.action, v1') = Audit!Field(e.action, v1)
    BY <1>2, <2>2, <2>3, UndoneAgree
  <2>5. e.seen = e.before /\ Audit!Field(e.action, e.before) # Audit!Field(e.action, e.after)
          => Audit!Field(e.action, v1') = Audit!Field(e.action, e.before)
    BY <1>2, <2>2, UndoneRestores
  <2> QED  BY <2>4, <2>5
<1> QED  BY <1>3, <1>4

\* RevertHandlerHTTP.revert: a revert that meets nobody restores the column its
\* entry changed, and a second revert of an entry changes nothing more of it.
THEOREM AuditAlwaysReverts == PlaneSpec => AuditReverts
<1>1. AuditPlaneInv /\ [PlaneNext]_allVars =>
        (scenario = "audit" => Audit!RevertRestoresStep /\ Audit!RevertTwiceIsOnceStep)
  BY AuditRevertStep DEF AuditPlaneInv, PlaneNext, allVars, shared
<1> QED  BY <1>1, AuditAlways, PTL DEF PlaneSpec, AuditReverts
-----------------------------------------------------------------------------
(* The rollouts of a rule                                                   *)

Percents == 0..100
RuleRequests ==
  {[pc |-> "new"], [pc |-> "done"]}
  \cup [pc : {"search", "insert"}, steps : Snapshots, prev : Percents]
Phases == [pc : {"apply", "write", "watch"}, idx : Nat \ {0}, since : Nat, row : Nat]
Reverts == [pc : {"revert", "restore"}, since : Nat, row : Nat]
Drivers == {Idle, [pc |-> "activate"]} \cup Phases \cup Reverts
Undos == {Idle, [pc |-> "update"], [pc |-> "over"]} \cup Reverts

RuleTyped ==
  /\ rule \in Rows \cup {None}
  /\ req \in [Requests -> RuleRequests] /\ ro \in [Requests -> Rollouts \cup {None}]
  /\ drv \in [Requests -> Drivers] /\ undo \in [Requests -> Undos]
  /\ inbox \subseteq Requests /\ edits \in 0..MaxEdits
  /\ disturbed \subseteq Requests /\ failed \subseteq Failures /\ lost \subseteq 1..MaxEdits
  /\ rule # None => rule.rev <= edits

\* A rollout exists from the insert of its request on and is pending until its
\* driver activates it, drivers and reverts are of rollouts that exist, no row
\* that was read shows an edit still to come, and no rollout starts below the
\* percentage read for it (ErrStrategyMovesBackward).
Shape(q) ==
  /\ req[q].pc # "done" => ro[q] = None /\ drv[q] = Idle /\ undo[q] = Idle /\ q \notin inbox
  /\ q \in inbox => drv[q] = Idle
  /\ q \in inbox \/ drv[q] # Idle \/ undo[q] # Idle => ro[q] \in Rollouts
  /\ q \in inbox \/ drv[q].pc = "activate" => ro[q].status = "pending" /\ undo[q] = Idle
  /\ drv[q] \in Phases => drv[q].idx <= Len(ro[q].steps)
  /\ drv[q].pc \in {"write", "restore"} => drv[q].row <= edits
  /\ undo[q].pc = "restore" => undo[q].row <= edits
  /\ req[q].pc = "insert" => req[q].prev <= req[q].steps[1]
  /\ ro[q] # None => ro[q].prev <= ro[q].steps[1]

\* Nobody but q wrote the percentage since its request read it, and its
\* operator did not ask for a rollback.
Alone(q) == rule # None /\ q \notin disturbed /\ undo[q] = Idle

\* The percentage q started from, unless it could not be read.
StartsAt(q, p) == rule.pct = p \/ <<q, "read">> \in failed

\* The percentage then is the one q's request read, the step before the one
\* its driver is about to write, or the outcome.
Outcome(q) ==
  /\ req[q].pc \in {"search", "insert"} => StartsAt(q, req[q].prev)
  /\ q \in inbox \/ drv[q].pc = "activate" => StartsAt(q, ro[q].prev)
  /\ drv[q].pc \in {"apply", "write"} =>
       /\ ro[q].status \in Live
       /\ drv[q].idx = 1 => StartsAt(q, ro[q].prev)
       /\ drv[q].idx # 1 => rule.pct = ro[q].steps[drv[q].idx - 1]
  /\ drv[q].pc = "watch" => ro[q].status \in Live /\ rule.pct = ro[q].steps[drv[q].idx]
  /\ drv[q] \in Reverts => ro[q].status # "succeeded"
  /\ ro[q] # None /\ q \notin inbox /\ drv[q] = Idle =>
       /\ ro[q].status = "succeeded" => rule.pct = Last(ro[q].steps)
       /\ ro[q].status = "rolled_back" => rule.pct = ro[q].prev \/ <<q, "revert">> \in failed

\* What the row showed when a phase or a revert began and no write has taken
\* out, it still shows, and so does the row that was read since.
DriverNewer(q) ==
  /\ drv[q].pc \in {"apply", "revert"} /\ rule # None => Kept(drv[q].since, rule.rev)
  /\ drv[q].pc \in {"write", "restore"} => Kept(drv[q].since, drv[q].row)
UndoNewer(q) ==
  /\ undo[q].pc = "revert" /\ rule # None => Kept(undo[q].since, rule.rev)
  /\ undo[q].pc = "restore" => Kept(undo[q].since, undo[q].row)
Newer(q) == DriverNewer(q) /\ UndoNewer(q)

\* Two rollouts that are live, or about to be inserted, have something to blame.
Blamed(q, r) ==
  {q, r} \in overlap \/ <<q, "search">> \in failed \/ <<r, "search">> \in failed
LiveInv ==
  \A q, r \in Requests : q # r =>
    /\ q \in GetActiveByRule /\ r \in GetActiveByRule => Blamed(q, r)
    /\ q \in GetActiveByRule /\ req[r].pc = "insert" => Blamed(q, r)
    /\ req[q].pc = "insert" /\ req[r].pc = "insert" => {q, r} \in overlap

RuleInv ==
  /\ RuleTyped /\ LiveInv
  /\ \A q \in Requests : Shape(q) /\ (Alone(q) => Outcome(q)) /\ Newer(q)

\* A snapshot is a list of percentages and not empty, whatever was overridden.
LEMMA SnapshotSteps ==
  ASSUME NEW s \in Snapshots
  PROVE  s \in Seq(Percents) /\ Len(s) \in Nat \ {0} /\ \A i \in 1..Len(s) : s[i] \in Percents
<1>1. PICK t \in Strategies, o \in Overrides : s = BuildSnapshot(t, o)
  BY DEF Snapshots
<1>2. t \in Seq(Percents) /\ t # <<>>
  BY StrategiesAssumption DEF Percents
<1>3. CASE o = None \/ o.idx \notin DOMAIN t
  BY <1>1, <1>2, <1>3 DEF BuildSnapshot
<1>4. CASE ~(o = None \/ o.idx \notin DOMAIN t)
  <2>1. o.pct \in Percents /\ o.idx \in DOMAIN t
    BY <1>4, StrategiesAssumption DEF Percents
  <2>2. s = [t EXCEPT ![o.idx] = o.pct]
    BY <1>1, <1>4 DEF BuildSnapshot
  <2>3. s \in Seq(Percents) /\ Len(s) = Len(t)
    BY <1>2, <2>1, <2>2
  <2> QED  BY <1>2, <2>3
<1> QED  BY <1>3, <1>4

LEMMA RuleInitially == Init => RuleInv
<1> SUFFICES ASSUME Init PROVE RuleInv
  OBVIOUS
<1> USE StrategiesAssumption
<1>1. RuleTyped
  BY DEF Init, RuleTyped, Rows, RuleRequests, Drivers, Undos
<1>2. \A q \in Requests : /\ req[q].pc = "new" /\ ro[q] = None /\ drv[q] = Idle
                          /\ undo[q] = Idle /\ q \notin inbox
  BY DEF Init
<1>3. LiveInv
  BY <1>2 DEF LiveInv, GetActiveByRule
<1>4. ASSUME NEW q \in Requests PROVE Shape(q) /\ Outcome(q) /\ Newer(q)
  BY <1>2 DEF Shape, Outcome, Newer, DriverNewer, UndoNewer, Idle, Phases, Reverts
<1> QED  BY <1>1, <1>3, <1>4 DEF RuleInv

\* The shape of a driver and of a revert by its position.
LEMMA DriverShapes ==
  ASSUME NEW d \in Drivers
  PROVE  /\ d.pc \in {"apply", "write", "watch"} <=> d \in Phases
         /\ d.pc \in {"revert", "restore"} <=> d \in Reverts
         /\ d.pc = "idle" <=> d = Idle
         /\ d.pc \in {"idle", "activate", "apply", "write", "watch", "revert", "restore"}
BY DEF Drivers, Phases, Reverts, Idle

LEMMA UndoShapes ==
  ASSUME NEW u \in Undos
  PROVE  /\ u.pc \in {"revert", "restore"} <=> u \in Reverts
         /\ u.pc = "idle" <=> u = Idle
         /\ u.pc \in {"idle", "update", "revert", "restore", "over"}
BY DEF Undos, Reverts, Idle

\* A statement that fails is noted; nothing noted is forgotten.
LEMMA FailuresGrow ==
  ASSUME RuleTyped, NEW q \in Requests,
         NEW what \in {"read", "search", "status", "apply", "revert", "restore"},
         Fails(q, what) \/ UNCHANGED failed
  PROVE  failed \subseteq failed' /\ failed' \subseteq Failures
BY DEF RuleTyped, Fails, Failures

\* What the row shows is taken out of it only by a write that is known to.
Carried ==
  /\ lost \subseteq lost'
  /\ rule' # None => rule # None /\ \A e \in (1..rule.rev) \ lost' : e <= rule'.rev

LEMMA CarriedKept ==
  ASSUME RuleTyped, Carried, NEW s \in Nat
  PROVE  /\ \A r : Kept(s, r) => \A e \in (1..s) \ lost' : e <= r
         /\ rule' # None /\ (rule # None => Kept(s, rule.rev))
              => \A e \in (1..s) \ lost' : e <= rule'.rev
<1>1. \A r : Kept(s, r) => \A e \in (1..s) \ lost' : e <= r
  BY DEF Kept, Carried
<1>2. ASSUME rule' # None, rule # None, Kept(s, rule.rev)
      PROVE  \A e \in (1..s) \ lost' : e <= rule'.rev
  <2>1. \A e \in (1..s) \ lost' : e <= rule.rev /\ e \in 1..rule.rev
    BY <1>2 DEF Kept, RuleTyped, Rows, Carried
  <2> QED  BY <1>2, <2>1 DEF Carried
<1> QED  BY <1>1, <1>2 DEF Carried

LEMMA DriverKeeps ==
  ASSUME RuleTyped, NEW p \in Requests, DriverNewer(p), drv'[p] = drv[p], Carried
  PROVE  DriverNewer(p)'
<1>1. drv[p].pc \in {"apply", "write", "revert", "restore"} => drv[p].since \in Nat
  BY DriverShapes DEF RuleTyped, Phases, Reverts
<1> QED  BY <1>1, CarriedKept DEF DriverNewer, Kept, Carried

LEMMA UndoKeeps ==
  ASSUME RuleTyped, NEW p \in Requests, UndoNewer(p), undo'[p] = undo[p], Carried
  PROVE  UndoNewer(p)'
<1>1. undo[p].pc \in {"revert", "restore"} => undo[p].since \in Nat
  BY UndoShapes DEF RuleTyped, Reverts
<1> QED  BY <1>1, CarriedKept DEF UndoNewer, Kept, Carried

\* A write of the row: its revision, and what it takes out.
LEMMA RowWritten ==
  ASSUME RuleInv, rule # None, NEW q \in Requests, NEW pct \in Percents, NEW row \in Nat,
         row <= edits, edits' = edits, SqlUpdateRule(pct, row, q)
  PROVE  /\ rule' \in Rows /\ rule'.pct = pct /\ rule'.rev = row /\ rule'.rev <= edits
         /\ disturbed' = disturbed \cup (Requests \ {q})
         /\ lost' \subseteq 1..MaxEdits /\ Carried
<1> USE DEF RuleInv, RuleTyped
<1>1. /\ rule' = [pct |-> pct, rev |-> row] /\ disturbed' = disturbed \cup (Requests \ {q})
      /\ lost' = lost \cup ((row + 1)..rule.rev)
  BY DEF SqlUpdateRule
<1>2. edits \in 0..MaxEdits /\ rule.rev \in Nat /\ rule.rev <= edits /\ MaxEdits \in Nat
  BY StrategiesAssumption DEF Rows
<1>3. rule' \in Rows /\ rule'.pct = pct /\ rule'.rev = row
  BY <1>1, <1>2 DEF Rows, Percents
<1>4. lost' \subseteq 1..MaxEdits
  <2>1. \A e \in (row + 1)..rule.rev : e \in 1..MaxEdits
    BY <1>2
  <2> QED  BY <1>1, <2>1
<1>5. \A e \in (1..rule.rev) \ lost' : e <= row
  BY <1>1, <1>2
<1> QED  BY <1>1, <1>3, <1>4, <1>5 DEF Carried

\* What a request does not notice: the steps of others that leave the row
\* alone, or write it and are known to have.
LEMMA NotMine ==
  ASSUME RuleInv, NEW p \in Requests,
         req'[p] = req[p], ro'[p] = ro[p], drv'[p] = drv[p], undo'[p] = undo[p],
         p \in inbox' <=> p \in inbox, failed \subseteq failed', edits' \in {edits, edits + 1},
         Carried,
         \/ rule' = rule /\ (p \in disturbed' <=> p \in disturbed)
         \/ p \in disturbed'
         \/ rule' = None
  PROVE  Shape(p)' /\ (Alone(p) => Outcome(p))' /\ Newer(p)'
<1>1. Shape(p)'
  <2>1. /\ edits \in Nat /\ edits <= edits'
        /\ drv[p].pc \in {"write", "restore"} => drv[p].row \in Nat
        /\ undo[p].pc = "restore" => undo[p].row \in Nat
    BY DriverShapes, UndoShapes, StrategiesAssumption DEF RuleInv, RuleTyped, Phases, Reverts
  <2> QED  BY <2>1 DEF RuleInv, Shape
<1>2. (Alone(p) => Outcome(p))'
  BY DEF RuleInv, Alone, Outcome, StartsAt
<1>3. Newer(p)'
  BY DriverKeeps, UndoKeeps DEF RuleInv, Newer
<1> QED  BY <1>1, <1>2, <1>3

\* The row stays as it is.
LEMMA StaysCarried == RuleTyped /\ UNCHANGED <<rule, lost>> => Carried
BY DEF RuleTyped, Rows, Carried

\* LiveInv where no request comes closer to its insert and no rollout to life.
LEMMA LiveKeeps ==
  ASSUME RuleInv, overlap \subseteq overlap', failed \subseteq failed',
         \A q \in Requests : q \in GetActiveByRule' => q \in GetActiveByRule,
         \A q \in Requests : req'[q].pc = "insert" => req[q].pc = "insert"
  PROVE  LiveInv'
BY DEF RuleInv, LiveInv, Blamed

LEMMA StepUpdateRule ==
  ASSUME RuleInv, NEW q \in Requests, updateRule(q)
  PROVE  RuleInv'
<1> USE DEF RuleInv, RuleTyped
<1>1. /\ req[q].pc = "new" /\ disturbed' = disturbed \ {q}
      /\ UNCHANGED <<rule, ro, drv, undo, inbox, edits, overlap, lost>>
  BY DEF updateRule
<1>2. PICK r \in RuleRequests :
        /\ req' = [req EXCEPT ![q] = r] /\ r.pc \in {"search", "done"}
        /\ r.pc = "search" /\ rule # None => r.prev = rule.pct \/ <<q, "read">> \in failed'
        /\ failed \subseteq failed' /\ failed' \subseteq Failures
  <2>1. PreviousPercentage \in Percents /\ 0 \in Percents
        /\ (rule # None => PreviousPercentage = rule.pct)
    BY DEF PreviousPercentage, Rows, Percents
  <2>2. CASE req' = [req EXCEPT ![q] = [pc |-> "done"]] /\ UNCHANGED failed
    BY <2>2 DEF RuleRequests
  <2>3. ASSUME NEW s \in Snapshots, NEW prev \in {PreviousPercentage, 0},
               req' = [req EXCEPT ![q] = [pc |-> "search", steps |-> s, prev |-> prev]],
               IF prev = PreviousPercentage THEN UNCHANGED failed ELSE Fails(q, "read")
        PROVE  \E r \in RuleRequests :
                 /\ req' = [req EXCEPT ![q] = r] /\ r.pc \in {"search", "done"}
                 /\ r.pc = "search" /\ rule # None
                      => r.prev = rule.pct \/ <<q, "read">> \in failed'
                 /\ failed \subseteq failed' /\ failed' \subseteq Failures
    <3> DEFINE r == [pc |-> "search", steps |-> s, prev |-> prev]
    <3>1. r \in RuleRequests /\ r.pc = "search" /\ r.prev = prev
      BY <2>1 DEF RuleRequests
    <3>2. failed \subseteq failed' /\ failed' \subseteq Failures
      BY <2>3, FailuresGrow
    <3>3. prev = PreviousPercentage \/ <<q, "read">> \in failed'
      BY <2>3 DEF Fails
    <3> QED  BY <2>1, <2>3, <3>1, <3>2, <3>3
  <2> QED  BY <2>2, <2>3 DEF updateRule
<1>3. RuleTyped'
  BY <1>1, <1>2
<1>4. LiveInv'
  BY <1>1, <1>2, LiveKeeps DEF GetActiveByRule
<1>5. Shape(q)' /\ (Alone(q) => Outcome(q))' /\ Newer(q)'
  <2>1. /\ req'[q] = r /\ ro'[q] = None /\ drv'[q] = Idle /\ undo'[q] = Idle /\ q \notin inbox'
        /\ rule' = rule
    BY <1>1, <1>2 DEF Shape
  <2>2. Shape(q)'
    BY <1>2, <2>1 DEF Shape, Idle, Phases
  <2>3. (Alone(q) => Outcome(q))'
    BY <1>2, <2>1 DEF Alone, Outcome, StartsAt, Idle, Reverts
  <2>4. Newer(q)'
    BY <2>1 DEF Newer, DriverNewer, UndoNewer, Idle
  <2> QED  BY <2>2, <2>3, <2>4
<1>6. ASSUME NEW p \in Requests, p # q PROVE Shape(p)' /\ (Alone(p) => Outcome(p))' /\ Newer(p)'
  BY <1>1, <1>2, <1>6, StaysCarried, NotMine
<1> QED  BY <1>3, <1>4, <1>5, <1>6

LEMMA NotBelow == \A a, b \in Percents : ~(a < b) => b <= a
BY DEF Percents

LEMMA StepAttachConfig ==
  ASSUME RuleInv, NEW q \in Requests, AttachConfig(q)
  PROVE  RuleInv'
<1> USE DEF RuleInv, RuleTyped
<1>1. /\ req[q].pc = "search" /\ UNCHANGED <<rule, ro, drv, undo, inbox, edits, disturbed, lost>>
      /\ overlap \subseteq overlap'
  BY DEF AttachConfig
<1>2. PICK found \in {GetActiveByRule, {}} :
        /\ req' = [req EXCEPT ![q] =
             IF found # {} \/ MovesBackward(req[q].steps, req[q].prev) THEN [pc |-> "done"]
             ELSE [req[q] EXCEPT !.pc = "insert"]]
        /\ IF found = GetActiveByRule THEN UNCHANGED failed ELSE Fails(q, "search")
  BY DEF AttachConfig
<1>3. failed \subseteq failed' /\ failed' \subseteq Failures
  BY <1>2, FailuresGrow
<1>4. req[q] \in [pc : {"search", "insert"}, steps : Snapshots, prev : Percents]
  BY <1>1 DEF RuleRequests
<1>5. ASSUME NEW p \in Requests, p # q PROVE Shape(p)' /\ (Alone(p) => Outcome(p))' /\ Newer(p)'
  BY <1>1, <1>2, <1>3, <1>5, StaysCarried, NotMine
<1>6. CASE found # {} \/ MovesBackward(req[q].steps, req[q].prev)
  <2>1. req' = [req EXCEPT ![q] = [pc |-> "done"]]
    BY <1>2, <1>6
  <2>2. RuleTyped'
    BY <1>1, <1>3, <2>1 DEF RuleRequests
  <2>3. LiveInv'
    BY <1>1, <1>3, <2>1, LiveKeeps DEF GetActiveByRule
  <2>4. Shape(q)' /\ (Alone(q) => Outcome(q))' /\ Newer(q)'
    BY <1>1, <2>1 DEF Shape, Alone, Outcome, Newer, DriverNewer, UndoNewer, Idle, Phases,
       Reverts
  <2> QED  BY <1>5, <2>2, <2>3, <2>4
<1>7. CASE ~(found # {} \/ MovesBackward(req[q].steps, req[q].prev))
  <2> DEFINE r == [req[q] EXCEPT !.pc = "insert"]
  <2>1. req' = [req EXCEPT ![q] = r]
    BY <1>2, <1>7
  <2>2. r \in RuleRequests /\ r.pc = "insert" /\ r.steps = req[q].steps /\ r.prev = req[q].prev
    BY <1>4 DEF RuleRequests
  <2> HIDE DEF r
  <2>3. r.prev <= r.steps[1]
    <3>1. req[q].steps[1] \in Percents /\ req[q].prev \in Percents
      BY <1>4, SnapshotSteps
    <3>2. ~(req[q].steps[1] < req[q].prev)
      BY <1>7 DEF MovesBackward
    <3>3. req[q].prev <= req[q].steps[1]
      BY <3>1, <3>2, NotBelow
    <3> QED  BY <2>2, <3>3
  <2>4. RuleTyped'
    BY <1>1, <1>3, <2>1, <2>2
  <2>5. LiveInv'
    <3>1. GetActiveByRule' = GetActiveByRule
          /\ (GetActiveByRule = {} \/ <<q, "search">> \in failed')
      BY <1>1, <1>2, <1>7 DEF GetActiveByRule, Fails
    <3>2. req'[q].pc = "insert"
      BY <2>1, <2>2
    <3>3. overlap' = overlap \cup {{q, p} : p \in {x \in Requests \ {q} :
                                       req'[q].pc = "insert" /\ req[x].pc = "insert"}}
      BY DEF AttachConfig
    <3>4. \A p \in Requests : p # q /\ req[p].pc = "insert" => {q, p} \in overlap' /\ {p, q} \in overlap'
      BY <3>2, <3>3
    <3>5. ASSUME NEW p \in Requests, NEW s \in Requests, p # s,
                 req'[p].pc = "insert", req'[s].pc = "insert"
          PROVE  {p, s} \in overlap'
      <4>1. CASE p = q
        BY <2>1, <3>4, <3>5, <4>1
      <4>2. CASE s = q
        BY <2>1, <3>4, <3>5, <4>2
      <4>3. CASE p # q /\ s # q
        BY <1>1, <2>1, <3>5, <4>3 DEF LiveInv
      <4> QED  BY <4>1, <4>2, <4>3
    <3>6. ASSUME NEW p \in Requests, NEW s \in Requests, p # s, p \in GetActiveByRule
          PROVE  /\ s \in GetActiveByRule => Blamed(p, s)'
                 /\ req'[s].pc = "insert" => Blamed(p, s)'
      <4>1. Blamed(p, s) => Blamed(p, s)'
        BY <1>1, <1>3 DEF Blamed
      <4>2. s = q \/ req'[s] = req[s]
        BY <2>1
      <4> QED  BY <3>1, <3>6, <4>1, <4>2 DEF LiveInv, Blamed
    <3> QED  BY <3>1, <3>5, <3>6 DEF LiveInv
  <2>6. Shape(q)' /\ (Alone(q) => Outcome(q))' /\ Newer(q)'
    <3>1. /\ req'[q] = r /\ ro'[q] = None /\ drv'[q] = Idle /\ undo'[q] = Idle /\ q \notin inbox'
          /\ rule' = rule /\ disturbed' = disturbed /\ undo[q] = Idle
      BY <1>1, <2>1 DEF Shape
    <3>2. Shape(q)'
      BY <2>2, <2>3, <3>1 DEF Shape, Idle, Phases
    <3>3. (Alone(q) => Outcome(q))'
      BY <1>1, <1>3, <2>2, <3>1 DEF Alone, Outcome, StartsAt, Idle, Reverts
    <3>4. Newer(q)'
      BY <3>1 DEF Newer, DriverNewer, UndoNewer, Idle
    <3> QED  BY <3>2, <3>3, <3>4
  <2> QED  BY <1>5, <2>4, <2>5, <2>6
<1> QED  BY <1>6, <1>7

LEMMA StepCreate ==
  ASSUME RuleInv, NEW q \in Requests, Create(q)
  PROVE  RuleInv'
<1> USE DEF RuleInv, RuleTyped
<1> DEFINE r == [status |-> "pending", steps |-> req[q].steps, prev |-> req[q].prev]
<1>1. /\ req[q].pc = "insert" /\ req' = [req EXCEPT ![q] = [pc |-> "done"]]
      /\ ro' = [ro EXCEPT ![q] = r] /\ inbox' = inbox \cup {q}
      /\ UNCHANGED <<rule, drv, undo, edits, disturbed, overlap, failed, lost>>
  BY DEF Create
<1>2. req[q] \in [pc : {"search", "insert"}, steps : Snapshots, prev : Percents]
  BY <1>1 DEF RuleRequests
<1>3. r \in Rollouts /\ r.status = "pending" /\ r.steps = req[q].steps /\ r.prev = req[q].prev
  BY <1>2 DEF Rollouts, Live, Percents
<1> HIDE DEF r
<1>4. RuleTyped'
  BY <1>1, <1>3 DEF RuleRequests
<1>5. LiveInv'
  <2>1. \A p \in Requests : p \in GetActiveByRule' => p = q \/ p \in GetActiveByRule
    BY <1>1 DEF GetActiveByRule
  <2>2. \A p \in Requests : req'[p].pc = "insert" => p # q /\ req[p].pc = "insert"
    BY <1>1
  <2>3. \A p, s : Blamed(p, s)' <=> Blamed(p, s)
    BY <1>1 DEF Blamed
  <2>4. \A p, s : {p, s} = {s, p} /\ (Blamed(p, s) <=> Blamed(s, p))
    BY DEF Blamed
  <2>5. \A p, s : {p, s} \in overlap => Blamed(p, s)
    BY DEF Blamed
  <2> QED  BY <1>1, <2>1, <2>2, <2>3, <2>4, <2>5, ZenonT(60) DEF LiveInv
<1>6. Shape(q)' /\ (Alone(q) => Outcome(q))' /\ Newer(q)'
  <2>1. /\ req'[q] = [pc |-> "done"] /\ ro'[q] = r /\ q \in inbox'
        /\ drv[q] = Idle /\ undo[q] = Idle /\ drv'[q] = Idle /\ undo'[q] = Idle
    BY <1>1 DEF Shape
  <2>2. Shape(q)'
    BY <1>1, <1>3, <2>1 DEF Shape, Idle, Phases
  <2>3. (Alone(q) => Outcome(q))'
    <3>1. Alone(q)' => Alone(q) /\ (rule'.pct = ro'[q].prev \/ <<q, "read">> \in failed')
      BY <1>1, <1>3, <2>1 DEF Alone, Outcome, StartsAt
    <3>2. Idle \notin Reverts /\ Idle.pc = "idle"
      BY DEF Idle, Reverts
    <3> QED  BY <2>1, <3>1, <3>2 DEF Outcome, StartsAt
  <2>4. Newer(q)'
    BY <2>1 DEF Newer, DriverNewer, UndoNewer, Idle
  <2> QED  BY <2>2, <2>3, <2>4
<1>7. ASSUME NEW p \in Requests, p # q PROVE Shape(p)' /\ (Alone(p) => Outcome(p))' /\ Newer(p)'
  BY <1>1, <1>7, StaysCarried, NotMine
<1> QED  BY <1>4, <1>5, <1>6, <1>7

\* A step of q's driver, seen by itself: the other requests do not notice it,
\* and it makes nobody live but q, which was.
LEMMA DriverStep ==
  ASSUME RuleInv, NEW q \in Requests, NEW d \in Drivers, NEW o \in Rollouts \cup {None},
         drv' = [drv EXCEPT ![q] = d], ro' = [ro EXCEPT ![q] = o],
         inbox' \in {inbox, inbox \ {q}}, UNCHANGED <<req, undo, edits, overlap>>,
         failed \subseteq failed', failed' \subseteq Failures,
         \/ UNCHANGED <<rule, disturbed, lost>>
         \/ /\ disturbed' = disturbed \cup (Requests \ {q})
            /\ rule' \in Rows /\ rule'.rev <= edits
            /\ lost' \subseteq 1..MaxEdits /\ Carried,
         o # None /\ o.status \in Live => ro[q] # None /\ ro[q].status \in Live,
         Shape(q)' /\ (Alone(q) => Outcome(q))' /\ DriverNewer(q)'
  PROVE  RuleInv'
<1> USE DEF RuleInv, RuleTyped
<1>0. Carried
  BY StaysCarried
<1>1. RuleTyped'
  <2>1. /\ req' \in [Requests -> RuleRequests] /\ ro' \in [Requests -> Rollouts \cup {None}]
        /\ drv' \in [Requests -> Drivers] /\ undo' \in [Requests -> Undos]
        /\ inbox' \subseteq Requests /\ edits' \in 0..MaxEdits
    OBVIOUS
  <2>2. disturbed' \subseteq Requests /\ failed' \subseteq Failures /\ lost' \subseteq 1..MaxEdits
    OBVIOUS
  <2>3. rule' \in Rows \cup {None} /\ (rule' # None => rule'.rev <= edits')
    OBVIOUS
  <2> QED  BY <2>1, <2>2, <2>3
<1>2. LiveInv'
  <2>1. \A p \in Requests : p \in GetActiveByRule' => p \in GetActiveByRule
    BY DEF GetActiveByRule
  <2> QED  BY <2>1, LiveKeeps
<1>3. ASSUME NEW p \in Requests, p # q PROVE Shape(p)' /\ (Alone(p) => Outcome(p))' /\ Newer(p)'
  <2>1. /\ req'[p] = req[p] /\ ro'[p] = ro[p] /\ drv'[p] = drv[p] /\ undo'[p] = undo[p]
        /\ p \in inbox' <=> p \in inbox
    BY <1>3
  <2>2. \/ rule' = rule /\ (p \in disturbed' <=> p \in disturbed)
        \/ p \in disturbed'
    BY <1>3
  <2> QED  BY <1>0, <2>1, <2>2, NotMine
<1>4. UndoNewer(q)'
  BY <1>0, UndoKeeps DEF Newer
<1> QED  BY <1>1, <1>2, <1>3, <1>4 DEF Newer

\* The phases of a driver, and reverts.
LEMMA PhaseShape ==
  ASSUME NEW pc \in {"apply", "write", "watch"}, NEW idx \in Nat \ {0}, NEW since \in Nat,
         NEW row \in Nat
  PROVE  /\ Phase(pc, idx, since, row) \in Phases /\ Phase(pc, idx, since, row) \in Drivers
         /\ Phase(pc, idx, since, row) \notin Reverts /\ Phase(pc, idx, since, row) # Idle
         /\ Phase(pc, idx, since, row).pc = pc /\ Phase(pc, idx, since, row).idx = idx
         /\ Phase(pc, idx, since, row).since = since /\ Phase(pc, idx, since, row).row = row
BY DEF Phase, Phases, Drivers, Reverts, Idle

LEMMA RevertShape ==
  ASSUME NEW pc \in {"revert", "restore"}, NEW since \in Nat, NEW row \in Nat
  PROVE  /\ Reverting(pc, since, row) \in Reverts /\ Reverting(pc, since, row) \in Drivers
         /\ Reverting(pc, since, row) \in Undos /\ Reverting(pc, since, row) \notin Phases
         /\ Reverting(pc, since, row) # Idle /\ Reverting(pc, since, row).pc = pc
         /\ Reverting(pc, since, row).since = since /\ Reverting(pc, since, row).row = row
BY DEF Reverting, Reverts, Drivers, Undos, Phases, Idle

LEMMA IdleShape == /\ Idle \in Drivers /\ Idle \in Undos /\ Idle \notin Phases
                   /\ Idle \notin Reverts /\ Idle.pc = "idle"
BY DEF Idle, Drivers, Undos, Phases, Reverts

\* The rollout a driver works on, and the step it is at.
LEMMA Driven ==
  ASSUME RuleInv, NEW q \in Requests, drv[q] # Idle
  PROVE  /\ ro[q] \in Rollouts /\ ro[q] # None
         /\ ro[q].steps \in Seq(Percents) /\ Len(ro[q].steps) \in Nat \ {0}
         /\ \A i \in 1..Len(ro[q].steps) : ro[q].steps[i] \in Percents
         /\ ro[q].prev \in Percents /\ req[q].pc = "done" /\ q \notin inbox
         /\ drv[q] \in Phases => drv[q].idx \in 1..Len(ro[q].steps)
<1>1. ro[q] \in Rollouts /\ req[q].pc = "done" /\ q \notin inbox
  BY DEF RuleInv, RuleTyped, Shape, RuleRequests
<1>2. ro[q].steps \in Snapshots /\ ro[q].prev \in Percents
  BY <1>1 DEF Rollouts, Percents
<1>3. /\ ro[q].steps \in Seq(Percents) /\ Len(ro[q].steps) \in Nat \ {0}
      /\ \A i \in 1..Len(ro[q].steps) : ro[q].steps[i] \in Percents
  BY <1>2, SnapshotSteps
<1>4. drv[q] \in Phases => drv[q].idx \in 1..Len(ro[q].steps)
  BY <1>3 DEF RuleInv, Shape, Phases
<1> QED  BY <1>1, <1>2, <1>3, <1>4, PlaneAssumption

LEMMA RevIsNat ==
  RuleInv => rev \in Nat /\ (rule # None => rev = rule.rev /\ rule.rev \in Nat)
BY StrategiesAssumption DEF RuleInv, RuleTyped, Rows, rev

\* A phase or a revert begins with all the row shows.
LEMMA BeginsKept == RuleInv /\ rule # None => Kept(rev, rule.rev)
BY RevIsNat DEF Kept

\* The status of a rollout changed by its driver, if the change is stored.
LEMMA StatusChanges ==
  ASSUME RuleInv, NEW q \in Requests, ro[q] \in Rollouts,
         NEW s \in Live \cup {"succeeded", "rolled_back"}, UpdateRolloutStatus(q, s)
  PROVE  \E o \in Rollouts :
           /\ ro' = [ro EXCEPT ![q] = o] /\ o.steps = ro[q].steps /\ o.prev = ro[q].prev
           /\ o.status \in {s, ro[q].status}
           /\ failed \subseteq failed' /\ failed' \subseteq Failures
<1> USE DEF RuleInv, RuleTyped
<1>1. CASE ro' = [ro EXCEPT ![q].status = s] /\ UNCHANGED failed
  <2> DEFINE o == [ro[q] EXCEPT !.status = s]
  <2>1. o \in Rollouts /\ o.status = s /\ o.steps = ro[q].steps /\ o.prev = ro[q].prev
    BY DEF Rollouts
  <2>2. ro' = [ro EXCEPT ![q] = o]
    BY <1>1
  <2> QED  BY <1>1, <2>1, <2>2
<1>2. CASE Fails(q, "status") /\ UNCHANGED ro
  <2>1. failed \subseteq failed' /\ failed' \subseteq Failures
    BY <1>2, FailuresGrow
  <2>2. ro' = [ro EXCEPT ![q] = ro[q]]
    BY <1>2
  <2> QED  BY <2>1, <2>2
<1> QED  BY <1>1, <1>2 DEF UpdateRolloutStatus

LEMMA StepDrive ==
  ASSUME RuleInv, NEW q \in Requests, Drive(q)
  PROVE  RuleInv'
<1> USE DEF RuleInv, RuleTyped
<1> DEFINE d == [pc |-> "activate"]
<1>1. /\ q \in inbox /\ drv[q] = Idle /\ inbox' = inbox \ {q}
      /\ UNCHANGED <<rule, req, ro, undo, edits, disturbed, overlap, failed, lost>>
  BY DEF Drive
<1>2. /\ ro[q] \in Rollouts /\ ro' = [ro EXCEPT ![q] = ro[q]] /\ ro[q].status = "pending"
      /\ undo[q] = Idle
  BY <1>1 DEF Shape
<1>3. drv' = [drv EXCEPT ![q] = d]
  BY <1>2 DEF Drive, Live
<1>4. d \in Drivers /\ d \notin Phases /\ d \notin Reverts /\ d # Idle /\ d.pc = "activate"
  BY DEF Drivers, Idle, Phases, Reverts
<1> HIDE DEF d
<1>5. drv'[q] = d /\ q \notin inbox'
  BY <1>1, <1>3
<1>6. Shape(q)'
  BY <1>1, <1>2, <1>4, <1>5 DEF Shape
<1>7. (Alone(q) => Outcome(q))'
  BY <1>1, <1>2, <1>4, <1>5 DEF Alone, Outcome, StartsAt, Shape
<1>8. DriverNewer(q)'
  BY <1>1, <1>2, <1>4, <1>5 DEF DriverNewer
<1> QED  BY <1>1, <1>2, <1>3, <1>4, <1>6, <1>7, <1>8, DriverStep

LEMMA StepActivate ==
  ASSUME RuleInv, NEW q \in Requests, Activate(q)
  PROVE  RuleInv'
<1> USE DEF RuleInv, RuleTyped
<1> DEFINE d == Phase("apply", 1, rev, 0)
<1>1. /\ drv[q].pc = "activate" /\ drv' = [drv EXCEPT ![q] = d]
      /\ UNCHANGED <<rule, req, undo, inbox, edits, disturbed, overlap, lost>>
  BY DEF Activate
<1>2. /\ drv[q] # Idle /\ ro[q] \in Rollouts /\ ro[q] # None /\ ro[q].status = "pending"
      /\ undo[q] = Idle /\ req[q].pc = "done" /\ q \notin inbox /\ Len(ro[q].steps) \in Nat \ {0}
  BY <1>1, IdleShape, Driven DEF Shape
<1>3. PICK o \in Rollouts :
           /\ ro' = [ro EXCEPT ![q] = o] /\ o.steps = ro[q].steps /\ o.prev = ro[q].prev
           /\ o.status \in {"active", ro[q].status}
           /\ failed \subseteq failed' /\ failed' \subseteq Failures
  BY <1>2, StatusChanges DEF Activate, Live
<1>4. /\ d \in Phases /\ d \in Drivers /\ d \notin Reverts /\ d # Idle
      /\ d.pc = "apply" /\ d.idx = 1 /\ d.since = rev
  BY PhaseShape, RevIsNat
<1> HIDE DEF d
<1>5. drv'[q] = d /\ ro'[q] = o /\ o.status \in Live /\ ro[q].status \in Live
  BY <1>1, <1>2, <1>3 DEF Live
<1>6. Shape(q)'
  BY <1>1, <1>2, <1>3, <1>4, <1>5 DEF Shape
<1>7. (Alone(q) => Outcome(q))'
  BY <1>1, <1>2, <1>3, <1>4, <1>5 DEF Alone, Outcome, StartsAt
<1>8. DriverNewer(q)'
  BY <1>1, <1>4, <1>5, BeginsKept DEF DriverNewer, Kept
<1> QED  BY <1>1, <1>2, <1>3, <1>4, <1>5, <1>6, <1>7, <1>8, DriverStep

LEMMA StepApplyRead ==
  ASSUME RuleInv, NEW q \in Requests, ApplyRead(q)
  PROVE  RuleInv'
<1> USE DEF RuleInv, RuleTyped
<1>1. drv[q].pc = "apply" /\ UNCHANGED <<req, ro, undo, inbox, edits, overlap>>
  BY DEF ApplyRead
<1>2. /\ drv[q] # Idle /\ ro[q] \in Rollouts /\ ro[q] # None /\ drv[q] \in Phases
      /\ req[q].pc = "done" /\ q \notin inbox /\ drv[q].idx \in 1..Len(ro[q].steps)
  BY <1>1, Driven, DriverShapes, IdleShape
<1>3. ro' = [ro EXCEPT ![q] = ro[q]]
  BY <1>1
<1>4. CASE RuleFails(q, "apply") /\ drv' = [drv EXCEPT ![q] = Idle]
  <2>1. /\ UNCHANGED <<rule, disturbed, lost>> /\ failed \subseteq failed' /\ failed' \subseteq Failures
        /\ drv'[q] = Idle
    BY <1>4, FailuresGrow DEF RuleFails
  <2>2. Shape(q)'
    BY <1>1, <1>2, <2>1, IdleShape DEF Shape
  <2>3. (Alone(q) => Outcome(q))'
    BY <1>1, <1>2, <2>1, IdleShape DEF Alone, Outcome, Live
  <2>4. DriverNewer(q)'
    BY <2>1, IdleShape DEF DriverNewer
  <2> QED  BY <1>1, <1>2, <1>3, <1>4, <2>1, <2>2, <2>3, <2>4, IdleShape, DriverStep
<1>5. CASE ~(RuleFails(q, "apply") /\ drv' = [drv EXCEPT ![q] = Idle])
  <2> DEFINE d == Phase("write", drv[q].idx, drv[q].since, rule.rev)
  <2>1. /\ rule # None /\ drv' = [drv EXCEPT ![q] = d]
        /\ UNCHANGED <<rule, disturbed, lost, failed>>
    BY <1>5 DEF ApplyRead
  <2>2. /\ d \in Phases /\ d \in Drivers /\ d \notin Reverts /\ d # Idle /\ d.pc = "write"
        /\ d.idx = drv[q].idx /\ d.since = drv[q].since /\ d.row = rule.rev
    <3>1. drv[q].idx \in Nat \ {0} /\ drv[q].since \in Nat
      BY <1>2 DEF Phases
    <3>2. rule.rev \in Nat
      BY <2>1 DEF Rows
    <3> QED  BY <3>1, <3>2, PhaseShape
  <2> HIDE DEF d
  <2>3. drv'[q] = d
    BY <2>1
  <2>4. Shape(q)'
    BY <1>1, <1>2, <2>1, <2>2, <2>3 DEF Shape
  <2>5. (Alone(q) => Outcome(q))'
    BY <1>1, <1>2, <2>1, <2>2, <2>3 DEF Alone, Outcome, StartsAt
  <2>6. DriverNewer(q)'
    BY <1>1, <2>1, <2>2, <2>3 DEF Newer, DriverNewer, Kept
  <2> QED  BY <1>1, <1>2, <1>3, <2>1, <2>2, <2>4, <2>5, <2>6, DriverStep
<1> QED  BY <1>4, <1>5

LEMMA StepApplyWrite ==
  ASSUME RuleInv, NEW q \in Requests, ApplyWrite(q)
  PROVE  /\ RuleInv'
         /\ drv'[q].pc = "watch" =>
              rule # None /\ rule'.pct = ro[q].steps[drv[q].idx] /\ rule'.rev = drv[q].row
<1> USE DEF RuleInv, RuleTyped
<1>1. drv[q].pc = "write" /\ UNCHANGED <<req, ro, undo, inbox, edits, overlap>>
  BY DEF ApplyWrite
<1>2. /\ drv[q] # Idle /\ ro[q] \in Rollouts /\ ro[q] # None /\ drv[q] \in Phases
      /\ req[q].pc = "done" /\ q \notin inbox
      /\ drv[q].idx \in 1..Len(ro[q].steps) /\ ro[q].steps[drv[q].idx] \in Percents
  BY <1>1, Driven, DriverShapes, IdleShape
<1>3. ro' = [ro EXCEPT ![q] = ro[q]]
  BY <1>1
<1>4. drv[q].row \in Nat /\ drv[q].row <= edits
  BY <1>1, <1>2 DEF Shape, Phases
<1>5. CASE RuleFails(q, "apply") /\ drv' = [drv EXCEPT ![q] = Idle]
  <2>1. /\ UNCHANGED <<rule, disturbed, lost>> /\ failed \subseteq failed' /\ failed' \subseteq Failures
        /\ drv'[q] = Idle
    BY <1>5, FailuresGrow DEF RuleFails
  <2>2. Shape(q)'
    BY <1>1, <1>2, <2>1, IdleShape DEF Shape
  <2>3. (Alone(q) => Outcome(q))'
    BY <1>1, <1>2, <2>1, IdleShape DEF Alone, Outcome, Live
  <2>4. DriverNewer(q)'
    BY <2>1, IdleShape DEF DriverNewer
  <2>5. drv'[q].pc # "watch"
    BY <2>1, IdleShape
  <2> QED  BY <1>1, <1>2, <1>3, <1>5, <2>1, <2>2, <2>3, <2>4, <2>5, IdleShape, DriverStep
<1>6. CASE ~(RuleFails(q, "apply") /\ drv' = [drv EXCEPT ![q] = Idle])
  <2> DEFINE pct == ro[q].steps[drv[q].idx]
             d == Phase("watch", drv[q].idx, 0, 0)
  <2>1. /\ rule # None /\ SqlUpdateRule(pct, drv[q].row, q) /\ UNCHANGED failed
        /\ drv' = [drv EXCEPT ![q] = d]
    BY <1>6 DEF ApplyWrite
  <2>2. /\ rule' \in Rows /\ rule'.pct = pct /\ rule'.rev = drv[q].row /\ rule'.rev <= edits
        /\ disturbed' = disturbed \cup (Requests \ {q})
        /\ lost' \subseteq 1..MaxEdits /\ Carried
    BY <1>1, <1>2, <1>4, <2>1, RowWritten
  <2>3. /\ d \in Phases /\ d \in Drivers /\ d \notin Reverts /\ d # Idle /\ d.pc = "watch"
        /\ d.idx = drv[q].idx
    BY <1>2, PhaseShape
  <2> HIDE DEF d, pct
  <2>4. drv'[q] = d /\ (q \in disturbed' <=> q \in disturbed)
    BY <2>1, <2>2
  <2>5. Shape(q)'
    BY <1>1, <1>2, <2>3, <2>4 DEF Shape
  <2>6. (Alone(q) => Outcome(q))'
    BY <1>1, <1>2, <2>1, <2>2, <2>3, <2>4 DEF Alone, Outcome, pct
  <2>7. DriverNewer(q)'
    BY <2>3, <2>4 DEF DriverNewer
  <2> QED  BY <1>1, <1>2, <1>3, <2>1, <2>2, <2>3, <2>4, <2>5, <2>6, <2>7, DriverStep DEF pct
<1> QED  BY <1>5, <1>6

LEMMA StepPhasePassed ==
  ASSUME RuleInv, NEW q \in Requests, PhasePassed(q)
  PROVE  RuleInv'
<1> USE DEF RuleInv, RuleTyped
<1>1. drv[q].pc = "watch" /\ UNCHANGED <<rule, req, undo, inbox, edits, disturbed, overlap, lost>>
  BY DEF PhasePassed
<1>2. /\ drv[q] # Idle /\ ro[q] \in Rollouts /\ ro[q] # None /\ drv[q] \in Phases
      /\ req[q].pc = "done" /\ q \notin inbox
      /\ drv[q].idx \in 1..Len(ro[q].steps) /\ Len(ro[q].steps) \in Nat \ {0}
  BY <1>1, Driven, DriverShapes, IdleShape
<1>3. CASE drv[q].idx < Len(ro[q].steps)
  <2> DEFINE d == Phase("apply", drv[q].idx + 1, rev, 0)
  <2>1. /\ drv' = [drv EXCEPT ![q] = d] /\ ro' = [ro EXCEPT ![q] = ro[q]] /\ ro' = ro
        /\ UNCHANGED failed
    BY <1>3 DEF PhasePassed
  <2>2. /\ d \in Phases /\ d \in Drivers /\ d \notin Reverts /\ d # Idle /\ d.pc = "apply"
        /\ d.idx = drv[q].idx + 1 /\ d.since = rev
    <3>1. drv[q].idx + 1 \in Nat \ {0} /\ rev \in Nat /\ 0 \in Nat /\ "apply" \in {"apply", "write", "watch"}
      BY <1>2, RevIsNat
    <3> QED  BY <3>1, PhaseShape
  <2> HIDE DEF d
  <2>3. drv'[q] = d
    BY <2>1
  <2>4. Shape(q)'
    BY <1>1, <1>2, <1>3, <2>1, <2>2, <2>3 DEF Shape
  <2>5. (Alone(q) => Outcome(q))'
    <3>1. d.idx # 1 /\ d.idx - 1 = drv[q].idx
      BY <1>2, <2>2
    <3> QED  BY <1>1, <1>2, <2>1, <2>2, <2>3, <3>1 DEF Alone, Outcome
  <2>6. DriverNewer(q)'
    BY <1>1, <2>2, <2>3, BeginsKept DEF DriverNewer, Kept
  <2> QED  BY <1>1, <1>2, <2>1, <2>2, <2>4, <2>5, <2>6, DriverStep
<1>4. CASE ~(drv[q].idx < Len(ro[q].steps))
  <2>1. PICK o \in Rollouts :
           /\ ro' = [ro EXCEPT ![q] = o] /\ o.steps = ro[q].steps /\ o.prev = ro[q].prev
           /\ o.status \in {"succeeded", ro[q].status}
           /\ failed \subseteq failed' /\ failed' \subseteq Failures
    BY <1>2, <1>4, StatusChanges DEF PhasePassed
  <2>2. drv' = [drv EXCEPT ![q] = Idle]
    BY <1>4 DEF PhasePassed
  <2>3. drv'[q] = Idle /\ ro'[q] = o /\ drv[q].idx = Len(ro[q].steps)
    BY <1>2, <1>4, <2>1, <2>2
  <2>4. Shape(q)'
    BY <1>1, <1>2, <2>1, <2>3, IdleShape DEF Shape
  <2>5. (Alone(q) => Outcome(q))'
    BY <1>1, <1>2, <2>1, <2>3, IdleShape DEF Alone, Outcome, Live, Last
  <2>6. DriverNewer(q)'
    BY <2>3, IdleShape DEF DriverNewer
  <2>7. o.status \in Live => ro[q].status \in Live
    BY <2>1 DEF Live
  <2> QED  BY <1>1, <1>2, <2>1, <2>2, <2>4, <2>5, <2>6, <2>7, IdleShape, DriverStep
<1> QED  BY <1>3, <1>4

LEMMA StepEngineRollback ==
  ASSUME RuleInv, NEW q \in Requests, EngineRollback(q)
  PROVE  RuleInv'
<1> USE DEF RuleInv, RuleTyped
<1> DEFINE d == Reverting("revert", rev, 0)
<1>1. /\ drv[q].pc = "watch" /\ drv' = [drv EXCEPT ![q] = d]
      /\ UNCHANGED <<rule, req, undo, inbox, edits, disturbed, overlap, lost>>
  BY DEF EngineRollback
<1>2. /\ drv[q] # Idle /\ ro[q] \in Rollouts /\ ro[q] # None
      /\ req[q].pc = "done" /\ q \notin inbox
  BY <1>1, Driven, IdleShape
<1>3. PICK o \in Rollouts :
           /\ ro' = [ro EXCEPT ![q] = o] /\ o.steps = ro[q].steps /\ o.prev = ro[q].prev
           /\ o.status \in {"rolled_back", ro[q].status}
           /\ failed \subseteq failed' /\ failed' \subseteq Failures
  BY <1>2, StatusChanges DEF EngineRollback
<1>4. /\ d \in Drivers /\ d \in Reverts /\ d \notin Phases /\ d # Idle /\ d.pc = "revert"
      /\ d.since = rev
  BY RevIsNat, RevertShape
<1> HIDE DEF d
<1>5. drv'[q] = d /\ ro'[q] = o
  BY <1>1, <1>3
<1>6. Shape(q)'
  BY <1>1, <1>2, <1>3, <1>4, <1>5 DEF Shape
<1>7. (Alone(q) => Outcome(q))'
  BY <1>1, <1>2, <1>3, <1>4, <1>5 DEF Alone, Outcome, Live
<1>8. DriverNewer(q)'
  BY <1>1, <1>4, <1>5, BeginsKept DEF DriverNewer, Kept
<1>9. o.status \in Live => ro[q].status \in Live
  BY <1>3 DEF Live
<1> QED  BY <1>1, <1>2, <1>3, <1>4, <1>6, <1>7, <1>8, <1>9, DriverStep

LEMMA StepEngineReverts ==
  ASSUME RuleInv, NEW q \in Requests, EngineReverts(q)
  PROVE  RuleInv'
<1> USE DEF RuleInv, RuleTyped
<1>1. drv[q].pc = "revert" /\ UNCHANGED <<req, ro, undo, inbox, edits, overlap>>
  BY DEF EngineReverts
<1>2. /\ drv[q] # Idle /\ ro[q] \in Rollouts /\ ro[q] # None /\ drv[q] \in Reverts
      /\ req[q].pc = "done" /\ q \notin inbox /\ ro' = [ro EXCEPT ![q] = ro[q]]
  BY <1>1, Driven, DriverShapes, IdleShape
<1>3. CASE RuleFails(q, "revert") /\ drv' = [drv EXCEPT ![q] = Idle]
  <2>1. /\ UNCHANGED <<rule, disturbed, lost>> /\ failed \subseteq failed' /\ failed' \subseteq Failures
        /\ rule = None \/ <<q, "revert">> \in failed'
    BY <1>3, FailuresGrow DEF RuleFails, Fails
  <2>2. drv'[q] = Idle
    BY <1>3
  <2>3. Shape(q)'
    BY <1>1, <1>2, <2>1, <2>2, IdleShape DEF Shape
  <2>4. (Alone(q) => Outcome(q))'
    BY <1>1, <1>2, <2>1, <2>2, IdleShape DEF Alone, Outcome
  <2>5. DriverNewer(q)'
    BY <2>2, IdleShape DEF DriverNewer
  <2> QED  BY <1>1, <1>2, <1>3, <2>1, <2>3, <2>4, <2>5, IdleShape, DriverStep
<1>4. CASE ~(RuleFails(q, "revert") /\ drv' = [drv EXCEPT ![q] = Idle])
  <2> DEFINE d == Reverting("restore", drv[q].since, rule.rev)
  <2>1. /\ rule # None /\ drv' = [drv EXCEPT ![q] = d]
        /\ UNCHANGED <<rule, disturbed, lost, failed>>
    BY <1>4 DEF EngineReverts
  <2>2. /\ d \in Drivers /\ d \in Reverts /\ d \notin Phases /\ d # Idle /\ d.pc = "restore"
        /\ d.since = drv[q].since /\ d.row = rule.rev
    <3>1. drv[q].since \in Nat /\ rule.rev \in Nat
      BY <1>2, <2>1 DEF Reverts, Rows
    <3> QED  BY <3>1, RevertShape
  <2> HIDE DEF d
  <2>3. drv'[q] = d
    BY <2>1
  <2>4. Shape(q)'
    BY <1>1, <1>2, <2>1, <2>2, <2>3 DEF Shape
  <2>5. (Alone(q) => Outcome(q))'
    BY <1>1, <1>2, <2>1, <2>2, <2>3 DEF Alone, Outcome
  <2>6. DriverNewer(q)'
    BY <1>1, <2>1, <2>2, <2>3 DEF Newer, DriverNewer, Kept
  <2> QED  BY <1>1, <1>2, <2>1, <2>2, <2>4, <2>5, <2>6, DriverStep
<1> QED  BY <1>3, <1>4

\* Restore, by the driver or for the operator.
LEMMA Restores ==
  ASSUME RuleInv, NEW q \in Requests, ro[q] \in Rollouts, NEW row \in Nat, row <= edits,
         edits' = edits, Restore(q, row)
  PROVE  /\ rule # None /\ UNCHANGED failed
         /\ rule' \in Rows /\ rule'.pct = ro[q].prev /\ rule'.rev = row /\ rule'.rev <= edits
         /\ disturbed' = disturbed \cup (Requests \ {q})
         /\ lost' \subseteq 1..MaxEdits /\ Carried
<1>1. ro[q].prev \in Percents
  BY DEF Rollouts, Percents
<1> QED  BY <1>1, RowWritten DEF Restore

LEMMA StepEngineRestores ==
  ASSUME RuleInv, NEW q \in Requests, EngineRestores(q)
  PROVE  /\ RuleInv'
         /\ rule' # rule => rule'.rev = drv[q].row
<1> USE DEF RuleInv, RuleTyped
<1>1. /\ drv[q].pc = "restore" /\ drv' = [drv EXCEPT ![q] = Idle] /\ drv'[q] = Idle
      /\ UNCHANGED <<req, ro, undo, inbox, edits, overlap>>
  BY DEF EngineRestores
<1>2. /\ drv[q] # Idle /\ ro[q] \in Rollouts /\ ro[q] # None /\ drv[q] \in Reverts
      /\ req[q].pc = "done" /\ q \notin inbox /\ ro' = [ro EXCEPT ![q] = ro[q]]
  BY <1>1, Driven, DriverShapes, IdleShape
<1>3. drv[q].row \in Nat /\ drv[q].row <= edits
  BY <1>1, <1>2 DEF Shape, Reverts
<1>4. Shape(q)'
  BY <1>1, <1>2, IdleShape DEF Shape
<1>5. DriverNewer(q)'
  BY <1>1, IdleShape DEF DriverNewer
<1>6. CASE RuleFails(q, "revert")
  <2>1. /\ UNCHANGED <<rule, disturbed, lost>> /\ failed \subseteq failed' /\ failed' \subseteq Failures
        /\ rule = None \/ <<q, "revert">> \in failed'
    BY <1>6, FailuresGrow DEF RuleFails, Fails
  <2>2. (Alone(q) => Outcome(q))'
    BY <1>1, <1>2, <2>1, IdleShape DEF Alone, Outcome
  <2> QED  BY <1>1, <1>2, <1>4, <1>5, <2>1, <2>2, IdleShape, DriverStep
<1>7. CASE Restore(q, drv[q].row)
  <2>1. /\ rule # None /\ UNCHANGED failed
        /\ rule' \in Rows /\ rule'.pct = ro[q].prev /\ rule'.rev = drv[q].row /\ rule'.rev <= edits
        /\ disturbed' = disturbed \cup (Requests \ {q})
        /\ lost' \subseteq 1..MaxEdits /\ Carried
    BY <1>1, <1>2, <1>3, <1>7, Restores
  <2>2. (Alone(q) => Outcome(q))'
    <3>1. Alone(q)' => Alone(q)
      BY <1>1, <2>1 DEF Alone
    <3>2. drv[q] \in Reverts => ro[q].status # "succeeded" \/ ~Alone(q)
      BY DEF Outcome
    <3> QED  BY <1>1, <1>2, <2>1, <3>1, <3>2, IdleShape DEF Outcome
  <2> QED  BY <1>1, <1>2, <1>4, <1>5, <2>1, <2>2, IdleShape, DriverStep
<1> QED  BY <1>6, <1>7 DEF EngineRestores

-----------------------------------------------------------------------------
\* The operator's steps: nobody calls q's rollout its own any more.
LEMMA UndoStep ==
  ASSUME RuleInv, NEW q \in Requests, undo[q].pc \in {"update", "revert", "restore"},
         NEW u \in Undos, u # Idle,
         undo' = [undo EXCEPT ![q] = u], NEW o \in Rollouts, ro' = [ro EXCEPT ![q] = o],
         o.status \in {"rolled_back", ro[q].status}, o.steps = ro[q].steps, o.prev = ro[q].prev,
         UNCHANGED <<req, drv, inbox, edits, overlap>>,
         failed \subseteq failed', failed' \subseteq Failures,
         \/ UNCHANGED <<rule, disturbed, lost>>
         \/ /\ disturbed' = disturbed \cup (Requests \ {q})
            /\ rule' \in Rows /\ rule'.rev <= edits
            /\ lost' \subseteq 1..MaxEdits /\ Carried,
         u.pc = "restore" => u.row <= edits, UndoNewer(q)'
  PROVE  RuleInv'
<1> USE DEF RuleInv, RuleTyped
<1>1. Carried
  BY StaysCarried
<1>2. RuleTyped'
  <2>1. /\ req' \in [Requests -> RuleRequests] /\ ro' \in [Requests -> Rollouts \cup {None}]
        /\ drv' \in [Requests -> Drivers] /\ undo' \in [Requests -> Undos]
        /\ inbox' \subseteq Requests /\ edits' \in 0..MaxEdits
    OBVIOUS
  <2>2. disturbed' \subseteq Requests /\ failed' \subseteq Failures /\ lost' \subseteq 1..MaxEdits
    OBVIOUS
  <2>3. rule' \in Rows \cup {None} /\ (rule' # None => rule'.rev <= edits')
    OBVIOUS
  <2> QED  BY <2>1, <2>2, <2>3
<1>3. undo[q] # Idle /\ ro[q] \in Rollouts /\ ro[q] # None /\ req[q].pc = "done" /\ q \notin inbox
      /\ drv[q].pc # "activate"
  <2>1. undo[q] # Idle
    BY IdleShape
  <2> QED  BY <2>1, PlaneAssumption DEF Shape, RuleRequests
<1>4. LiveInv'
  <2>1. \A p \in Requests : p \in GetActiveByRule' => p \in GetActiveByRule
    BY <1>3 DEF GetActiveByRule, Live
  <2> QED  BY <2>1, LiveKeeps
<1>5. ASSUME NEW p \in Requests, p # q PROVE Shape(p)' /\ (Alone(p) => Outcome(p))' /\ Newer(p)'
  <2>1. /\ req'[p] = req[p] /\ ro'[p] = ro[p] /\ drv'[p] = drv[p] /\ undo'[p] = undo[p]
    BY <1>5
  <2>2. \/ rule' = rule /\ (p \in disturbed' <=> p \in disturbed)
        \/ p \in disturbed'
    BY <1>5
  <2> QED  BY <1>1, <2>1, <2>2, NotMine
<1>6. ro'[q] = o /\ undo'[q] = u
  OBVIOUS
<1>7. Shape(q)'
  BY <1>3, <1>6 DEF Shape
<1>8. (Alone(q) => Outcome(q))' /\ Newer(q)'
  BY <1>1, <1>6, DriverKeeps DEF Alone, Newer
<1> QED  BY <1>2, <1>4, <1>5, <1>7, <1>8

LEMMA StepRollback ==
  ASSUME RuleInv, NEW q \in Requests, Rollback(q)
  PROVE  RuleInv'
<1> USE DEF RuleInv, RuleTyped
<1>1. /\ ro[q] # None /\ undo[q] = Idle /\ undo' = [undo EXCEPT ![q] = [pc |-> "update"]]
      /\ ro[q].status = "active"
      /\ UNCHANGED <<rule, req, ro, drv, inbox, edits, disturbed, overlap, failed, lost>>
  BY DEF Rollback
<1>2. ro[q] \in Rollouts /\ req[q].pc = "done" /\ q \notin inbox /\ drv[q].pc # "activate"
  BY <1>1 DEF Shape, RuleRequests
<1>3. undo'[q] = [pc |-> "update"] /\ undo'[q] # Idle /\ [pc |-> "update"] \in Undos
  BY <1>1 DEF Idle, Undos
<1>4. RuleTyped'
  BY <1>1, <1>3
<1>5. LiveInv'
  BY <1>1, LiveKeeps DEF GetActiveByRule
<1>6. Shape(q)'
  BY <1>1, <1>2, <1>3 DEF Shape
<1>7. (Alone(q) => Outcome(q))' /\ Newer(q)'
  BY <1>1, <1>3, StaysCarried, DriverKeeps DEF Alone, Newer, UndoNewer
<1>8. ASSUME NEW p \in Requests, p # q PROVE Shape(p)' /\ (Alone(p) => Outcome(p))' /\ Newer(p)'
  BY <1>1, <1>8, StaysCarried, NotMine
<1> QED  BY <1>4, <1>5, <1>6, <1>7, <1>8

LEMMA OverShape == /\ [pc |-> "over"] \in Undos /\ [pc |-> "over"] # Idle
                   /\ [pc |-> "over"].pc = "over"
BY DEF Undos, Idle

LEMMA StepTransition ==
  ASSUME RuleInv, NEW q \in Requests, Transition(q)
  PROVE  RuleInv'
<1> USE DEF RuleInv, RuleTyped
<1>1. /\ undo[q].pc = "update"
      /\ UNCHANGED <<rule, req, drv, inbox, edits, disturbed, overlap, lost>>
  BY DEF Transition
<1>2. ro[q] \in Rollouts
  BY <1>1, IdleShape DEF Shape
<1>3. CASE /\ Fails(q, "status") /\ undo' = [undo EXCEPT ![q] = [pc |-> "over"]]
           /\ UNCHANGED ro
  <2>1. failed \subseteq failed' /\ failed' \subseteq Failures
    BY <1>3, FailuresGrow
  <2>2. ro' = [ro EXCEPT ![q] = ro[q]] /\ undo'[q] = [pc |-> "over"]
    BY <1>3
  <2>3. UndoNewer(q)'
    BY <2>2 DEF UndoNewer
  <2> QED  BY <1>1, <1>2, <1>3, <2>1, <2>2, <2>3, OverShape, UndoStep
<1>4. CASE /\ undo' = [undo EXCEPT ![q] = Reverting("revert", rev, 0)]
           /\ ro' = [ro EXCEPT ![q].status = "rolled_back"] /\ UNCHANGED failed
  <2> DEFINE u == Reverting("revert", rev, 0)
             o == [ro[q] EXCEPT !.status = "rolled_back"]
  <2>1. /\ u \in Undos /\ u # Idle /\ u.pc = "revert" /\ u.since = rev
    BY RevIsNat, RevertShape
  <2>2. /\ o \in Rollouts /\ o.status = "rolled_back" /\ o.steps = ro[q].steps
        /\ o.prev = ro[q].prev
    BY <1>2 DEF Rollouts
  <2>3. undo' = [undo EXCEPT ![q] = u] /\ ro' = [ro EXCEPT ![q] = o]
    BY <1>4
  <2> HIDE DEF u, o
  <2>4. undo'[q] = u
    BY <2>3
  <2>5. UndoNewer(q)'
    BY <1>1, <2>1, <2>4, BeginsKept DEF UndoNewer, Kept
  <2> QED  BY <1>1, <1>4, <2>1, <2>2, <2>3, <2>5, UndoStep
<1> QED  BY <1>3, <1>4 DEF Transition

LEMMA StepOperatorReverts ==
  ASSUME RuleInv, NEW q \in Requests, OperatorReverts(q)
  PROVE  RuleInv'
<1> USE DEF RuleInv, RuleTyped
<1>1. undo[q].pc = "revert" /\ UNCHANGED <<req, ro, drv, inbox, edits, overlap>>
  BY DEF OperatorReverts
<1>2. ro[q] \in Rollouts /\ ro' = [ro EXCEPT ![q] = ro[q]] /\ undo[q] \in Reverts
  BY <1>1, IdleShape, UndoShapes DEF Shape
<1>3. CASE RuleFails(q, "restore") /\ undo' = [undo EXCEPT ![q] = [pc |-> "over"]]
  <2>1. /\ UNCHANGED <<rule, disturbed, lost>> /\ failed \subseteq failed' /\ failed' \subseteq Failures
        /\ undo'[q] = [pc |-> "over"]
    BY <1>3, FailuresGrow DEF RuleFails
  <2>2. UndoNewer(q)'
    BY <2>1 DEF UndoNewer
  <2> QED  BY <1>1, <1>2, <1>3, <2>1, <2>2, OverShape, UndoStep
<1>4. CASE ~(RuleFails(q, "restore") /\ undo' = [undo EXCEPT ![q] = [pc |-> "over"]])
  <2> DEFINE u == Reverting("restore", undo[q].since, rule.rev)
  <2>1. /\ rule # None /\ undo' = [undo EXCEPT ![q] = u]
        /\ UNCHANGED <<rule, disturbed, lost, failed>>
    BY <1>4 DEF OperatorReverts
  <2>2. /\ u \in Undos /\ u # Idle /\ u.pc = "restore" /\ u.since = undo[q].since
        /\ u.row = rule.rev
    <3>1. undo[q].since \in Nat /\ rule.rev \in Nat
      BY <1>2, <2>1 DEF Reverts, Rows
    <3> QED  BY <3>1, RevertShape
  <2> HIDE DEF u
  <2>3. undo'[q] = u
    BY <2>1
  <2>4. UndoNewer(q)'
    BY <1>1, <2>1, <2>2, <2>3 DEF Newer, UndoNewer, Kept
  <2> QED  BY <1>1, <1>2, <2>1, <2>2, <2>4, UndoStep
<1> QED  BY <1>3, <1>4

LEMMA StepOperatorRestores ==
  ASSUME RuleInv, NEW q \in Requests, OperatorRestores(q)
  PROVE  /\ RuleInv'
         /\ rule' # rule => rule'.rev = undo[q].row
<1> USE DEF RuleInv, RuleTyped
<1>1. /\ undo[q].pc = "restore" /\ undo' = [undo EXCEPT ![q] = [pc |-> "over"]]
      /\ undo'[q] = [pc |-> "over"] /\ UNCHANGED <<req, ro, drv, inbox, edits, overlap>>
  BY DEF OperatorRestores
<1>2. ro[q] \in Rollouts /\ ro' = [ro EXCEPT ![q] = ro[q]] /\ undo[q] \in Reverts
  BY <1>1, IdleShape, UndoShapes DEF Shape
<1>3. undo[q].row \in Nat /\ undo[q].row <= edits /\ UndoNewer(q)'
  BY <1>1, <1>2 DEF Shape, Reverts, UndoNewer
<1>4. CASE RuleFails(q, "restore")
  <2>1. UNCHANGED <<rule, disturbed, lost>> /\ failed \subseteq failed' /\ failed' \subseteq Failures
    BY <1>4, FailuresGrow DEF RuleFails
  <2> QED  BY <1>1, <1>2, <1>3, <2>1, OverShape, UndoStep
<1>5. CASE Restore(q, undo[q].row)
  <2>1. /\ rule # None /\ UNCHANGED failed
        /\ rule' \in Rows /\ rule'.pct = ro[q].prev /\ rule'.rev = undo[q].row
        /\ rule'.rev <= edits /\ disturbed' = disturbed \cup (Requests \ {q})
        /\ lost' \subseteq 1..MaxEdits /\ Carried
    BY <1>1, <1>2, <1>3, <1>5, Restores
  <2> QED  BY <1>1, <1>2, <1>3, <2>1, OverShape, UndoStep
<1> QED  BY <1>4, <1>5 DEF OperatorRestores

\* Edits and the deletion: from then on every rollout has been disturbed.
LEMMA StepUpdateRuleDirect ==
  ASSUME RuleInv, NEW p \in EditTo, UpdateRuleDirect(p)
  PROVE  RuleInv'
<1> USE DEF RuleInv, RuleTyped
<1>1. /\ edits < MaxEdits /\ rule # None /\ edits' = edits + 1
      /\ rule' = [pct |-> p, rev |-> edits'] /\ disturbed' = disturbed \cup (Requests \ {0})
      /\ lost' = lost \cup ((edits' + 1)..rule.rev)
      /\ UNCHANGED <<req, ro, drv, undo, inbox, overlap, failed>>
  BY DEF UpdateRuleDirect, SqlUpdateRule
<1>2. p \in 0..100 /\ edits' \in 0..MaxEdits /\ edits \in Nat /\ rule.rev \in Nat /\ rule.rev <= edits
  <2>1. p \in 0..100 /\ MaxEdits \in Nat
    BY StrategiesAssumption
  <2>2. edits \in 0..MaxEdits /\ rule \in Rows /\ rule.rev <= edits
    BY <1>1
  <2>3. rule.rev \in 0..MaxEdits
    BY <2>2 DEF Rows
  <2> QED  BY <1>1, <2>1, <2>2, <2>3
<1>3. rule' \in Rows /\ rule'.rev = edits + 1 /\ rule'.rev = edits'
  BY <1>1, <1>2 DEF Rows
<1>4. lost' = lost
  <2>1. (edits' + 1)..rule.rev = {}
    BY <1>1, <1>2
  <2> QED  BY <1>1, <2>1
<1>5. Carried
  <2>1. \A e \in 1..rule.rev : e <= rule'.rev
    BY <1>2, <1>3
  <2> QED  BY <1>1, <1>4, <2>1 DEF Carried
<1>6. disturbed' = Requests
  <2>1. 0 \notin Requests
    BY StrategiesAssumption
  <2> QED  BY <1>1, <2>1
<1>7. RuleTyped'
  <2>1. /\ req' \in [Requests -> RuleRequests] /\ ro' \in [Requests -> Rollouts \cup {None}]
        /\ drv' \in [Requests -> Drivers] /\ undo' \in [Requests -> Undos]
        /\ inbox' \subseteq Requests /\ edits' \in 0..MaxEdits
    BY <1>1, <1>2
  <2>2. disturbed' \subseteq Requests /\ failed' \subseteq Failures /\ lost' \subseteq 1..MaxEdits
    BY <1>1, <1>4, <1>6
  <2>3. rule' \in Rows \cup {None} /\ (rule' # None => rule'.rev <= edits')
    BY <1>2, <1>3
  <2> QED  BY <2>1, <2>2, <2>3
<1>8. LiveInv'
  BY <1>1, LiveKeeps DEF GetActiveByRule
<1>9. ASSUME NEW q \in Requests PROVE Shape(q)' /\ (Alone(q) => Outcome(q))' /\ Newer(q)'
  BY <1>1, <1>5, <1>6, NotMine
<1> QED  BY <1>7, <1>8, <1>9

LEMMA StepDeleteRule == RuleInv /\ deleteRule => RuleInv'
<1> SUFFICES ASSUME RuleInv, deleteRule PROVE RuleInv'
  OBVIOUS
<1> USE DEF RuleInv, RuleTyped
<1>1. /\ edits < MaxEdits /\ edits' = edits + 1 /\ rule' = None
      /\ UNCHANGED <<req, ro, drv, undo, inbox, disturbed, overlap, failed, lost>>
  BY DEF deleteRule
<1>2. edits' \in 0..MaxEdits
  BY <1>1, StrategiesAssumption
<1>3. RuleTyped'
  BY <1>1, <1>2
<1>4. LiveInv'
  BY <1>1, LiveKeeps DEF GetActiveByRule
<1>5. ASSUME NEW q \in Requests PROVE Shape(q)' /\ (Alone(q) => Outcome(q))' /\ Newer(q)'
  <2>1. Carried
    BY <1>1 DEF Carried
  <2> QED  BY <1>1, <2>1, NotMine
<1> QED  BY <1>3, <1>4, <1>5

-----------------------------------------------------------------------------
\* A driver moves by its own steps only, and so does an operator's revert.
LEMMA OwnSteps ==
  ASSUME RuleInv, [Next]_vars, NEW q \in Requests, drv'[q] # drv[q]
  PROVE  Engine(q)
<1> USE DEF RuleInv, RuleTyped
<1>1. drv' # drv
  OBVIOUS
<1>2. CASE UNCHANGED vars
  BY <1>1, <1>2 DEF vars
<1>3. CASE \E p \in EditTo : UpdateRuleDirect(p)
  BY <1>1, <1>3 DEF UpdateRuleDirect
<1>4. CASE deleteRule
  BY <1>1, <1>4 DEF deleteRule
<1>5. ASSUME NEW p \in Requests, Request(p) \/ Operator(p) PROVE FALSE
  BY <1>1, <1>5 DEF Request, Operator, updateRule, AttachConfig, Create, Rollback, Transition,
     OperatorReverts, OperatorRestores
<1>6. ASSUME NEW p \in Requests, Engine(p), p # q PROVE FALSE
  <2>1. \E d : drv' = [drv EXCEPT ![p] = d]
    BY <1>6 DEF Engine, Drive, Activate, ApplyRead, PhasePassed, EngineRollback, EngineReverts,
       EngineRestores, ApplyWrite
  <2> QED  BY <1>6, <2>1
<1> QED  BY <1>2, <1>3, <1>4, <1>5, <1>6 DEF Next

LEMMA OwnUndos ==
  ASSUME RuleInv, [Next]_vars, NEW q \in Requests, undo'[q] # undo[q]
  PROVE  Operator(q)
<1> USE DEF RuleInv, RuleTyped
<1>1. undo' # undo
  OBVIOUS
<1>2. CASE UNCHANGED vars
  BY <1>1, <1>2 DEF vars
<1>3. CASE \E p \in EditTo : UpdateRuleDirect(p)
  BY <1>1, <1>3 DEF UpdateRuleDirect
<1>4. CASE deleteRule
  BY <1>1, <1>4 DEF deleteRule
<1>5. ASSUME NEW p \in Requests, Request(p) \/ Engine(p) PROVE FALSE
  BY <1>1, <1>5 DEF Request, Engine, updateRule, AttachConfig, Create, Drive, Activate, ApplyRead,
     ApplyWrite, PhasePassed, EngineRollback, EngineReverts, EngineRestores
<1>6. ASSUME NEW p \in Requests, Operator(p), p # q PROVE FALSE
  <2>1. \E u : undo' = [undo EXCEPT ![p] = u]
    BY <1>6 DEF Operator, Rollback, Transition, OperatorReverts, OperatorRestores
  <2> QED  BY <1>6, <2>1
<1> QED  BY <1>2, <1>3, <1>4, <1>5, <1>6 DEF Next

LEMMA RuleStutters == RuleInv /\ UNCHANGED vars => RuleInv'
<1> SUFFICES ASSUME RuleInv, UNCHANGED vars PROVE RuleInv'
  OBVIOUS
<1> USE DEF RuleInv, RuleTyped, vars
<1>1. LiveInv'
  BY LiveKeeps DEF GetActiveByRule
<1>2. ASSUME NEW q \in Requests PROVE Shape(q)' /\ (Alone(q) => Outcome(q))' /\ Newer(q)'
  BY StaysCarried, NotMine
<1> QED  BY <1>1, <1>2

LEMMA RuleStep == RuleInv /\ [Next]_vars => RuleInv'
<1> SUFFICES ASSUME RuleInv, [Next]_vars PROVE RuleInv'
  OBVIOUS
<1>1. ASSUME NEW q \in Requests, Request(q) PROVE RuleInv'
  BY <1>1, StepUpdateRule, StepAttachConfig, StepCreate DEF Request
<1>2. ASSUME NEW q \in Requests, Engine(q) PROVE RuleInv'
  BY <1>2, StepDrive, StepActivate, StepApplyRead, StepApplyWrite, StepPhasePassed,
     StepEngineRollback, StepEngineReverts, StepEngineRestores DEF Engine
<1>3. ASSUME NEW q \in Requests, Operator(q) PROVE RuleInv'
  BY <1>3, StepRollback, StepTransition, StepOperatorReverts, StepOperatorRestores DEF Operator
<1> QED  BY <1>1, <1>2, <1>3, StepUpdateRuleDirect, StepDeleteRule, RuleStutters DEF Next

RulePlaneInv == scenario = "rules" => RuleInv

LEMMA RuleAlways == PlaneSpec => []RulePlaneInv
<1>1. PlaneInit => RulePlaneInv
  BY RuleInitially DEF PlaneInit, RulePlaneInv
<1>2. RulePlaneInv /\ [PlaneNext]_allVars => RulePlaneInv'
  BY RuleStep DEF PlaneNext, RulePlaneInv, allVars
<1> QED  BY <1>1, <1>2, PTL DEF PlaneSpec

\* GetActiveByRule, Create: two live rollouts of a rule had overlapping
\* searches, or the search of one failed; and a rule that nobody else wrote
\* shows the outcome of its rollout (MarkCompleted, Revert) unless the engine's
\* revert failed.
THEOREM RuleOutcomeAlwaysShows == PlaneSpec => []RuleOutcomeShows
<1>1. RuleInv => TwoLiveIsExplained
  BY DEF RuleInv, LiveInv, Blamed, TwoLiveIsExplained, GetActiveByRule
<1>2. RuleInv => OutcomeShows
  <2> SUFFICES ASSUME RuleInv, NEW q \in Requests, ro[q] # None, AtRest(q), undo[q] = Idle,
                      q \notin disturbed, rule # None
               PROVE  /\ ro[q].status = "succeeded" => rule.pct = Last(ro[q].steps)
                      /\ ro[q].status = "rolled_back" =>
                           rule.pct = ro[q].prev \/ <<q, "revert">> \in failed
    BY DEF OutcomeShows
  <2>1. Outcome(q)
    BY DEF RuleInv, Alone
  <2> QED  BY <2>1 DEF Outcome, AtRest
<1>3. RulePlaneInv => RuleOutcomeShows
  BY <1>1, <1>2 DEF RulePlaneInv, RuleOutcomeShows
<1> QED  BY <1>3, RuleAlways, PTL

\* Only ApplyWrite, on a rule that exists, takes a driver from "write" to "watch".
LEMMA RuleWritten ==
  ASSUME RuleInv, [Next]_vars, NEW q \in Requests, drv[q].pc = "write", drv'[q].pc = "watch"
  PROVE  rule # None /\ rule'.pct = ro[q].steps[drv[q].idx] /\ rule'.rev = drv[q].row
<1>1. drv'[q] # drv[q]
  OBVIOUS
<1>2. ApplyWrite(q)
  BY <1>1, OwnSteps, IdleShape DEF Engine, Drive, Activate, ApplyRead, PhasePassed, EngineRollback,
     EngineReverts, EngineRestores
<1> QED  BY <1>2, StepApplyWrite

\* Only the second half of a revert ends one that has read the rule.
LEMMA RuleRestored ==
  ASSUME RuleInv, [Next]_vars, NEW q \in Requests, rule' # rule
  PROVE  /\ drv[q].pc = "restore" /\ drv'[q] = Idle => rule'.rev = drv[q].row
         /\ undo[q].pc = "restore" /\ undo'[q].pc = "over" => rule'.rev = undo[q].row
<1>1. ASSUME drv[q].pc = "restore", drv'[q] = Idle PROVE rule'.rev = drv[q].row
  <2>1. drv'[q] # drv[q]
    BY <1>1, IdleShape
  <2>2. EngineRestores(q)
    BY <1>1, <2>1, OwnSteps DEF Engine, Drive, Activate, ApplyRead, ApplyWrite, PhasePassed,
       EngineRollback, EngineReverts, Idle
  <2> QED  BY <2>2, StepEngineRestores
<1>2. ASSUME undo[q].pc = "restore", undo'[q].pc = "over" PROVE rule'.rev = undo[q].row
  <2>1. undo'[q] # undo[q]
    BY <1>2
  <2>2. OperatorRestores(q)
    BY <1>2, <2>1, OwnUndos, IdleShape DEF Operator, Rollback, Transition, OperatorReverts
  <2> QED  BY <2>2, StepOperatorRestores
<1> QED  BY <1>1, <1>2

LEMMA RuleWrites ==
  RuleInv /\ [Next]_vars => BackwardIsExplainedStep /\ EditsBeforeThePhaseStayStep
<1> SUFFICES ASSUME RuleInv, [Next]_vars
             PROVE  BackwardIsExplainedStep /\ EditsBeforeThePhaseStayStep
  OBVIOUS
<1> USE DEF RuleInv, RuleTyped
<1>1. ASSUME NEW q \in Requests, drv[q].pc = "write", drv'[q].pc = "watch", rule'.pct < rule.pct,
             q \notin disturbed, undo[q].pc = "idle", <<q, "read">> \notin failed
      PROVE  drv[q].idx > 1 /\ ro[q].steps[drv[q].idx] < ro[q].steps[drv[q].idx - 1]
  <2>1. rule # None /\ rule'.pct = ro[q].steps[drv[q].idx]
    BY <1>1, RuleWritten
  <2>2. /\ drv[q] \in Phases /\ drv[q].idx \in 1..Len(ro[q].steps) /\ ro[q].prev \in Percents
        /\ Len(ro[q].steps) \in Nat
        /\ \A i \in 1..Len(ro[q].steps) : ro[q].steps[i] \in Percents
        /\ ro[q] # None
    BY <1>1, Driven, DriverShapes, IdleShape
  <2>3. undo[q] = Idle
    BY <1>1, UndoShapes
  <2>4. /\ drv[q].idx = 1 => rule.pct = ro[q].prev
        /\ drv[q].idx # 1 => rule.pct = ro[q].steps[drv[q].idx - 1]
    BY <1>1, <2>1, <2>3 DEF Alone, Outcome, StartsAt
  <2>5. drv[q].idx # 1
    <3> SUFFICES ASSUME drv[q].idx = 1 PROVE FALSE
      OBVIOUS
    <3>1. ro[q].prev <= ro[q].steps[1] /\ ro[q].steps[1] \in Percents
      BY <2>2 DEF Shape
    <3>2. rule'.pct = ro[q].steps[1] /\ rule.pct = ro[q].prev
      BY <2>1, <2>4
    <3>3. \A a, b \in Percents : b <= a => ~(a < b)
      BY DEF Percents
    <3> HIDE DEF RuleInv, RuleTyped
    <3> QED  BY <1>1, <2>2, <3>1, <3>2, <3>3
  <2>6. drv[q].idx > 1 /\ rule.pct = ro[q].steps[drv[q].idx - 1]
    BY <2>2, <2>4, <2>5
  <2> QED  BY <1>1, <2>1, <2>6
<1>2. ASSUME NEW q \in Requests PROVE Newer(q)
  OBVIOUS
<1>3. ASSUME NEW q \in Requests, drv[q].pc = "write", drv'[q].pc = "watch"
      PROVE  Kept(drv[q].since, rule'.rev)
  BY <1>2, <1>3, RuleWritten DEF Newer, DriverNewer
<1>4. ASSUME NEW q \in Requests, drv[q].pc = "restore", drv'[q] = Idle, rule' # rule
      PROVE  Kept(drv[q].since, rule'.rev)
  BY <1>2, <1>4, RuleRestored DEF Newer, DriverNewer
<1>5. ASSUME NEW q \in Requests, undo[q].pc = "restore", undo'[q].pc = "over", rule' # rule
      PROVE  Kept(undo[q].since, rule'.rev)
  BY <1>2, <1>5, RuleRestored DEF Newer, UndoNewer
<1>6. BackwardIsExplainedStep
  BY <1>1 DEF BackwardIsExplainedStep
<1>7. EditsBeforeThePhaseStayStep
  BY <1>3, <1>4, <1>5 DEF EditsBeforeThePhaseStayStep
<1> QED  BY <1>6, <1>7

\* UpdateRulePercentage: a phase lowers the percentage only over someone else's
\* write, after a read that failed or where the strategy says so; and the row
\* that a phase or a revert writes back holds every edit that it held when they
\* began and no other write has taken out.
THEOREM RuleNeverEverStepsBack == PlaneSpec => RuleNeverStepsBack
<1>1. RulePlaneInv /\ [PlaneNext]_allVars =>
        (scenario = "rules" => BackwardIsExplainedStep /\ EditsBeforeThePhaseStayStep)
  <2>1. [PlaneNext]_allVars /\ scenario = "rules" => [Next]_vars
    BY DEF PlaneNext, allVars
  <2> QED  BY <2>1, RuleWrites DEF RulePlaneInv
<1> QED  BY <1>1, RuleAlways, PTL DEF PlaneSpec, RuleNeverStepsBack
-----------------------------------------------------------------------------
(* The types, from the four invariants                                      *)

LEMMA RuleTypes == RuleInv => TypeOK
<1> SUFFICES ASSUME RuleInv PROVE TypeOK
  OBVIOUS
<1> USE DEF RuleInv, RuleTyped
<1>1. ASSUME NEW q \in Requests
      PROVE  /\ req[q].pc \in {"new", "search", "insert", "done"}
             /\ ro[q] \in Rollouts \cup {None}
             /\ drv[q].pc \in {"idle", "activate", "apply", "write", "watch", "revert",
                               "restore"}
             /\ undo[q].pc \in {"idle", "update", "revert", "restore", "over"}
  <2>1. req[q].pc \in {"new", "search", "insert", "done"}
    BY DEF RuleRequests
  <2> QED  BY <2>1, DriverShapes, UndoShapes
<1> QED  BY <1>1 DEF TypeOK

LEMMA AuditTypes == AuditInv => Audit!TypeOK
<1> SUFFICES ASSUME AuditInv PROVE Audit!TypeOK
  OBVIOUS
<1>1. v1 \in Audit!RowType /\ v4 \in 0..AuditOps /\ v2 \in Seq(AuditEntries)
  BY DEF AuditInv, AuditTyped
<1>2. ASSUME NEW i \in DOMAIN v2 PROVE v2[i].action \in Audit!Actions
  <2>1. v2[i] \in AuditEntries
    BY <1>1
  <2> QED  BY <2>1 DEF AuditEntries
<1> QED  BY <1>1, <1>2 DEF Audit!TypeOK

LEMMA CatalogTypes == CatalogInv => Catalog!TypeOK
<1> SUFFICES ASSUME CatalogInv PROVE Catalog!TypeOK
  OBVIOUS
<1> USE DEF CatalogInv, CatalogTyped
<1>1. ASSUME NEW id \in Catalog!Ids, v1[id] # None
      PROVE  /\ v1[id].version \in 1..(CatalogWrites + 1)
             /\ v1[id].system => v1[id].version = 1 /\ ~v1[id].deleted
  BY <1>1, PlaneAssumption DEF RowInv
<1>2. /\ DOMAIN v2 = CatalogKeys /\ \A at \in DOMAIN v2 : v2[at] \in Catalog!Ids \cup {None}
      /\ \A at \in DOMAIN v3 : v3[at] \in {"off", "prompt", "mandate", None}
      /\ v7 \subseteq DOMAIN v2
  OBVIOUS
<1>3. \A c \in Clients : v4[c].pc \in {"idle", "edit", "delete", "default"}
  BY DEF CatalogRequests, Catalog!Idle
<1> QED  BY <1>1, <1>2, <1>3 DEF Catalog!TypeOK

LEMMA WorkTypes == WorkInv => Work!TypeOK
<1> SUFFICES ASSUME WorkInv PROVE Work!TypeOK
  OBVIOUS
<1>1. v1 \in [Users -> Roles \cup {None}] /\ v3 \subseteq v2 \X Users
  BY DEF WorkInv, WorkTyped
<1>2. /\ \A t \in v4 : t.to \in Users \cup v2 /\ Work!Exists(t.on) /\ t.perm \in {"read", "write"}
      /\ \A t, s \in v4 : t.to = s.to /\ t.on = s.on => t = s
  BY DEF WorkInv, GrantInv
<1>3. \A r \in Work!Resources : v5[r].is \in {"absent", "live", "deleted", "old", "gone"}
  BY DEF WorkInv, WorkTyped, WorkItems
<1> QED  BY <1>1, <1>2, <1>3 DEF Work!TypeOK

Scenarios == scenario \in {"rules", "audit", "catalog", "workspace"}

\* Every row, request, entry and grant of the four parts has the shape the
\* code gives it, whatever its requests do.
THEOREM PlaneAlwaysTyped == PlaneSpec => []PlaneTyped
<1>1. PlaneInit => Scenarios
  BY DEF PlaneInit, Scenarios
<1>2. Scenarios /\ [PlaneNext]_allVars => Scenarios'
  BY DEF PlaneNext, Scenarios, allVars
<1>3. Scenarios /\ RulePlaneInv /\ AuditPlaneInv /\ CatalogPlaneInv /\ WorkPlaneInv => PlaneTyped
  BY RuleTypes, AuditTypes, CatalogTypes, WorkTypes
     DEF Scenarios, RulePlaneInv, AuditPlaneInv, CatalogPlaneInv, WorkPlaneInv, PlaneTyped
<1> QED  BY <1>1, <1>2, <1>3, RuleAlways, AuditAlways, CatalogAlways, WorkAlways, PTL DEF PlaneSpec
=============================================================================
