----------------------------- MODULE Preferences ----------------------------
(***************************************************************************)
(* The notification preferences of one organization                        *)
(* (internal/notifications/preferences.go, preferences_handler.go).  The   *)
(* store hands out the object it holds, not a copy: a handler merges into  *)
(* it without the store's lock and then puts the pointer back.  The store  *)
(* is in memory, so a restart empties it.                                  *)
(***************************************************************************)
EXTENDS Integers, FiniteSets

CONSTANTS Clients, None,
          Rules,      \* event type and channel
          MaxOps      \* bound: requests begun

VARIABLES store,    \* the object stored, None for the defaults
          object,   \* contents of every object made so far
          cl, ops,
          at        \* ghost: number of the last change of the store's pointer

vars == <<store, object, cl, ops, at>>

Idle == [pc |-> "idle"]
Unset == [r \in Rules |-> None]

Init ==
  /\ store = None /\ object = <<>> /\ ops = 0 /\ at = 0
  /\ cl = [c \in Clients |-> Idle]

Begin(c, state) ==
  /\ cl[c].pc = "idle" /\ ops < MaxOps
  /\ ops' = ops + 1
  /\ cl' = [cl EXCEPT ![c] = state]

\* The object of request n is n.
Put(n, v) == [x \in DOMAIN object \cup {n} |-> IF x = n THEN v ELSE object[x]]

\* The stored object itself, or a fresh one with the defaults.
GetPreferences(n) == IF store = None THEN n ELSE store

\* The read of savePreferences.
LoadForSave(c) ==
  /\ \E r \in Rules, v \in BOOLEAN :
       LET o == GetPreferences(ops + 1) IN
       /\ Begin(c, [pc |-> "merge", rule |-> r, value |-> v, object |-> o, read |-> at])
       /\ object' = IF o \in DOMAIN object THEN object ELSE Put(o, Unset)
  /\ UNCHANGED <<store, at>>

\* The merge: an object in the store shows it before it is saved.
Merge(c) ==
  /\ cl[c].pc = "merge"
  /\ object' = Put(cl[c].object, [object[cl[c].object] EXCEPT ![cl[c].rule] = cl[c].value])
  /\ cl' = [cl EXCEPT ![c].pc = "save"]
  /\ UNCHANGED <<store, ops, at>>

SavePreferences(c) ==
  /\ cl[c].pc = "save"
  /\ store' = cl[c].object
  /\ at' = IF store' = store THEN at ELSE at + 1
  /\ cl' = [cl EXCEPT ![c] = Idle]
  /\ UNCHANGED <<object, ops>>

resetPreferences(c) ==
  /\ Begin(c, Idle)
  /\ store' = None
  /\ at' = IF store' = store THEN at ELSE at + 1
  /\ UNCHANGED object

\* Two merges into one object at once: the runtime stops the process (concurrent
\* map writes).  It may also stop for any other reason.
Restart ==
  /\ store # None \/ \E c \in Clients : cl[c].pc # "idle"
  /\ store' = None /\ at' = at + 1
  /\ cl' = [c \in Clients |-> Idle]
  /\ UNCHANGED <<object, ops>>

Next ==
  \/ \E c \in Clients :
       LoadForSave(c) \/ Merge(c) \/ SavePreferences(c) \/ resetPreferences(c)
  \/ Restart

Spec == Init /\ [][Next]_vars

\* What getPreferences shows: a rule that is not set is enabled.
buildEventRouting == IF store = None THEN Unset ELSE object[store]

-----------------------------------------------------------------------------
(* Properties                                                               *)

TypeOK ==
  /\ store \in {None} \cup DOMAIN object /\ ops \in 0 .. MaxOps
  /\ \A o \in DOMAIN object : object[o] \in [Rules -> {None} \cup BOOLEAN]

\* A save changes the rules it was not asked about, or brings back what a reset
\* took, only when the store's object was replaced or taken away between its
\* read and its save (savePreferences, resetPreferences).
SaveLossStep ==
  \A c \in Clients :
    cl[c].pc = "save" /\ cl'[c].pc = "idle" /\ store' = cl[c].object =>
      \/ cl[c].read # at
      \/ \A r \in Rules \ {cl[c].rule} : buildEventRouting'[r] = buildEventRouting[r]
=============================================================================
