----------------------------- MODULE OwnedObjects -----------------------------
(***************************************************************************)
(* The abstract promise of reference counting (specification sections 3   *)
(* and 5): an object is owned by a set of owners; it comes into being with *)
(* its first owners, an owner can be added only while the object exists,  *)
(* and the object is freed exactly when its last owner lets go.  There is *)
(* no count here: the registries of mem.c implement this with ref_count.   *)
(***************************************************************************)
CONSTANTS
  Objs,    \* the objects (addresses)
  Owners   \* everything that can own one

VARIABLES
  live,    \* the objects that exist
  owners   \* owners[o]: who owns o

ovars == <<live, owners>>

OInit ==
  /\ live = {}
  /\ owners = [o \in Objs |-> {}]

(* the owners of object o are all that changes *)
OnlyOwnersOf(o) == \A p \in Objs \ {o} : owners'[p] = owners[p]

(* a new object with its first owners *)
Create(o) ==
  /\ o \notin live
  /\ owners' \in [Objs -> SUBSET Owners] /\ OnlyOwnersOf(o) /\ owners'[o] # {}
  /\ live' = live \cup {o}

(* one more owner of an existing object *)
Share(o, h) ==
  /\ o \in live /\ h \notin owners[o]
  /\ owners' = [owners EXCEPT ![o] = @ \cup {h}]
  /\ UNCHANGED live

(* owners of existing objects let go, several at once; an object left *)
(* with no owner is freed in the same step                            *)
Release ==
  /\ owners' \in [Objs -> SUBSET Owners]
  /\ \A o \in Objs : owners'[o] \subseteq owners[o]
  /\ \E o \in live : owners'[o] # owners[o]
  /\ live' = {o \in live : owners'[o] # {}}

ONext ==
  \/ \E o \in Objs : Create(o)
  \/ \E o \in Objs, h \in Owners : Share(o, h)
  \/ Release

OSpec == OInit /\ [][ONext]_ovars

=============================================================================
