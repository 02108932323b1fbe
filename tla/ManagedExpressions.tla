------------------------- MODULE ManagedExpressions -------------------------
(***************************************************************************)
(* ManagedExpressionStore (include/LLU/ManagedExpression.hpp) and the      *)
(* kernel behind it.  The kernel owns the ids; the store is a map from ids *)
(* to shared pointers, kept in step by the callback manageInstance.        *)
(***************************************************************************)
CONSTANTS Ids,          \* the kernel never gives an id twice
          Instances,    \* objects of the managed class
          Null          \* the null pointer

ASSUME ManagedAssumption == Null \notin Instances

VARIABLES store,   \* the map
          kernel   \* what the kernel knows of each id

hasInstance(id) == id \in DOMAIN store

\* store[id] = ptr, and store.erase(id).
Put(id, ptr) == [i \in DOMAIN store \cup {id} |-> IF i = id THEN ptr ELSE store[i]]
Erase(id) == [i \in DOMAIN store \ {id} |-> store[i]]

\* manageInstance(False, id), as CreateManagedLibraryExpression calls it.
KernelCreates(id) ==
    /\ kernel[id] = "new"
    /\ kernel' = [kernel EXCEPT ![id] = "live"]
    /\ store' = Put(id, Null)

\* Deviation: the entry stays, with a null pointer.
KernelReleasesNulling(id) ==
    /\ kernel[id] = "live"
    /\ kernel' = [kernel EXCEPT ![id] = "gone"]
    /\ store' = Put(id, Null)

\* manageInstance(True, id): the last use of the expression is gone, or
\* releaseInstance asked for it.  For any other id nothing happens.
KernelReleases(id) ==
    /\ kernel[id] = "live"
    /\ kernel' = [kernel EXCEPT ![id] = "gone"]
    /\ store' = Erase(id)

ManagedInit ==
    /\ store = [id \in {} |-> Null]
    /\ kernel = [id \in Ids |-> "new"]

ManagedTypeOK ==
    /\ DOMAIN store \in SUBSET Ids
    /\ \A id \in DOMAIN store : store[id] \in Instances \cup {Null}
    /\ kernel \in [Ids -> {"new", "live", "gone"}]
=============================================================================
