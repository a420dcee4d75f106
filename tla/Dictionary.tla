----------------------------- MODULE Dictionary -----------------------------
(***************************************************************************)
(* What the callers of HashMap_T rely on: a dictionary whose entries are   *)
(* never replaced and never removed.  The validator reads EEXIST as        *)
(* "already defined in this scope", the operator table of the parser, the  *)
(* interpreter's string literals and the transpiler's array typedefs read  *)
(* NULL as "not there yet".  HashMap implements this specification.        *)
(***************************************************************************)
CONSTANTS Keys, Values, NULL

VARIABLES dict,      \* the value stored for each key, NULL when absent
          ret,       \* what the last completed call returned
          listed     \* the keys it listed, if it was hashmap_keys

dvars == <<dict, ret, listed>>

DInit ==
    /\ dict = [k \in Keys |-> NULL]
    /\ ret = NULL
    /\ listed = {}

\* The first put of a key stores the value; any later one is refused.
DPutNew(k, v) ==
    /\ dict[k] = NULL
    /\ dict' = [dict EXCEPT ![k] = v]
    /\ ret' = "OK"
    /\ listed' = {}

DPutExisting(k) ==
    /\ dict[k] # NULL
    /\ ret' = "EEXIST"
    /\ UNCHANGED dict
    /\ listed' = {}

DGet(k) ==
    /\ ret' = dict[k]
    /\ UNCHANGED dict
    /\ listed' = {}

DKeys ==
    /\ listed' = {k \in Keys : dict[k] # NULL}
    /\ ret' = NULL
    /\ UNCHANGED dict

DNext ==
    \/ \E k \in Keys : \/ \E v \in Values : DPutNew(k, v)
                       \/ DPutExisting(k)
                       \/ DGet(k)
    \/ DKeys

DSpec == DInit /\ [][DNext]_dvars
=============================================================================
