------------------------------- MODULE KVMap --------------------------------
(***************************************************************************)
(* What the tries promise their callers: an atomic map from keys to        *)
(* values.  A call takes effect in one step between its start and its end. *)
(* Normalisation may drop values that the caller's has_value_f rejects,    *)
(* and clear drops everything; both happen only between calls.             *)
(***************************************************************************)
CONSTANTS Threads, Keys, Value, NoValue, Logical, Merge(_, _)

VARIABLES kv,    \* the value of each key, or NoValue
          req,   \* the call each thread is in, or NoCall
          res    \* the answer to its last "get"

NoCall == [op |-> "none"]
Calls(k) == [op : {"ins"}, key : {k}, arg : Value]
                \cup [op : {"del", "get"}, key : {k}]

NoneInside == \A t \in Threads : req[t] = NoCall

Init ==
    /\ kv  = [k \in Keys |-> NoValue]
    /\ req = [t \in Threads |-> NoCall]
    /\ res = [t \in Threads |-> NoValue]

Invoke(t) ==
    /\ req[t] = NoCall
    /\ \E k \in Keys : \E c \in Calls(k) : req' = [req EXCEPT ![t] = c]
    /\ \/ res' = [res EXCEPT ![t] = NoValue]
       \/ req'[t].op # "get" /\ UNCHANGED res
    /\ UNCHANGED kv

Insert(t) ==
    /\ req[t].op = "ins"
    /\ kv'  = [kv EXCEPT ![req[t].key] =
                 IF @ = NoValue THEN req[t].arg ELSE Merge(@, req[t].arg)]
    /\ req' = [req EXCEPT ![t] = NoCall]
    /\ UNCHANGED res

Delete(t) ==
    /\ req[t].op = "del"
    /\ kv'  = [kv EXCEPT ![req[t].key] = NoValue]
    /\ req' = [req EXCEPT ![t] = NoCall]
    /\ UNCHANGED res

Get(t) ==
    /\ req[t].op = "get"
    /\ res' = [res EXCEPT ![t] = kv[req[t].key]]
    /\ req' = [req EXCEPT ![t] = NoCall]
    /\ UNCHANGED kv

\* The thread forgets the answer.
Forget(t) ==
    /\ req[t] = NoCall
    /\ res' = [res EXCEPT ![t] = NoValue]
    /\ UNCHANGED <<kv, req>>

Purge ==
    /\ NoneInside
    /\ \E K \in SUBSET {k \in Keys : kv[k] \notin Logical} :
            kv' = [k \in Keys |-> IF k \in K THEN NoValue ELSE kv[k]]
    /\ UNCHANGED <<req, res>>

Clear ==
    /\ NoneInside
    /\ kv' = [k \in Keys |-> NoValue]
    /\ UNCHANGED <<req, res>>

Next ==
    \/ \E t \in Threads : Invoke(t) \/ Insert(t) \/ Delete(t) \/ Get(t) \/ Forget(t)
    \/ Purge
    \/ Clear

Spec == Init /\ [][Next]_<<kv, req, res>>
=============================================================================
