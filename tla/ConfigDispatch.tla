-------------------------- MODULE ConfigDispatch ---------------------------
(***************************************************************************)
(* The Python-side dispatcher of PISM's configuration database,            *)
(* src/pythonbindings/Config.py: get and set try the typed accessors in a *)
(* fixed order and fall back to _get / _set; set_from_dict calls set key   *)
(* by key.                                                                 *)
(*                                                                         *)
(* The typed accessors and _get / _set are the C++ database behind the     *)
(* SWIG bindings, which is not among the sources.  They are modelled from  *)
(* what the dispatcher relies on: a typed setter accepts a value whose     *)
(* Python type converts to its type (a bool is also a number), a typed     *)
(* getter reads an entry stored under its type, _get reads any entry, and *)
(* _set stores a value of no typed accessor's type ("other") but rejects  *)
(* one of no configuration type at all ("none").  When Transient         *)
(* is TRUE any accessor call may also raise for a reason of its own (a    *)
(* C++ exception).  The database is one record per key: the accessor that  *)
(* stored it and the value.  Each call runs one accessor per step, the     *)
(* way the `for method in methods` loops do.                               *)
(***************************************************************************)
EXTENDS Naturals, Sequences

CONSTANTS
    Keys,        \* configuration parameter names
    Vals,        \* Python values a caller passes
    TypeOf(_),   \* the configuration type of a value's Python type
    Transient,   \* whether an accessor may raise an unrelated exception
    MaxCalls,    \* bound on the calls the caller makes
    NoEntry      \* a key the database does not hold

Types == {"flag", "number", "numbers", "string"}

ASSUME ConfigAssumption ==
    /\ Keys # {} /\ Vals # {}
    /\ NoEntry \notin [by : Types \cup {"_set"}, val : Vals]
    /\ \A v \in Vals : TypeOf(v) \in Types \cup {"other", "none"}
    /\ Transient \in BOOLEAN
    /\ MaxCalls \in Nat

(* Lines 2-7: the typed getters, in order. *)
GetMethods == <<"flag", "number", "numbers", "string">>

(* Mutant: set_number tried before set_flag. *)
SetMethods_mut == <<"number", "flag", "numbers", "string">>

(* Lines 18-23: the typed setters, in order ("order matters"). *)
SetMethods == <<"flag", "number", "numbers", "string">>

Entry == [by : Types \cup {"_set"}, val : Vals]

(* SWIG converts a bool to a flag or, being an int, to a number; the other *)
(* types convert only to their own.                                       *)
Converts(m, v) == TypeOf(v) = m \/ (m = "number" /\ TypeOf(v) = "flag")

(* A typed getter reads an entry stored by the setter of its type. *)
Reads(m, e) == e # NoEntry /\ e.by = m

(* _set stores any value of a configuration type. *)
SetAccepts(v) == TypeOf(v) # "none"

(* A dictionary: distinct keys, each with a value, in insertion order. *)
Dicts ==
    {<<>>} \cup {<<[key |-> k, val |-> v]>> : k \in Keys, v \in Vals}
    \cup {d \in {<<[key |-> k1, val |-> v1], [key |-> k2, val |-> v2]>> :
                   k1 \in Keys, k2 \in Keys, v1 \in Vals, v2 \in Vals} :
              d[1].key # d[2].key}

VARIABLES
    db,       \* the configuration database
    op,       \* the call running: "idle", "get" or "set"
    key, val, \* its arguments
    i,        \* index into the method list (5: the fallback)
    inDict,   \* whether set is running inside set_from_dict
    dict,     \* the dictionary passed to set_from_dict
    pos,      \* the item of dict the loop of line 38 is at
    db0,      \* the database when set_from_dict was called
    last,     \* the outcome of the last call that returned or raised
    calls     \* calls made so far

vars == <<db, op, key, val, i, inDict, dict, pos, db0, last, calls>>

Outcomes == [call : {"none", "get", "set", "dict"},
             raised : BOOLEAN, via : Types \cup {"_get", "_set", "none"},
             res : Entry \cup {NoEntry}]

(* The entries the database starts with: a parameter with a value of its *)
(* own type, or none.                                                     *)
InitEntries ==
    {NoEntry} \cup {[by |-> TypeOf(v), val |-> v] : v \in {w \in Vals : TypeOf(w) \in Types}}

Init ==
    /\ db \in [Keys -> InitEntries]
    /\ op = "idle"
    /\ key = (CHOOSE k \in Keys : TRUE) /\ val = (CHOOSE v \in Vals : TRUE)
    /\ i = 1
    /\ inDict = FALSE /\ dict = <<>> /\ pos = 1 /\ db0 = db
    /\ last = [call |-> "none", raised |-> FALSE, via |-> "none", res |-> NoEntry]
    /\ calls = 0

(* The caller can call only between calls. *)
Idle == op = "idle" /\ ~inDict /\ calls < MaxCalls

(* Line 1: get(key). *)
CallGet(k) ==
    /\ Idle
    /\ op' = "get" /\ key' = k /\ i' = 1 /\ calls' = calls + 1
    /\ UNCHANGED <<db, val, inDict, dict, pos, db0, last>>

(* Line 17: set(key, val). *)
CallSet(k, v) ==
    /\ Idle
    /\ op' = "set" /\ key' = k /\ val' = v /\ i' = 1 /\ calls' = calls + 1
    /\ UNCHANGED <<db, inDict, dict, pos, db0, last>>

(* Line 34: set_from_dict(d). *)
CallSetFromDict(d) ==
    /\ Idle
    /\ inDict' = TRUE /\ dict' = d /\ pos' = 1 /\ db0' = db
    /\ calls' = calls + 1
    /\ UNCHANGED <<db, op, key, val, i, last>>

(* Lines 38-39: the loop calls set on the next item. *)
DictNext ==
    /\ inDict /\ op = "idle" /\ pos <= Len(dict)
    /\ op' = "set" /\ key' = dict[pos].key /\ val' = dict[pos].val /\ i' = 1
    /\ UNCHANGED <<db, inDict, dict, pos, db0, last, calls>>

(* Line 38: the loop ends; set_from_dict returns. *)
DictDone ==
    /\ inDict /\ op = "idle" /\ pos > Len(dict)
    /\ inDict' = FALSE
    /\ last' = [call |-> "dict", raised |-> FALSE, via |-> "none", res |-> NoEntry]
    /\ UNCHANGED <<db, op, key, val, i, dict, pos, db0, calls>>

(* set returned: inside set_from_dict the loop moves on. *)
SetReturns(via) ==
    /\ op' = "idle"
    /\ pos' = IF inDict THEN pos + 1 ELSE pos
    /\ last' = IF inDict THEN last
               ELSE [call |-> "set", raised |-> FALSE, via |-> via, res |-> db'[key]]

(* Mutant: set_from_dict skips an item whose set raised (a try/except    *)
(* around line 39).                                                       *)
SetRaises_mut ==
    /\ op' = "idle"
    /\ pos' = IF inDict THEN pos + 1 ELSE pos
    /\ last' = IF inDict THEN last
               ELSE [call |-> "set", raised |-> TRUE, via |-> "none", res |-> NoEntry]
    /\ UNCHANGED <<db, inDict>>

(* set raised: the exception leaves set_from_dict too (line 39). *)
SetRaises ==
    /\ op' = "idle" /\ inDict' = FALSE
    /\ last' = [call |-> IF inDict THEN "dict" ELSE "set", raised |-> TRUE,
                via |-> "none", res |-> NoEntry]
    /\ UNCHANGED <<db, pos>>

(* Lines 9-13: get tries getter i; it returns, or the bare except passes. *)
GetTry ==
    /\ op = "get" /\ i <= Len(GetMethods)
    /\ \/ /\ Reads(GetMethods[i], db[key])
          /\ op' = "idle"
          /\ last' = [call |-> "get", raised |-> FALSE, via |-> GetMethods[i],
                      res |-> db[key]]
          /\ UNCHANGED i
       \/ /\ ~Reads(GetMethods[i], db[key]) \/ Transient
          /\ i' = i + 1
          /\ UNCHANGED <<op, last>>
    /\ UNCHANGED <<db, key, val, inDict, dict, pos, db0, calls>>

(* Line 15: every getter raised; _get returns, or its exception leaves get. *)
GetFallback ==
    /\ op = "get" /\ i > Len(GetMethods)
    /\ op' = "idle"
    /\ \/ /\ db[key] # NoEntry
          /\ last' = [call |-> "get", raised |-> FALSE, via |-> "_get", res |-> db[key]]
       \/ /\ db[key] = NoEntry \/ Transient
          /\ last' = [call |-> "get", raised |-> TRUE, via |-> "none", res |-> NoEntry]
    /\ UNCHANGED <<db, key, val, i, inDict, dict, pos, db0, calls>>

(* Lines 25-29: set tries setter i; it stores and returns, or the bare    *)
(* except passes.                                                         *)
SetTry ==
    /\ op = "set" /\ i <= Len(SetMethods)
    /\ \/ /\ Converts(SetMethods[i], val)
          /\ db' = [db EXCEPT ![key] = [by |-> SetMethods[i], val |-> val]]
          /\ SetReturns(SetMethods[i])
          /\ UNCHANGED <<i, inDict>>
       \/ /\ ~Converts(SetMethods[i], val) \/ Transient
          /\ i' = i + 1
          /\ UNCHANGED <<db, op, pos, inDict, last>>
    /\ UNCHANGED <<key, val, dict, db0, calls>>

(* Line 31: every setter raised; _set stores, or its exception leaves set. *)
SetFallback ==
    /\ op = "set" /\ i > Len(SetMethods)
    /\ \/ /\ SetAccepts(val)
          /\ db' = [db EXCEPT ![key] = [by |-> "_set", val |-> val]]
          /\ SetReturns("_set")
          /\ UNCHANGED inDict
       \/ /\ ~SetAccepts(val) \/ Transient
          /\ SetRaises
    /\ UNCHANGED <<key, val, i, dict, db0, calls>>

Next ==
    \/ \E k \in Keys : CallGet(k)
    \/ \E k \in Keys, v \in Vals : CallSet(k, v)
    \/ \E d \in Dicts : CallSetFromDict(d)
    \/ DictNext \/ DictDone
    \/ GetTry \/ GetFallback \/ SetTry \/ SetFallback

(* One Python thread: a call, once made, runs to its end. *)
Spec == Init /\ [][Next]_vars /\ WF_vars(Next)

-----------------------------------------------------------------------------
(***************************************************************************)
(* Properties.                                                             *)
(***************************************************************************)

(* The type invariant of the dispatcher's variables. *)
TypeOK ==
    /\ db \in [Keys -> {NoEntry} \cup Entry]
    /\ op \in {"idle", "get", "set"}
    /\ key \in Keys /\ val \in Vals
    /\ i \in 1..Len(SetMethods) + 1
    /\ inDict \in BOOLEAN
    /\ dict \in Dicts
    /\ pos \in 1..Len(dict) + 1
    /\ db0 \in [Keys -> {NoEntry} \cup Entry]
    /\ last \in Outcomes
    /\ calls \in 0..MaxCalls

(* The accessor a value of a given type is meant to go through: its own   *)
(* type's, and the fallback for an entry the fallback stored.             *)
OwnGetter(e) == IF e.by = "_set" THEN "_get" ELSE e.by
OwnSetter(v) == IF TypeOf(v) \in Types THEN TypeOf(v) ELSE "_set"

(* The "order matters" comments of lines 2 and 18: a get or set that      *)
(* returns went through the accessor of the value's own type -- set       *)
(* stores a bool as a flag, not as the number it also converts to, and    *)
(* get reads an entry with the getter of the type it was stored under.    *)
(* The bare excepts of lines 12 and 27 must not turn an accessor's        *)
(* failure into a silent fall-through to the next type.                   *)
TypedDispatch ==
    op = "idle" /\ ~inDict /\ ~last.raised =>
        /\ last.call = "set" => last.via = OwnSetter(val) /\ last.res.val = val
        /\ last.call = "get" => last.via = OwnGetter(last.res)

(* set_from_dict (lines 34-39) is not atomic: when it ends, the items     *)
(* before some position n are stored with their values, every other key   *)
(* keeps what it held when the call began, and n falls short of the whole *)
(* dictionary exactly when the call raised.                               *)
DictPrefix ==
    (op = "idle" /\ ~inDict /\ last.call = "dict") =>
        \E n \in 0..Len(dict) :
            /\ last.raised <=> n < Len(dict)
            /\ \A j \in 1..n : db[dict[j].key] # NoEntry
                               /\ db[dict[j].key].val = dict[j].val
            /\ \A k \in Keys \ {dict[j].key : j \in 1..n} : db[k] = db0[k]

====
