---------------------------- MODULE ConfigProofs ----------------------------
(***************************************************************************)
(* Proofs about the Config.py dispatcher, for every set of keys and        *)
(* values, every typing of the values and every bound on the calls.        *)
(*                                                                         *)
(* CInv strengthens TypeOK with the shape of a running call (a get never   *)
(* runs inside set_from_dict; inside it, set works on item pos) and with  *)
(* DictState, which says how far set_from_dict has got: the items before  *)
(* pos are stored, every other key holds what it held when the call       *)
(* began.  DictPrefix follows.  Without transient accessor errors,        *)
(* Progress adds that every accessor a running call has passed rejected   *)
(* the value or entry, so the one that accepts is the first to do so: the *)
(* one of the value's own type.  TypedDispatch follows.                    *)
(***************************************************************************)
EXTENDS ConfigDispatch, SequenceTheorems, TLAPS

DictItem == [key : Keys, val : Vals]

(* A running call: get only outside set_from_dict, and set inside it on   *)
(* the item at pos.                                                        *)
CallShape ==
    /\ op = "get" => ~inDict
    /\ inDict /\ op = "set" =>
           pos <= Len(dict) /\ key = dict[pos].key /\ val = dict[pos].val

(* The first n items of dict are stored; no other key has changed. *)
Applied(n) == \A j \in 1..n : db[dict[j].key] # NoEntry
                             /\ db[dict[j].key].val = dict[j].val
Untouched(n) == \A k \in Keys \ {dict[j].key : j \in 1..n} : db[k] = db0[k]

(* How far set_from_dict has got, while it runs and after it ended. *)
DictState ==
    /\ inDict => Applied(pos - 1) /\ Untouched(pos - 1)
    /\ ~inDict /\ last.call = "dict" =>
           /\ Applied(pos - 1) /\ Untouched(pos - 1)
           /\ last.raised <=> pos - 1 < Len(dict)

CInv == TypeOK /\ CallShape /\ DictState

(* Every accessor a running call has passed rejected its value or entry. *)
Progress ==
    /\ op = "get" => \A n \in 1..i - 1 : ~Reads(GetMethods[n], db[key])
    /\ op = "set" => \A n \in 1..i - 1 : ~Converts(SetMethods[n], val)

-----------------------------------------------------------------------------

USE ConfigAssumption

(* A dictionary is a sequence of at most two items with distinct keys. *)
LEMMA DictsFacts ==
    ASSUME NEW d \in Dicts
    PROVE  /\ d \in Seq(DictItem)
           /\ Len(d) \in 0..2
           /\ \A j1, j2 \in 1..Len(d) : j1 # j2 => d[j1].key # d[j2].key
<1>1. CASE d = <<>>
  BY <1>1, EmptySeq DEF DictItem
<1>2. CASE \E k \in Keys, v \in Vals : d = <<[key |-> k, val |-> v]>>
  BY <1>2 DEF DictItem
<1>3. CASE \E k1, k2 \in Keys, v1, v2 \in Vals :
              d = <<[key |-> k1, val |-> v1], [key |-> k2, val |-> v2]>>
              /\ k1 # k2
  BY <1>3 DEF DictItem
<1>4. QED
  BY <1>1, <1>2, <1>3 DEF Dicts

(* The method lists are sequences of types. *)
LEMMA MethodFacts ==
    /\ Len(GetMethods) = 4 /\ Len(SetMethods) = 4
    /\ \A n \in 1..4 : GetMethods[n] \in Types /\ SetMethods[n] \in Types
BY DEF GetMethods, SetMethods, Types

(* The database starts well typed; no call runs and none has returned. *)
LEMMA InitCInv == Init => CInv
<1> SUFFICES ASSUME Init PROVE CInv
  OBVIOUS
<1>1. db \in [Keys -> {NoEntry} \cup Entry]
  BY DEF Init, InitEntries, Entry, Types
<1>2. <<>> \in Dicts /\ Len(<<>>) = 0
  BY DEF Dicts
<1>3. /\ key \in Keys /\ val \in Vals /\ i \in 1..Len(SetMethods) + 1
      /\ dict \in Dicts /\ pos \in 1..Len(dict) + 1 /\ calls \in 0..MaxCalls
  BY <1>2, MethodFacts DEF Init
<1>4. last \in Outcomes
  BY DEF Init, Outcomes, Types
<1>5. TypeOK
  BY <1>1, <1>3, <1>4 DEF Init, TypeOK
<1>6. QED
  BY <1>5 DEF Init, CInv, CallShape, DictState

(* A set inside set_from_dict that stores the item at pos extends the     *)
(* stored prefix by that item and touches no other key: the keys of a     *)
(* dictionary are distinct.                                                *)
LEMMA DictWrite ==
    ASSUME TypeOK, CallShape, inDict, op = "set",
           Applied(pos - 1), Untouched(pos - 1),
           NEW e \in Entry, e.val = val,
           db' = [db EXCEPT ![key] = e], pos' = pos + 1,
           dict' = dict, db0' = db0
    PROVE  /\ \A j \in 1..pos : db'[dict'[j].key] # NoEntry
                                 /\ db'[dict'[j].key].val = dict'[j].val
           /\ \A k \in Keys \ {dict'[j].key : j \in 1..pos} : db'[k] = db0'[k]
<1>1. /\ dict \in Seq(DictItem)
      /\ \A j1, j2 \in 1..Len(dict) : j1 # j2 => dict[j1].key # dict[j2].key
      /\ pos \in 1..Len(dict) /\ key = dict[pos].key /\ val = dict[pos].val
  BY DictsFacts DEF TypeOK, CallShape
<1>2. e # NoEntry
  BY ConfigAssumption DEF Entry
<1>3. ASSUME NEW j \in 1..pos
      PROVE  db'[dict[j].key] # NoEntry /\ db'[dict[j].key].val = dict[j].val
  <2>1. CASE j = pos
    BY <2>1, <1>1, <1>2 DEF TypeOK
  <2>2. CASE j # pos
    <3>1. j \in 1..pos - 1 /\ dict[j].key # key
      BY <2>2, <1>1
    <3>2. db'[dict[j].key] = db[dict[j].key]
      BY <3>1, <1>1 DEF TypeOK, DictItem
    <3>3. QED
      BY <3>1, <3>2 DEF Applied
  <2>3. QED
    BY <2>1, <2>2
<1>4. ASSUME NEW k \in Keys \ {dict[j].key : j \in 1..pos}
      PROVE  db'[k] = db0[k]
  <2>1. k # key /\ k \in Keys \ {dict[j].key : j \in 1..pos - 1}
    BY <1>1
  <2>2. QED
    BY <2>1 DEF TypeOK, Untouched
<1>5. QED
  BY <1>3, <1>4

(* Every call and every step of a call keeps CInv. *)
LEMMA NextCInv == CInv /\ [Next]_vars => CInv'
<1> SUFFICES ASSUME CInv, [Next]_vars PROVE CInv'
  OBVIOUS
<1>0. /\ TypeOK /\ CallShape /\ DictState
      /\ Len(GetMethods) = 4 /\ Len(SetMethods) = 4
      /\ \A n \in 1..4 : GetMethods[n] \in Types /\ SetMethods[n] \in Types
      /\ dict \in Seq(DictItem) /\ Len(dict) \in 0..2
  BY MethodFacts, DictsFacts DEF CInv, TypeOK
<1> USE <1>0
<1>1. ASSUME NEW k \in Keys
      PROVE  CallGet(k) => CInv'
  BY DEF CallGet, Idle, CInv, TypeOK, CallShape, DictState, Applied, Untouched
<1>2. ASSUME NEW k \in Keys, NEW v \in Vals
      PROVE  CallSet(k, v) => CInv'
  BY DEF CallSet, Idle, CInv, TypeOK, CallShape, DictState, Applied, Untouched
<1>3. ASSUME NEW d \in Dicts
      PROVE  CallSetFromDict(d) => CInv'
  <2> SUFFICES ASSUME CallSetFromDict(d) PROVE CInv'
    OBVIOUS
  <2>1. /\ inDict' = TRUE /\ dict' = d /\ pos' = 1 /\ db0' = db /\ op' = "idle"
        /\ UNCHANGED <<db, op, key, val, i, last>> /\ calls' = calls + 1
        /\ calls < MaxCalls
    BY DEF CallSetFromDict, Idle
  <2>2. Len(d) \in 0..2
    BY DictsFacts
  <2>3. TypeOK'
    BY <2>1, <2>2 DEF TypeOK
  <2>4. DictState'
    BY <2>1 DEF DictState, Applied, Untouched
  <2>5. QED
    BY <2>1, <2>3, <2>4 DEF CInv, CallShape
<1>4. CASE DictNext
  <2>1. /\ inDict /\ op = "idle" /\ pos <= Len(dict)
        /\ op' = "set" /\ key' = dict[pos].key /\ val' = dict[pos].val /\ i' = 1
        /\ UNCHANGED <<db, inDict, dict, pos, db0, last, calls>>
    BY <1>4 DEF DictNext
  <2>2. pos \in 1..Len(dict)
    BY <2>1 DEF TypeOK
  <2>3. dict[pos] \in DictItem
    BY <2>2
  <2>4. TypeOK'
    BY <2>1, <2>3 DEF TypeOK, DictItem
  <2>5. QED
    BY <2>1, <2>4 DEF CInv, CallShape, DictState, Applied, Untouched
<1>5. CASE DictDone
  <2>1. /\ inDict /\ op = "idle" /\ pos > Len(dict) /\ inDict' = FALSE
        /\ last' = [call |-> "dict", raised |-> FALSE, via |-> "none", res |-> NoEntry]
        /\ UNCHANGED <<db, op, key, val, i, dict, pos, db0, calls>>
    BY <1>5 DEF DictDone
  <2>2. pos - 1 = Len(dict)
    BY <2>1 DEF TypeOK
  <2>3. last' \in Outcomes
    BY <2>1 DEF Outcomes
  <2>4. TypeOK'
    BY <2>1, <2>3 DEF TypeOK
  <2>5. DictState'
    BY <2>1, <2>2 DEF DictState, Applied, Untouched
  <2>6. QED
    BY <2>1, <2>4, <2>5 DEF CInv, CallShape
<1>6. CASE GetTry
  <2>1. /\ op = "get" /\ i \in 1..4 /\ ~inDict
        /\ UNCHANGED <<db, key, val, inDict, dict, pos, db0, calls>>
    BY <1>6 DEF GetTry, TypeOK, CallShape
  <2>2. [call |-> "get", raised |-> FALSE, via |-> GetMethods[i], res |-> db[key]]
            \in Outcomes
    BY <2>1 DEF TypeOK, Outcomes
  <2>3. CASE /\ op' = "idle" /\ UNCHANGED i
             /\ last' = [call |-> "get", raised |-> FALSE, via |-> GetMethods[i],
                         res |-> db[key]]
    <3>1. TypeOK'
      BY <2>1, <2>2, <2>3 DEF TypeOK
    <3>2. QED
      BY <2>1, <2>3, <3>1 DEF CInv, CallShape, DictState
  <2>4. CASE i' = i + 1 /\ UNCHANGED <<op, last>>
    <3>1. TypeOK'
      BY <2>1, <2>4 DEF TypeOK
    <3>2. QED
      BY <2>1, <2>4, <3>1 DEF CInv, CallShape, DictState, Applied, Untouched
  <2>5. QED
    BY <1>6, <2>3, <2>4 DEF GetTry
<1>7. CASE GetFallback
  <2>1. /\ op = "get" /\ ~inDict /\ op' = "idle"
        /\ UNCHANGED <<db, key, val, i, inDict, dict, pos, db0, calls>>
    BY <1>7 DEF GetFallback, CallShape
  <2>2. /\ [call |-> "get", raised |-> FALSE, via |-> "_get", res |-> db[key]]
              \in Outcomes
        /\ [call |-> "get", raised |-> TRUE, via |-> "none", res |-> NoEntry]
              \in Outcomes
    BY DEF TypeOK, Outcomes
  <2>3. \/ last' = [call |-> "get", raised |-> FALSE, via |-> "_get", res |-> db[key]]
        \/ last' = [call |-> "get", raised |-> TRUE, via |-> "none", res |-> NoEntry]
    BY <1>7, Zenon DEF GetFallback
  <2>4. last' \in Outcomes /\ last'.call = "get"
    <3>1. CASE last' = [call |-> "get", raised |-> FALSE, via |-> "_get", res |-> db[key]]
      BY <3>1, <2>2
    <3>2. CASE last' = [call |-> "get", raised |-> TRUE, via |-> "none", res |-> NoEntry]
      BY <3>2, <2>2
    <3>3. QED
      BY <3>1, <3>2, <2>3
  <2>5. TypeOK'
    BY <2>1, <2>4 DEF TypeOK
  <2>6. QED
    BY <2>1, <2>4, <2>5 DEF CInv, CallShape, DictState
<1>8. ASSUME NEW via \in Types \cup {"_set"},
             op = "set",
             db' = [db EXCEPT ![key] = [by |-> via, val |-> val]],
             SetReturns(via), inDict' = inDict,
             UNCHANGED <<key, val, dict, db0, calls>>, i' \in 1..5
      PROVE  CInv'
  <2>1. [by |-> via, val |-> val] \in Entry
    BY DEF TypeOK, Entry
  <2>2. db' \in [Keys -> {NoEntry} \cup Entry]
    BY <2>1, <1>8 DEF TypeOK
  <2>3. CASE inDict
    <3>1. pos' = pos + 1 /\ last' = last /\ op' = "idle"
      BY <2>3, <1>8 DEF SetReturns
    <3>2. pos \in 1..Len(dict)
      BY <2>3, <1>8 DEF CallShape, TypeOK
    <3>3. /\ \A j \in 1..pos : db'[dict'[j].key] # NoEntry
                               /\ db'[dict'[j].key].val = dict'[j].val
          /\ \A k \in Keys \ {dict'[j].key : j \in 1..pos} : db'[k] = db0'[k]
      BY <2>1, <2>3, <3>1, <1>8, DictWrite DEF DictState
    <3>4. DictState'
      BY <2>3, <3>1, <3>2, <3>3, <1>8 DEF DictState, Applied, Untouched
    <3>5. TypeOK'
      BY <2>2, <3>1, <3>2, <1>8 DEF TypeOK
    <3>6. QED
      BY <3>1, <3>4, <3>5 DEF CInv, CallShape
  <2>4. CASE ~inDict
    <3>1. /\ pos' = pos /\ op' = "idle"
          /\ last' = [call |-> "set", raised |-> FALSE, via |-> via, res |-> db'[key]]
      BY <2>4, <1>8 DEF SetReturns
    <3>2. last' \in Outcomes
      BY <3>1, <2>1, <1>8 DEF Outcomes, TypeOK, Types
    <3>3. TypeOK'
      BY <2>2, <3>1, <3>2, <1>8 DEF TypeOK
    <3>4. QED
      BY <2>4, <3>1, <3>3, <1>8 DEF CInv, CallShape, DictState
  <2>5. QED
    BY <2>3, <2>4
<1>9. CASE SetTry
  <2>1. /\ op = "set" /\ i \in 1..4
        /\ UNCHANGED <<key, val, dict, db0, calls>>
    BY <1>9 DEF SetTry, TypeOK
  <2>2. CASE /\ Converts(SetMethods[i], val)
             /\ db' = [db EXCEPT ![key] = [by |-> SetMethods[i], val |-> val]]
             /\ SetReturns(SetMethods[i])
             /\ UNCHANGED <<i, inDict>>
    <3>1. SetMethods[i] \in Types \cup {"_set"} /\ i' \in 1..5
      BY <2>1, <2>2
    <3>2. QED
      BY <2>1, <2>2, <3>1, <1>8
  <2>3. CASE /\ i' = i + 1
             /\ UNCHANGED <<db, op, pos, inDict, last>>
    <3>1. TypeOK'
      BY <2>1, <2>3 DEF TypeOK
    <3>2. QED
      BY <2>1, <2>3, <3>1 DEF CInv, CallShape, DictState, Applied, Untouched
  <2>4. QED
    BY <1>9, <2>2, <2>3 DEF SetTry
<1>10. CASE SetFallback
  <2>1. /\ op = "set" /\ i = 5
        /\ UNCHANGED <<key, val, i, dict, db0, calls>>
    BY <1>10 DEF SetFallback, TypeOK
  <2>2. CASE /\ db' = [db EXCEPT ![key] = [by |-> "_set", val |-> val]]
             /\ SetReturns("_set")
             /\ UNCHANGED inDict
    <3>1. i' \in 1..5
      BY <2>1
    <3>2. QED
      BY <2>1, <2>2, <3>1, <1>8
  <2>3. CASE SetRaises
    <3>1. /\ op' = "idle" /\ inDict' = FALSE
          /\ last' = [call |-> IF inDict THEN "dict" ELSE "set", raised |-> TRUE,
                      via |-> "none", res |-> NoEntry]
          /\ UNCHANGED <<db, pos>>
      BY <2>3 DEF SetRaises
    <3>2. TypeOK'
      BY <2>1, <3>1 DEF TypeOK, Outcomes, Types
    <3>3. CASE inDict
      <4>1. pos \in 1..Len(dict)
        BY <3>3, <2>1 DEF CallShape, TypeOK
      <4>2. DictState'
        BY <3>3, <4>1, <3>1, <2>1 DEF DictState, Applied, Untouched
      <4>3. QED
        BY <3>1, <3>2, <4>2 DEF CInv, CallShape
    <3>4. CASE ~inDict
      BY <3>4, <3>1, <3>2 DEF CInv, CallShape, DictState
    <3>5. QED
      BY <3>3, <3>4
  <2>4. QED
    BY <1>10, <2>2, <2>3 DEF SetFallback
<1>11. CASE UNCHANGED vars
  BY <1>11 DEF vars, CInv, TypeOK, CallShape, DictState, Applied, Untouched
<1>12. QED
  BY <1>1, <1>2, <1>3, <1>4, <1>5, <1>6, <1>7, <1>9, <1>10, <1>11 DEF Next

(* The configuration database, the call state and the last outcome are    *)
(* always well typed, whatever the keys, values and bound.                 *)
THEOREM ConfigTypeCorrect == Spec => []TypeOK
<1>1. Init => CInv
  BY InitCInv
<1>2. CInv /\ [Next]_vars => CInv'
  BY NextCInv
<1>3. CInv => TypeOK
  BY DEF CInv
<1>4. QED
  BY <1>1, <1>2, <1>3, PTL DEF Spec

(* When set_from_dict (lines 34-39) ends, returning or raising, the items  *)
(* before some position are stored, no other key changed, and it raised   *)
(* exactly when that position falls short of the dictionary.               *)
THEOREM DictPrefixHolds == Spec => []DictPrefix
<1>1. CInv => DictPrefix
  <2> SUFFICES ASSUME CInv, op = "idle", ~inDict, last.call = "dict"
               PROVE  \E n \in 0..Len(dict) :
                          /\ last.raised <=> n < Len(dict)
                          /\ \A j \in 1..n : db[dict[j].key] # NoEntry
                                             /\ db[dict[j].key].val = dict[j].val
                          /\ \A k \in Keys \ {dict[j].key : j \in 1..n} : db[k] = db0[k]
    BY DEF DictPrefix
  <2>1. pos - 1 \in 0..Len(dict) /\ Len(dict) \in Nat
    BY DictsFacts, LenProperties DEF CInv, TypeOK
  <2>2. /\ Applied(pos - 1) /\ Untouched(pos - 1)
        /\ last.raised <=> pos - 1 < Len(dict)
    BY DEF CInv, DictState
  <2>3. QED
    BY <2>1, <2>2 DEF Applied, Untouched
<1>2. QED
  BY <1>1, InitCInv, NextCInv, PTL DEF Spec

-----------------------------------------------------------------------------
(* The dispatch order when accessors fail only on what they cannot take. *)

(* The first setter in the order of lines 18-23 that converts a value is  *)
(* the setter of the value's own type: only a bool converts to a second   *)
(* type, the number, and the flag setter comes first.                      *)
LEMMA FirstConverter ==
    ASSUME NEW v \in Vals, NEW n \in 1..4, Converts(SetMethods[n], v),
           \A m \in 1..n - 1 : ~Converts(SetMethods[m], v)
    PROVE  SetMethods[n] = OwnSetter(v)
<1>1. TypeOf(v) \in Types \cup {"other", "none"}
  OBVIOUS
<1>2. n = 1 \/ n = 2 \/ n = 3 \/ n = 4
  OBVIOUS
<1>3. CASE n = 1
  BY <1>1, <1>3 DEF SetMethods, Converts, OwnSetter, Types
<1>4. CASE n = 2
  <2>1. ~Converts(SetMethods[1], v)
    BY <1>4
  <2>2. QED
    BY <1>1, <1>4, <2>1 DEF SetMethods, Converts, OwnSetter, Types
<1>5. CASE n = 3
  BY <1>1, <1>5 DEF SetMethods, Converts, OwnSetter, Types
<1>6. CASE n = 4
  BY <1>1, <1>6 DEF SetMethods, Converts, OwnSetter, Types
<1>7. QED
  BY <1>2, <1>3, <1>4, <1>5, <1>6

(* A value no typed setter converts is of no typed accessor's type. *)
LEMMA NoConverter ==
    ASSUME NEW v \in Vals, \A m \in 1..4 : ~Converts(SetMethods[m], v)
    PROVE  OwnSetter(v) = "_set"
<1>1. ~Converts(SetMethods[1], v) /\ ~Converts(SetMethods[2], v)
      /\ ~Converts(SetMethods[3], v) /\ ~Converts(SetMethods[4], v)
  OBVIOUS
<1>2. QED
  BY <1>1 DEF SetMethods, Converts, OwnSetter, Types

(* A getter that reads an entry is the getter of the entry's type. *)
LEMMA FirstReader ==
    ASSUME NEW e, NEW n \in 1..4, Reads(GetMethods[n], e)
    PROVE  GetMethods[n] = OwnGetter(e)
BY MethodFacts DEF Reads, OwnGetter, Types

(* An entry no typed getter reads was stored by _set. *)
LEMMA NoReader ==
    ASSUME NEW e \in Entry, \A m \in 1..4 : ~Reads(GetMethods[m], e)
    PROVE  OwnGetter(e) = "_get"
<1>1. ~Reads(GetMethods[1], e) /\ ~Reads(GetMethods[2], e)
      /\ ~Reads(GetMethods[3], e) /\ ~Reads(GetMethods[4], e)
  OBVIOUS
<1>2. e # NoEntry
  BY ConfigAssumption DEF Entry
<1>3. QED
  BY <1>1, <1>2 DEF GetMethods, Reads, OwnGetter, Entry, Types

(* Without transient errors, the dispatcher's invariant: CInv, the        *)
(* accessors passed so far rejected, and the last outcome as it should be. *)
DInv == CInv /\ Progress /\ TypedDispatch

(* Without transient accessor errors every step keeps DInv. *)
LEMMA NextDInv ==
    ASSUME ~Transient
    PROVE  DInv /\ [Next]_vars => DInv'
<1> SUFFICES ASSUME DInv, [Next]_vars PROVE DInv'
  OBVIOUS
<1>0. /\ CInv /\ CInv' /\ TypeOK /\ Progress /\ TypedDispatch /\ CallShape
      /\ Transient = FALSE
  BY NextCInv, ConfigAssumption DEF DInv, CInv
<1> USE <1>0
<1>1. CASE \/ \E k \in Keys : CallGet(k)
           \/ \E k \in Keys, v \in Vals : CallSet(k, v)
           \/ \E d \in Dicts : CallSetFromDict(d)
           \/ DictNext
  <2>1. /\ i' = i \/ i' = 1
        /\ (op' # "idle" \/ inDict' = TRUE) /\ (op' = "idle" => i' = i)
        /\ op' \in {"get", "set"} => i' = 1
    BY <1>1 DEF CallGet, CallSet, CallSetFromDict, DictNext, Idle
  <2>2. QED
    BY <2>1 DEF DInv, Progress, TypedDispatch, CallGet, CallSet,
                CallSetFromDict, DictNext, Idle
<1>2. CASE DictDone
  BY <1>2 DEF DictDone, DInv, Progress, TypedDispatch
<1>3. CASE GetTry
  <2>1. /\ op = "get" /\ i \in 1..4 /\ ~inDict
        /\ UNCHANGED <<db, key, val, inDict, dict, pos, db0, calls>>
    BY <1>3, MethodFacts DEF GetTry, TypeOK, CallShape
  <2>2. CASE /\ Reads(GetMethods[i], db[key])
             /\ op' = "idle" /\ UNCHANGED i
             /\ last' = [call |-> "get", raised |-> FALSE, via |-> GetMethods[i],
                         res |-> db[key]]
    <3>1. GetMethods[i] = OwnGetter(db[key])
      BY <2>1, <2>2, FirstReader
    <3>2. QED
      BY <2>1, <2>2, <3>1 DEF DInv, Progress, TypedDispatch
  <2>3. CASE /\ ~Reads(GetMethods[i], db[key]) \/ Transient
             /\ i' = i + 1 /\ UNCHANGED <<op, last>>
    <3>1. ~Reads(GetMethods[i], db[key])
      BY <2>3
    <3>2. \A n \in 1..i : ~Reads(GetMethods[n], db[key])
      BY <2>1, <3>1 DEF Progress
    <3>3. QED
      BY <2>1, <2>3, <3>2 DEF DInv, Progress, TypedDispatch
  <2>4. QED
    BY <1>3, <2>2, <2>3 DEF GetTry
<1>4. CASE GetFallback
  <2>1. /\ op = "get" /\ i = 5 /\ ~inDict /\ op' = "idle"
        /\ UNCHANGED <<db, key, val, i, inDict, dict, pos, db0, calls>>
    BY <1>4, MethodFacts DEF GetFallback, TypeOK, CallShape
  <2>2. CASE /\ db[key] # NoEntry
             /\ last' = [call |-> "get", raised |-> FALSE, via |-> "_get", res |-> db[key]]
    <3>1. db[key] \in Entry /\ \A m \in 1..4 : ~Reads(GetMethods[m], db[key])
      BY <2>1, <2>2 DEF Progress, TypeOK
    <3>2. OwnGetter(db[key]) = "_get"
      BY <3>1, NoReader
    <3>3. QED
      BY <2>1, <2>2, <3>2 DEF DInv, Progress, TypedDispatch
  <2>3. CASE last' = [call |-> "get", raised |-> TRUE, via |-> "none", res |-> NoEntry]
    BY <2>1, <2>3 DEF DInv, Progress, TypedDispatch
  <2>4. QED
    BY <1>4, <2>2, <2>3 DEF GetFallback
<1>5. CASE SetTry
  <2>1. /\ op = "set" /\ i \in 1..4
        /\ UNCHANGED <<key, val, dict, db0, calls>>
    BY <1>5, MethodFacts DEF SetTry, TypeOK
  <2>2. CASE /\ Converts(SetMethods[i], val)
             /\ db' = [db EXCEPT ![key] = [by |-> SetMethods[i], val |-> val]]
             /\ SetReturns(SetMethods[i])
             /\ UNCHANGED <<i, inDict>>
    <3>1. op' = "idle"
      BY <2>2 DEF SetReturns
    <3>2. CASE inDict
      BY <2>1, <2>2, <3>1, <3>2 DEF DInv, Progress, TypedDispatch
    <3>3. CASE ~inDict
      <4>1. last' = [call |-> "set", raised |-> FALSE, via |-> SetMethods[i],
                     res |-> db'[key]]
        BY <2>2, <3>3 DEF SetReturns
      <4>2. db'[key] = [by |-> SetMethods[i], val |-> val]
        BY <2>2 DEF TypeOK
      <4>3. SetMethods[i] = OwnSetter(val)
        BY <2>1, <2>2, FirstConverter DEF Progress, TypeOK
      <4>4. QED
        BY <2>1, <2>2, <3>1, <3>3, <4>1, <4>2, <4>3 DEF DInv, Progress, TypedDispatch
    <3>4. QED
      BY <3>2, <3>3
  <2>3. CASE /\ ~Converts(SetMethods[i], val) \/ Transient
             /\ i' = i + 1
             /\ UNCHANGED <<db, op, pos, inDict, last>>
    <3>1. ~Converts(SetMethods[i], val)
      BY <2>3
    <3>2. \A n \in 1..i : ~Converts(SetMethods[n], val)
      BY <2>1, <3>1 DEF Progress
    <3>3. QED
      BY <2>1, <2>3, <3>2 DEF DInv, Progress, TypedDispatch
  <2>4. QED
    BY <1>5, <2>2, <2>3 DEF SetTry
<1>6. CASE SetFallback
  <2>1. /\ op = "set" /\ i = 5
        /\ UNCHANGED <<key, val, i, dict, db0, calls>>
    BY <1>6, MethodFacts DEF SetFallback, TypeOK
  <2>2. CASE /\ db' = [db EXCEPT ![key] = [by |-> "_set", val |-> val]]
             /\ SetReturns("_set")
             /\ UNCHANGED inDict
    <3>1. op' = "idle"
      BY <2>2 DEF SetReturns
    <3>2. CASE inDict
      BY <2>1, <2>2, <3>1, <3>2 DEF DInv, Progress, TypedDispatch
    <3>3. CASE ~inDict
      <4>1. last' = [call |-> "set", raised |-> FALSE, via |-> "_set",
                     res |-> db'[key]]
        BY <2>2, <3>3 DEF SetReturns
      <4>2. db'[key] = [by |-> "_set", val |-> val]
        BY <2>2 DEF TypeOK
      <4>3. OwnSetter(val) = "_set"
        BY <2>1, NoConverter DEF Progress, TypeOK
      <4>4. QED
        BY <2>1, <2>2, <3>1, <3>3, <4>1, <4>2, <4>3 DEF DInv, Progress, TypedDispatch
    <3>4. QED
      BY <3>2, <3>3
  <2>3. CASE SetRaises
    BY <2>1, <2>3 DEF SetRaises, DInv, Progress, TypedDispatch
  <2>4. QED
    BY <1>6, <2>2, <2>3 DEF SetFallback
<1>7. CASE UNCHANGED vars
  BY <1>7 DEF vars, DInv, Progress, TypedDispatch
<1>8. QED
  BY <1>1, <1>2, <1>3, <1>4, <1>5, <1>6, <1>7 DEF Next

(* The "order matters" comments of Config.py hold when every accessor     *)
(* fails only on a value or entry it cannot take: a set that returns      *)
(* stored the value with the setter of its own type, and a get that       *)
(* returns read the entry with the getter of the type it was stored       *)
(* under, for every set of keys and values and every bound.               *)
THEOREM TypedDispatchHolds ==
    ASSUME ~Transient
    PROVE  Spec => []TypedDispatch
<1>1. Init => DInv
  BY InitCInv DEF Init, DInv, Progress, TypedDispatch
<1>2. DInv /\ [Next]_vars => DInv'
  BY NextDInv
<1>3. DInv => TypedDispatch
  BY DEF DInv
<1>4. QED
  BY <1>1, <1>2, <1>3, PTL DEF Spec

=============================================================================
