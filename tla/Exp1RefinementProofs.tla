------------------------ MODULE Exp1RefinementProofs ------------------------
(***************************************************************************)
(* Proof that every run of the script is a run of the exchange-file        *)
(* specification under the mapping of Exp1Refinement, for every value of  *)
(* the constants.                                                          *)
(*                                                                         *)
(* A step of the script maps to a step of Exp1Exchange only if the script *)
(* is where the mapping says: the file is closed while the script          *)
(* computes and open while it writes, nothing is written before the cut,  *)
(* and the transects are those of the input once they are defined.  RInv  *)
(* adds these facts to FInv, whose BufState says that the cut copies the  *)
(* samples of the transect points.                                         *)
(***************************************************************************)
EXTENDS Exp1Refinement, Exp1Faithful

(* Line 77: from DefineProfiles on, the transects are those of the input. *)
TransState ==
    pc \in {"mesh", "sample", "write", "close", "done"} => trans = TransectsOf(inp)

(* Nothing is written before the cut of lines 257-319, and after it the   *)
(* file holds the expected profiles.                                      *)
OutState ==
    /\ pc \in SamplingPhases \cup {"write"} => out = NoProfiles
    /\ pc \in {"close", "done"} => out = ExpectedFor(inp)

(* The file is absent while the script computes, open while it writes and *)
(* complete once it is done.                                               *)
FileMap ==
    /\ pc \in SamplingPhases => file = "none"
    /\ pc \in {"write", "close"} => file = "partial"
    /\ pc = "done" => file = "complete"

(* The invariant behind the refinement. *)
RInv == FInv /\ TransState /\ OutState /\ FileMap

-----------------------------------------------------------------------------

USE Exp1Assumption, HelperAssumption

(* The transects the script defines are those of its input. *)
LEMMA DefinedTransects ==
    [t \in 1..NT |-> TroughPoints(<<Mp, Mp>>, Stops[t])] = TransectsOf(inp)
BY DEF TransectsOf, Mp, Stops, Mx, My

(* With the transects of the input, filled buffers cut to the transect     *)
(* lengths are the expected profiles.                                      *)
LEMMA CutIsExpected ==
    ASSUME trans = TransectsOf(inp),
           \A t \in 1..NT : \A s \in 1..Len(trans[t]) : Sampled(t, s)
    PROVE  [t \in 1..NT |-> [s \in 1..Len(trans[t]) |-> buf[t][s]]]
               = ExpectedFor(inp)
<1>1. ASSUME NEW t \in 1..NT, NEW s \in 1..Len(trans[t])
      PROVE  buf[t][s] = SampleOf(XMOf(inp), YMOf(inp), inp.cont, MaskRefOf(inp),
                                  TransectsOf(inp)[t][s])
  BY <1>1 DEF Sampled, Ref, InputXM, InputYM, InputMask
<1>2. QED
  BY <1>1 DEF ExpectedFor

(* The script starts in a state of RInv. *)
LEMMA InitRInv == Init => RInv
<1> SUFFICES ASSUME Init PROVE RInv
  OBVIOUS
<1>1. FInv
  BY InitFInv
<1>2. QED
  BY <1>1 DEF Init, RInv, TransState, OutState, FileMap, SamplingPhases,
             NoProfiles

(* Every block of the script keeps RInv. *)
LEMMA NextRInv == RInv /\ [Next]_vars => RInv'
<1> SUFFICES ASSUME RInv, [Next]_vars PROVE RInv'
  OBVIOUS
<1>0. /\ FInv /\ FInv' /\ TransState /\ OutState /\ FileMap
      /\ BufState /\ TypeOK
  BY NextFInv DEF RInv, FInv, IInv
<1> USE <1>0
<1>1. CASE \/ NamesMissing \/ TimeSeriesTooShort \/ MeshIndexError
           \/ SampleOutOfGrid \/ BufferFull \/ WriteFails
  <2>1. pc' = "failed"
    BY <1>1 DEF NamesMissing, TimeSeriesTooShort, MeshIndexError,
                SampleOutOfGrid, BufferFull, WriteFails, Fail
  <2>2. QED
    BY <2>1 DEF RInv, TransState, OutState, FileMap, SamplingPhases
<1>2. CASE ReadPrimary \/ ReadFallback \/ ReadTimeSeries \/ BuildMesh
           \/ SamplePoint \/ NextTransect
  <2>1. /\ pc \in SamplingPhases /\ pc' \in SamplingPhases
        /\ pc' \in {"mesh", "sample"} => pc \in {"mesh", "sample"}
        /\ UNCHANGED <<inp, trans, file, out>>
    BY <1>2 DEF ReadPrimary, ReadFallback, ReadTimeSeries, BuildMesh,
                SamplePoint, NextTransect, SamplingPhases
  <2>2. QED
    BY <2>1 DEF RInv, TransState, OutState, FileMap, SamplingPhases
<1>3. CASE DefineProfiles
  <2>1. /\ pc = "define" /\ pc' = "mesh"
        /\ trans' = [t \in 1..NT |-> TroughPoints(<<Mp, Mp>>, Stops[t])]
        /\ UNCHANGED <<inp, file, out>>
    BY <1>3 DEF DefineProfiles
  <2>2. TransState'
    BY <2>1, DefinedTransects DEF TransState, TransectsOf
  <2>3. QED
    BY <2>1, <2>2 DEF RInv, OutState, FileMap, SamplingPhases
<1>4. CASE CreateFile
  <2>1. /\ pc = "sample" /\ pc' = "write" /\ file' = "partial"
        /\ UNCHANGED <<inp, trans, out>>
    BY <1>4 DEF CreateFile
  <2>2. QED
    BY <2>1 DEF RInv, TransState, OutState, FileMap, SamplingPhases
<1>5. CASE WriteData
  <2>1. /\ pc = "write" /\ pc' = "close"
        /\ out' = [t \in 1..NT |-> [s \in 1..Len(trans[t]) |-> buf[t][s]]]
        /\ UNCHANGED <<inp, trans, file>>
    BY <1>5 DEF WriteData
  <2>2. trans = TransectsOf(inp)
    BY <2>1 DEF TransState
  <2>3. out' = ExpectedFor(inp)
    BY <2>1, <2>2, CutIsExpected DEF BufState
  <2>4. QED
    BY <2>1, <2>2, <2>3 DEF RInv, TransState, OutState, FileMap, SamplingPhases,
                           ExpectedFor, TransectsOf
<1>6. CASE CloseFile
  <2>1. /\ pc = "close" /\ pc' = "done" /\ file' = "complete"
        /\ UNCHANGED <<inp, trans, out>>
    BY <1>6 DEF CloseFile
  <2>2. QED
    BY <2>1 DEF RInv, TransState, OutState, FileMap, SamplingPhases,
                ExpectedFor, TransectsOf
<1>7. CASE UNCHANGED vars
  BY <1>7 DEF vars, RInv, TransState, OutState, FileMap, SamplingPhases,
              ExpectedFor, TransectsOf
<1>8. QED
  BY <1>1, <1>2, <1>3, <1>4, <1>5, <1>6, <1>7 DEF Next

(* The run status seen from outside changes only when pc reaches "done"   *)
(* or "failed".                                                            *)
LEMMA StatusRunning ==
    ASSUME pc \notin {"done", "failed"}
    PROVE  Status = "running"
BY DEF Status

(* Every step of the script is a step of the exchange-file specification  *)
(* or leaves its variables alone: the failures are Abort, CreateFile is   *)
(* Open, WriteData is Fill and CloseFile is Close.                         *)
LEMMA StepRefines == RInv /\ [Next]_vars => [X!Next]_X!avars
<1> SUFFICES ASSUME RInv, [Next]_vars PROVE [X!Next]_X!avars
  OBVIOUS
<1>0. /\ RInv' /\ TypeOK /\ OutState /\ OutState' /\ FileMap
  BY NextRInv DEF RInv, FInv, IInv
<1> USE <1>0
<1>1. CASE \/ NamesMissing \/ TimeSeriesTooShort \/ MeshIndexError
           \/ SampleOutOfGrid \/ BufferFull \/ WriteFails
  <2>1. /\ pc \notin {"done", "failed"} /\ pc' = "failed"
        /\ UNCHANGED <<inp, file, out>>
    BY <1>1 DEF NamesMissing, TimeSeriesTooShort, MeshIndexError,
                SampleOutOfGrid, BufferFull, WriteFails, Fail
  <2>2. Status = "running" /\ Status' = "failed"
    BY <2>1, StatusRunning DEF Status
  <2>3. X!Abort
    BY <2>1, <2>2 DEF X!Abort
  <2>4. QED
    BY <2>3 DEF X!Next
<1>2. CASE \/ ReadPrimary \/ ReadFallback \/ ReadTimeSeries \/ DefineProfiles
           \/ BuildMesh \/ SamplePoint \/ NextTransect
  <2>1. /\ pc \in SamplingPhases /\ pc' \in SamplingPhases
        /\ UNCHANGED <<inp, file, out>>
    BY <1>2 DEF ReadPrimary, ReadFallback, ReadTimeSeries, DefineProfiles,
                BuildMesh, SamplePoint, NextTransect, SamplingPhases
  <2>2. Status = "running" /\ Status' = "running"
    BY <2>1 DEF Status, SamplingPhases
  <2>3. QED
    BY <2>1, <2>2 DEF X!avars
<1>3. CASE CreateFile
  <2>1. /\ pc = "sample" /\ pc' = "write" /\ file' = "partial"
        /\ UNCHANGED <<inp, out>>
    BY <1>3 DEF CreateFile
  <2>2. Status = "running" /\ Status' = "running" /\ file = "none"
    BY <2>1 DEF Status, FileMap, SamplingPhases
  <2>3. X!Open
    BY <2>1, <2>2 DEF X!Open
  <2>4. QED
    BY <2>3 DEF X!Next
<1>4. CASE WriteData
  <2>1. /\ pc = "write" /\ pc' = "close"
        /\ UNCHANGED <<inp, file>>
    BY <1>4 DEF WriteData
  <2>2. /\ Status = "running" /\ Status' = "running" /\ file = "partial"
        /\ out = NoProfiles /\ out' = ExpectedFor(inp)
    BY <2>1 DEF Status, FileMap, OutState
  <2>3. X!Fill
    BY <2>1, <2>2 DEF X!Fill
  <2>4. QED
    BY <2>3 DEF X!Next
<1>5. CASE CloseFile
  <2>1. /\ pc = "close" /\ pc' = "done" /\ file' = "complete"
        /\ UNCHANGED <<inp, out>>
    BY <1>5 DEF CloseFile
  <2>2. /\ Status = "running" /\ Status' = "done" /\ file = "partial"
        /\ out = ExpectedFor(inp)
    BY <2>1 DEF Status, FileMap, OutState
  <2>3. X!Close
    BY <2>1, <2>2 DEF X!Close
  <2>4. QED
    BY <2>3 DEF X!Next
<1>6. CASE UNCHANGED vars
  <2>1. UNCHANGED <<pc, inp, file, out>>
    BY <1>6 DEF vars
  <2>2. Status' = Status
    BY <2>1 DEF Status
  <2>3. QED
    BY <2>1, <2>2 DEF X!avars
<1>7. QED
  BY <1>1, <1>2, <1>3, <1>4, <1>5, <1>6 DEF Next

(* The script implements the exchange-file specification: every run of    *)
(* postprocess_exp1.py creates the file before writing, writes the        *)
(* expected profiles once, completes the file only when it holds them, and *)
(* never leaves done or failed, for every input, lattice and buffer size.  *)
THEOREM Refinement == Spec => Exchange
<1>1. Init => RInv
  BY InitRInv
<1>2. RInv /\ [Next]_vars => RInv'
  BY NextRInv
<1>3. Init => X!Init
  BY DEF Init, X!Init, Status, NoProfiles
<1>4. RInv /\ [Next]_vars => [X!Next]_X!avars
  BY StepRefines
<1>5. QED
  BY <1>1, <1>2, <1>3, <1>4, PTL DEF Spec, Exchange, X!SafeSpec

====
