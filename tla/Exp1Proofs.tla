---------------------------- MODULE Exp1Proofs ----------------------------
(***************************************************************************)
(* Proofs about Exp1Postprocess, for every value of the constants.         *)
(*                                                                         *)
(* TypeOK alone is not inductive: a sampling step needs the fields to be   *)
(* numbers (they get NaN only when the file is created, after the loop),   *)
(* and the cut of lines 257-319 needs every transect to fit the buffers,   *)
(* which the loop learns one transect at a time.  IInv adds both.          *)
(***************************************************************************)
EXTENDS Exp1Postprocess, SequenceTheorems, TLAPS

SamplingPhases == {"read", "readts", "define", "mesh", "sample"}

(* The inductive invariant: the type, numeric fields until the file is    *)
(* created, and the buffer bound learnt by the sampling loop.             *)
IInv ==
    /\ TypeOK
    /\ pc \in SamplingPhases => fld \in [Cont -> [Grid(Mx, My) -> Int]]
    /\ pc = "sample" =>
           /\ \A t \in 1..l - 1 : Len(trans[t]) <= BufCap
           /\ l <= NT => k <= BufCap + 1
    /\ pc \in {"write", "close", "done"} =>
           \A t \in 1..NT : Len(trans[t]) <= BufCap

USE Exp1Assumption, HelperAssumption

(* An input record is well formed; its grid is a set of integer pairs. *)
LEMMA InputFacts ==
    ASSUME NEW in \in Inputs
    PROVE  /\ in.Mx \in Nat /\ in.My \in Nat /\ in.Mx >= 3 /\ in.My >= 3
           /\ in.x \in [0..in.My - 1 -> Int]
           /\ in.y \in [0..in.Mx - 1 -> Int]
           /\ in.cont \in [Cont -> [Grid(in.Mx, in.My) -> Int]]
           /\ in.mask \in [Grid(in.Mx, in.My) -> StoredMask]
BY DEF InputOK

(* get_troughs returns a sequence of lattice points when the step count   *)
(* exists within the bound.                                               *)
LEMMA TroughPointsType ==
    ASSUME NEW s \in Int \X Int, NEW e \in Int \X Int,
           HasStepCount(<<e[1] - s[1], e[2] - s[2]>>)
    PROVE  TroughPoints(s, e) \in Seq(Point)
<1> DEFINE d == <<e[1] - s[1], e[2] - s[2]>>
           n == NSteps(d)
<1>1. n \in 0..MaxSteps
  BY DEF HasStepCount, NSteps
<1>2. CASE n = 0
  BY <1>2 DEF TroughPoints, Point
<1>3. CASE n # 0
  <2>1. n \in Nat \ {0}
    BY <1>1, <1>3
  <2>2. \A j \in 1..n + 1 :
          << s[1] * Den + (d[1] * Den * (j - 1)) \div n,
             s[2] * Den + (d[2] * Den * (j - 1)) \div n >> \in Point
    BY <2>1 DEF Point
  <2> DEFINE pts == [j \in 1..n + 1 |->
                      << s[1] * Den + (d[1] * Den * (j - 1)) \div n,
                         s[2] * Den + (d[2] * Den * (j - 1)) \div n >>]
  <2>3. pts \in Seq(Point)
    <3>1. pts \in [1..n + 1 -> Point]
      BY <2>2
    <3>2. n + 1 \in Nat
      BY <2>1
    <3>3. QED
      BY <3>1, <3>2, SeqDef
  <2>4. QED
    BY <1>3, <2>3 DEF TroughPoints
<1>4. QED
  BY <1>2, <1>3

(* A sample taken at a supported point from numeric meshes, fields and a  *)
(* remapped mask is a Sample.                                             *)
LEMMA SampleOfType ==
    ASSUME NEW mx \in Nat, NEW my \in Nat,
           NEW xmesh \in [Grid(mx, my) -> Int],
           NEW ymesh \in [Grid(mx, my) -> Int],
           NEW fields \in [Cont -> [Grid(mx, my) -> Int]],
           NEW msk \in [Grid(mx, my) -> MaskCode \cup {0}],
           NEW p \in Point,
           Decompose(p).i \in 0..mx - 2, Decompose(p).j \in 0..my - 2
    PROVE  SampleOf(xmesh, ymesh, fields, msk, p) \in Sample
<1> DEFINE d == Decompose(p)
<1>1. d.di \in 0..Den - 1 /\ d.dj \in 0..Den - 1
  BY DEF Decompose, Point
<1>2. /\ <<d.i, d.j>> \in Grid(mx, my)
      /\ <<d.i, d.j + 1>> \in Grid(mx, my)
      /\ <<d.i + 1, d.j>> \in Grid(mx, my)
      /\ <<d.i + 1, d.j + 1>> \in Grid(mx, my)
  BY DEF Grid
<1>3. ASSUME NEW f \in [Grid(mx, my) -> Int]
      PROVE  interpolate_along_transect(f, d.i, d.j, d.di, d.dj) \in Int
  <2>1. /\ f[<<d.i, d.j>>] \in Int /\ f[<<d.i, d.j + 1>>] \in Int
        /\ f[<<d.i + 1, d.j>>] \in Int /\ f[<<d.i + 1, d.j + 1>>] \in Int
    BY <1>2
  <2>2. QED
    BY <1>1, <2>1 DEF interpolate_along_transect
<1>4. nearest_along_transect(msk, d.i, d.j, d.di, d.dj) \in MaskCode \cup {0}
  <2>1. RoundUp(d.dj) \in {0, 1} /\ RoundUp(d.di) \in {0, 1}
    BY DEF RoundUp
  <2>2. <<d.i + RoundUp(d.dj), d.j + RoundUp(d.di)>> \in Grid(mx, my)
    BY <2>1 DEF Grid
  <2>3. QED
    BY <2>2 DEF nearest_along_transect
<1>5. QED
  BY <1>3, <1>4 DEF SampleOf, Sample

-----------------------------------------------------------------------------

(* The script starts in a state of IInv: nothing read, empty transects. *)
LEMMA InitIInv == Init => IInv
<1> SUFFICES ASSUME Init PROVE IInv
  OBVIOUS
<1>1. inp \in Inputs
  BY DEF Init
<1>2. Mx \in Nat /\ My \in Nat
  BY <1>1, InputFacts DEF Mx, My
<1>3. /\ fld \in [Cont -> [Grid(Mx, My) -> Int]]
      /\ mask \in [Grid(Mx, My) -> MaskCode \cup {0}]
      /\ xm \in [Grid(Mx, My) -> Int]
      /\ ym \in [Grid(Mx, My) -> Int]
      /\ outGlob \in [Cont -> [Grid(Mx, My) -> Int]]
  BY DEF Init, Mx, My
<1>4. trans \in [1..NT -> Seq(Point)] /\ out \in [1..NT -> Seq(Sample)]
  BY EmptySeq DEF Init
<1>5. buf \in [1..NT -> [1..BufCap -> Sample]]
  <2>1. ZeroSample \in Sample
    BY DEF ZeroSample, Sample, MaskCode
  <2>2. QED
    BY <2>1 DEF Init
<1>6. /\ fld \in [Cont -> [Grid(Mx, My) -> Value]]
      /\ outGlob \in [Cont -> [Grid(Mx, My) -> Value]]
  BY <1>3 DEF Value
<1>7. /\ pc \in Phases /\ err \in Errors /\ src \in {"none", "primary", "fallback"}
      /\ l \in 1..NT + 1 /\ k \in Nat \ {0} /\ file \in {"none", "partial", "complete"}
  BY DEF Init, Phases, Errors, NT
<1>8. TypeOK
  BY <1>1, <1>3, <1>4, <1>5, <1>6, <1>7 DEF TypeOK
<1>9. QED
  BY <1>3, <1>8 DEF Init, IInv, SamplingPhases

(* The remapped mask (line 39) takes PISM's codes to MaskCode. *)
LEMMA RemapMaskType ==
    ASSUME NEW S, NEW m \in [S -> StoredMask]
    PROVE  RemapMask(m) \in [S -> MaskCode \cup {0}]
BY DEF RemapMask, MaskCode, StoredMask

(* A sequence of length n <= cap read off a buffer of cap samples. *)
LEMMA CutType ==
    ASSUME NEW cap \in Nat, NEW b \in [1..cap -> Sample], NEW n \in 0..cap
    PROVE  [s \in 1..n |-> b[s]] \in Seq(Sample)
<1>1. [s \in 1..n |-> b[s]] \in [1..n -> Sample]
  OBVIOUS
<1>2. QED
  BY <1>1, SeqDef

(* Every block of the script, and every exception it raises, keeps IInv. *)
LEMMA NextIInv == IInv /\ [Next]_vars => IInv'
<1> SUFFICES ASSUME IInv, [Next]_vars PROVE IInv'
  OBVIOUS
<1>0. /\ TypeOK
      /\ inp \in Inputs
      /\ Mx \in Nat /\ My \in Nat /\ Mx >= 3 /\ My >= 3
      /\ inp.x \in [0..My - 1 -> Int] /\ inp.y \in [0..Mx - 1 -> Int]
      /\ inp.cont \in [Cont -> [Grid(Mx, My) -> Int]]
      /\ inp.mask \in [Grid(Mx, My) -> StoredMask]
  BY InputFacts DEF IInv, TypeOK, Mx, My
<1> USE <1>0
<1>1. CASE NamesMissing \/ TimeSeriesTooShort \/ MeshIndexError
           \/ SampleOutOfGrid \/ BufferFull \/ WriteFails
  <2>1. pc' = "failed" /\ err' \in Errors
        /\ UNCHANGED <<inp, src, fld, mask, xm, ym, trans, l, k, buf, file, outGlob, out>>
    BY <1>1 DEF NamesMissing, TimeSeriesTooShort, MeshIndexError,
                SampleOutOfGrid, BufferFull, WriteFails, Fail, Errors
  <2>2. QED
    BY <2>1 DEF IInv, TypeOK, Phases, SamplingPhases, Mx, My
<1>2. CASE ReadPrimary \/ ReadFallback
  <2>1. /\ fld' = inp.cont /\ mask' = RemapMask(inp.mask) /\ pc' = "readts"
        /\ src' \in {"primary", "fallback"}
        /\ UNCHANGED <<err, inp, xm, ym, trans, l, k, buf, file, outGlob, out>>
    BY <1>2 DEF ReadPrimary, ReadFallback
  <2>2. mask' \in [Grid(Mx, My) -> MaskCode \cup {0}]
    BY <2>1, RemapMaskType
  <2>3. fld' \in [Cont -> [Grid(Mx, My) -> Value]]
    BY <2>1 DEF Value
  <2>4. QED
    BY <2>1, <2>2, <2>3 DEF IInv, TypeOK, Phases, SamplingPhases, Mx, My
<1>3. CASE ReadTimeSeries
  BY <1>3 DEF ReadTimeSeries, IInv, TypeOK, Phases, SamplingPhases, Mx, My
<1>4. CASE DefineProfiles
  <2>1. /\ pc = "define" /\ pc' = "mesh"
        /\ trans' = [t \in 1..NT |-> TroughPoints(<<Mp, Mp>>, Stops[t])]
        /\ buf' = [t \in 1..NT |-> [s \in 1..BufCap |-> ZeroSample]]
        /\ \A t \in 1..NT : HasStepCount(Delta(t))
        /\ UNCHANGED <<err, inp, src, fld, mask, xm, ym, l, k, file, outGlob, out>>
    BY <1>4 DEF DefineProfiles
  <2>2. ASSUME NEW t \in 1..NT
        PROVE  TroughPoints(<<Mp, Mp>>, Stops[t]) \in Seq(Point)
    <3>0. /\ Mp \in Int
          /\ Stops = << <<Mp, My - 2>>, <<Mx - 2, My - 2>>, <<Mx - 2, Mp>>,
                       <<Mx - 2, 2>>, <<Mp, 2>>, <<2, 2>>, <<2, Mp>>,
                       <<2, My - 2>> >>
      BY DEF Mp, MpOf, Stops, StopsOf
    <3>1. Mp \in Int /\ Stops[t] \in Int \X Int
      BY <3>0 DEF NT
    <3>2. HasStepCount(<<Stops[t][1] - <<Mp, Mp>>[1], Stops[t][2] - <<Mp, Mp>>[2]>>)
      BY <2>1 DEF Delta
    <3>3. QED
      BY <3>1, <3>2, TroughPointsType
  <2>3. ZeroSample \in Sample
    BY DEF ZeroSample, Sample, MaskCode
  <2>4. trans' \in [1..NT -> Seq(Point)] /\ buf' \in [1..NT -> [1..BufCap -> Sample]]
    BY <2>1, <2>2, <2>3
  <2>5. Mx' = Mx /\ My' = My
    BY <2>1 DEF Mx, My
  <2>6. TypeOK'
    <3>1. Grid(Mx, My)' = Grid(Mx, My)
      BY <2>5
    <3>2. /\ pc' \in Phases /\ err' \in Errors /\ inp' \in Inputs
          /\ src' \in {"none", "primary", "fallback"}
          /\ file' \in {"none", "partial", "complete"}
          /\ l' \in 1..NT + 1 /\ k' \in Nat \ {0}
      BY <2>1 DEF TypeOK, Phases
    <3>3. /\ fld' \in [Cont -> [Grid(Mx, My) -> Value]]
          /\ mask' \in [Grid(Mx, My) -> MaskCode \cup {0}]
          /\ xm' \in [Grid(Mx, My) -> Int] /\ ym' \in [Grid(Mx, My) -> Int]
          /\ outGlob' \in [Cont -> [Grid(Mx, My) -> Value]]
          /\ out' \in [1..NT -> Seq(Sample)]
      BY <2>1 DEF TypeOK
    <3>4. QED
      BY <2>4, <3>1, <3>2, <3>3 DEF TypeOK
  <2>7. fld' \in [Cont -> [Grid(Mx', My') -> Int]]
    BY <2>1, <2>5 DEF IInv, SamplingPhases
  <2>8. QED
    BY <2>1, <2>6, <2>7 DEF IInv, SamplingPhases
<1>5. CASE BuildMesh
  <2>1. /\ pc = "mesh" /\ Mx = My /\ pc' = "sample" /\ l' = 1 /\ k' = 1
        /\ xm' = [c \in Grid(Mx, My) |-> inp.x[c[1]]]
        /\ ym' = [c \in Grid(Mx, My) |-> inp.y[c[2]]]
        /\ UNCHANGED <<err, inp, src, fld, mask, trans, buf, file, outGlob, out>>
    BY <1>5 DEF BuildMesh
  <2>2. xm' \in [Grid(Mx, My) -> Int] /\ ym' \in [Grid(Mx, My) -> Int]
    BY <2>1 DEF Grid
  <2>3. Mx' = Mx /\ My' = My
    BY <2>1 DEF Mx, My
  <2>4. l' \in 1..NT + 1 /\ k' \in Nat \ {0} /\ k' <= BufCap + 1
    BY <2>1 DEF NT
  <2>5. TypeOK'
    <3>1. Grid(Mx, My)' = Grid(Mx, My)
      BY <2>3
    <3>2. /\ pc' \in Phases /\ err' \in Errors /\ inp' \in Inputs
          /\ src' \in {"none", "primary", "fallback"}
          /\ file' \in {"none", "partial", "complete"}
      BY <2>1 DEF TypeOK, Phases
    <3>3. /\ fld' \in [Cont -> [Grid(Mx, My) -> Value]]
          /\ mask' \in [Grid(Mx, My) -> MaskCode \cup {0}]
          /\ outGlob' \in [Cont -> [Grid(Mx, My) -> Value]]
      BY <2>1 DEF TypeOK
    <3>4. /\ trans' \in [1..NT -> Seq(Point)]
          /\ buf' \in [1..NT -> [1..BufCap -> Sample]]
          /\ out' \in [1..NT -> Seq(Sample)]
      BY <2>1 DEF TypeOK
    <3>5. QED
      BY <2>2, <2>4, <3>1, <3>2, <3>3, <3>4 DEF TypeOK
  <2>6. fld' \in [Cont -> [Grid(Mx', My') -> Int]]
    BY <2>1, <2>3 DEF IInv, SamplingPhases
  <2>7. QED
    BY <2>1, <2>4, <2>5, <2>6 DEF IInv, SamplingPhases
<1>6. CASE SamplePoint
  <2>1. /\ pc = "sample" /\ l <= NT /\ k <= Len(trans[l]) /\ k <= BufCap
        /\ Supported(Decompose(trans[l][k]))
        /\ buf' = [buf EXCEPT ![l][k] = SampleOf(xm, ym, fld, mask, trans[l][k])]
        /\ k' = k + 1
        /\ UNCHANGED <<pc, err, inp, src, fld, mask, xm, ym, trans, l, file, outGlob, out>>
    BY <1>6 DEF SamplePoint
  <2>2. trans[l][k] \in Point
    <3>1. l \in 1..NT /\ trans[l] \in Seq(Point) /\ k \in 1..Len(trans[l])
      BY <2>1 DEF TypeOK
    <3>2. QED
      BY <3>1, ElementOfSeq
  <2>3. SampleOf(xm, ym, fld, mask, trans[l][k]) \in Sample
    <3>1. fld \in [Cont -> [Grid(Mx, My) -> Int]]
      BY <2>1 DEF IInv, SamplingPhases
    <3>2. QED
      BY <2>1, <2>2, <3>1, SampleOfType DEF TypeOK, Supported
  <2>4. buf' \in [1..NT -> [1..BufCap -> Sample]]
    BY <2>1, <2>3 DEF TypeOK
  <2>5. QED
    BY <2>1, <2>4 DEF IInv, TypeOK, Mx, My
<1>7. CASE NextTransect
  <2>1. /\ pc = "sample" /\ l <= NT /\ k > Len(trans[l])
        /\ l' = l + 1 /\ k' = 1
        /\ UNCHANGED <<pc, err, inp, src, fld, mask, xm, ym, trans, buf, file, outGlob, out>>
    BY <1>7 DEF NextTransect
  <2>2. Len(trans[l]) <= BufCap
    BY <2>1 DEF IInv, TypeOK
  <2>3. \A t \in 1..l' - 1 : Len(trans'[t]) <= BufCap
    BY <2>1, <2>2 DEF IInv, TypeOK
  <2>4. Mx' = Mx /\ My' = My
    BY <2>1 DEF Mx, My
  <2>5. l' \in 1..NT + 1 /\ k' \in Nat \ {0} /\ k' <= BufCap + 1
    BY <2>1 DEF TypeOK, NT
  <2>6. TypeOK'
    BY <2>1, <2>4, <2>5 DEF TypeOK
  <2>7. fld' \in [Cont -> [Grid(Mx', My') -> Int]]
    BY <2>1, <2>4 DEF IInv, SamplingPhases
  <2>8. QED
    BY <2>1, <2>3, <2>5, <2>6, <2>7 DEF IInv, SamplingPhases
<1>8. CASE CreateFile
  <2>1. /\ pc = "sample" /\ l > NT /\ pc' = "write" /\ file' = "partial"
        /\ fld' = Normalize(fld)
        /\ UNCHANGED <<err, inp, src, mask, xm, ym, trans, l, k, buf, outGlob, out>>
    BY <1>8 DEF CreateFile
  <2>2. fld' \in [Cont -> [Grid(Mx, My) -> Value]]
    BY <2>1 DEF Normalize, TypeOK, Value
  <2>3. \A t \in 1..NT : Len(trans[t]) <= BufCap
    <3>0. l \in 1..NT + 1 /\ l > NT
      BY <1>0, <2>1 DEF TypeOK
    <3>1. l = NT + 1
      BY <3>0, SMTT(30) DEF NT
    <3>2. \A t \in 1..l - 1 : Len(trans[t]) <= BufCap
      BY <2>1 DEF IInv
    <3>3. 1..l - 1 = 1..NT
      BY <3>1 DEF NT
    <3>4. QED
      BY <3>2, <3>3
  <2>4. Mx' = Mx /\ My' = My
    BY <2>1 DEF Mx, My
  <2>5. TypeOK'
    BY <2>1, <2>2, <2>4 DEF TypeOK, Phases
  <2>6. QED
    BY <2>1, <2>3, <2>5 DEF IInv, SamplingPhases
<1>9. CASE WriteData
  <2>1. /\ pc = "write" /\ pc' = "close"
        /\ outGlob' = fld
        /\ out' = [t \in 1..NT |-> [s \in 1..Len(trans[t]) |-> buf[t][s]]]
        /\ UNCHANGED <<err, inp, src, fld, mask, xm, ym, trans, l, k, buf, file>>
    BY <1>9 DEF WriteData
  <2>2. ASSUME NEW t \in 1..NT
        PROVE  [s \in 1..Len(trans[t]) |-> buf[t][s]] \in Seq(Sample)
    <3>1. Len(trans[t]) \in 0..BufCap
      BY <2>1, LenProperties DEF IInv, TypeOK
    <3>2. QED
      BY <3>1, CutType DEF TypeOK
  <2>3. QED
    BY <2>1, <2>2 DEF IInv, TypeOK, Phases, SamplingPhases, Mx, My
<1>10. CASE CloseFile
  BY <1>10 DEF CloseFile, IInv, TypeOK, Phases, SamplingPhases, Mx, My
<1>11. CASE UNCHANGED vars
  BY <1>11 DEF vars, IInv, TypeOK, SamplingPhases, Mx, My
<1>12. QED
  BY <1>1, <1>2, <1>3, <1>4, <1>5, <1>6, <1>7, <1>8, <1>9, <1>10, <1>11
     DEF Next

(* The type invariant holds in every state of the script. *)
THEOREM TypeCorrect == Spec => []TypeOK
<1>1. Init => IInv
  BY InitIInv
<1>2. IInv /\ [Next]_vars => IInv'
  BY NextIInv
<1>3. IInv => TypeOK
  BY DEF IInv
<1>4. QED
  BY <1>1, <1>2, <1>3, PTL DEF Spec

(* The output file exists only once the script has reached line 145, that *)
(* is in the write phases, or after a netCDF failure there.               *)
FileState ==
    file # "none" => pc \in {"write", "close", "done"} \/ (pc = "failed" /\ err = "io")

(* FileState holds initially and every block of the script keeps it. *)
LEMMA FileStateInductive == /\ Init => FileState
                            /\ FileState /\ [Next]_vars => FileState'
<1>1. Init => FileState
  BY DEF Init, FileState
<1>2. FileState /\ [Next]_vars => FileState'
  <2> SUFFICES ASSUME FileState, [Next]_vars PROVE FileState'
    OBVIOUS
  <2>1. CASE NamesMissing \/ TimeSeriesTooShort \/ MeshIndexError
             \/ SampleOutOfGrid \/ BufferFull
    BY <2>1 DEF NamesMissing, TimeSeriesTooShort, MeshIndexError,
                SampleOutOfGrid, BufferFull, Fail, FileState
  <2>2. CASE WriteFails
    BY <2>2 DEF WriteFails, Fail, FileState
  <2>3. CASE ReadPrimary \/ ReadFallback \/ ReadTimeSeries \/ DefineProfiles
             \/ BuildMesh \/ SamplePoint \/ NextTransect
    BY <2>3 DEF ReadPrimary, ReadFallback, ReadTimeSeries, DefineProfiles,
                BuildMesh, SamplePoint, NextTransect, FileState
  <2>4. CASE CreateFile \/ WriteData \/ CloseFile
    BY <2>4 DEF CreateFile, WriteData, CloseFile, FileState
  <2>5. CASE UNCHANGED vars
    BY <2>5 DEF vars, FileState
  <2>6. QED
    BY <2>1, <2>2, <2>3, <2>4, <2>5 DEF Next
<1>3. QED
  BY <1>1, <1>2

(* Every failure of the computation (missing names, a short time series,  *)
(* a mesh or sampling IndexError) stops the script before line 145 opens   *)
(* the output file, whatever the inputs and bounds.                        *)
THEOREM NoOutputOnFailure == Spec => []FailuresLeaveNoOutput
<1>1. FileState => FailuresLeaveNoOutput
  BY DEF FileState, FailuresLeaveNoOutput
<1>2. QED
  BY <1>1, FileStateInductive, PTL DEF Spec

=============================================================================
