-------------------------- MODULE Exp1Postprocess --------------------------
(***************************************************************************)
(* examples/marine/calvingmip/postprocess_exp1.py: turns a PISM snapshot   *)
(* and time series into the CalvingMIP exchange file.  The script runs     *)
(* top to bottom once; pc names the statement block it is in, and each     *)
(* action is one block, including the exceptions it can raise.            *)
(*                                                                         *)
(* Data are abstracted: the input files are one record chosen in Init from *)
(* the constant set Inputs (which names exist, the grid shape, the axes,   *)
(* the fields and the number of time-series records); field values are    *)
(* small integers; fractional indices live on the lattice of               *)
(* ProfileHelper.  Units (secperyear), attributes and printing are left    *)
(* out: no property tells them apart.                                      *)
(***************************************************************************)
EXTENDS Integers, Sequences, ProfileHelper

CONSTANTS
    BufCap,   \* capacity of the preallocated sample buffers (300 in the code)
    Missing,  \* np.nan, the missing-data marker of the output file
    Inputs    \* the input files the model starts from

Cont == {"xvm", "yvm", "thk"}            \* exp1_xvm, exp1_yvm, exp1_thk
PrimaryNames == {"xvelmean", "yvelmean", "lithk"}
FallbackNames == {"u_ssa", "v_ssa", "thk"}
TsLookback == 6                           \* ti = -6
NT == 8                                   \* number of transects A..H

Grid(mx, my) == (0..mx - 1) \X (0..my - 1)

(* PISM's mask codes: ice-free bedrock, grounded, floating, ice-free ocean. *)
StoredMask == {0, 2, 3, 4}

(* An input: which variable names the snapshot holds and which of them    *)
(* cannot be read (a damaged variable raises on read), the shape of mask  *)
(* (Mx, My = np.shape(exp1_mask)), the x axis (My entries, the file's x   *)
(* dimension) and y axis (Mx entries), the continuous fields, the stored   *)
(* PISM mask and the number of records of the time-series file.           *)
InputOK(in) ==
    /\ in.present \subseteq PrimaryNames \cup FallbackNames
    /\ in.unreadable \subseteq PrimaryNames \cup FallbackNames
    /\ in.Mx \in Nat /\ in.My \in Nat /\ in.Mx >= 3 /\ in.My >= 3
    /\ in.x \in [0..in.My - 1 -> Int]
    /\ in.y \in [0..in.Mx - 1 -> Int]
    /\ in.cont \in [Cont -> [Grid(in.Mx, in.My) -> Int]]
    /\ in.mask \in [Grid(in.Mx, in.My) -> StoredMask]
    /\ in.tsLen \in Nat

ASSUME Exp1Assumption ==
    /\ BufCap \in Nat
    /\ Missing \notin Int
    /\ Inputs # {}
    /\ \A in \in Inputs : InputOK(in)

VARIABLES
    pc,       \* the block of the script being executed
    err,      \* the exception that ended the script, or "none"
    inp,      \* the input files (never changed)
    src,      \* which name set the fields were read under
    fld,      \* exp1_xvm, exp1_yvm, exp1_thk
    mask,     \* exp1_mask
    xm, ym,   \* exp1_xm, exp1_ym
    trans,    \* trans: the points of each transect
    l, k,     \* loop indices of the sampling loop (1-based)
    buf,      \* xav, yav, sav, Hav, uav, vav, mav as one record per slot
    file,     \* the output file: "none", "partial" or "complete"
    outGlob,  \* the 2-D fields written to the output file
    out       \* the profiles written to the output file

vars == <<pc, err, inp, src, fld, mask, xm, ym, trans, l, k, buf,
          file, outGlob, out>>

Mx == inp.Mx
My == inp.My
(* Line 61: the centre index of a grid with mx rows. *)
MpOf(mx) == (mx - 1) \div 2

Mp == MpOf(Mx)

(* Mutant: transect C ends on the last row instead of the one before. *)
Stops_mut == << <<Mp, My - 2>>, <<Mx - 2, My - 2>>, <<Mx - 1, Mp>>,
                <<Mx - 2, 2>>, <<Mp, 2>>, <<2, 2>>, <<2, Mp>>, <<2, My - 2>> >>

(* The end points of the eight transects, lines 64-75, in the order of   *)
(* `transects`, for a grid of mx by my cells.                             *)
StopsOf(mx, my) ==
    LET mp == MpOf(mx)
    IN  << <<mp, my - 2>>,      \* A
           <<mx - 2, my - 2>>,  \* B
           <<mx - 2, mp>>,      \* C
           <<mx - 2, 2>>,       \* D
           <<mp, 2>>,           \* E
           <<2, 2>>,            \* F
           <<2, mp>>,           \* G
           <<2, my - 2>> >>     \* H

Stops == StopsOf(Mx, My)

(* Line 77: the transects get_troughs returns for an input. *)
TransectsOf(in) ==
    [t \in 1..NT |-> TroughPoints(<<MpOf(in.Mx), MpOf(in.Mx)>>,
                                  StopsOf(in.Mx, in.My)[t])]

(* Lines 108-114 and 39: the meshes and the remapped mask of an input. *)
XMOf(in) == [c \in Grid(in.Mx, in.My) |-> in.x[c[1]]]
YMOf(in) == [c \in Grid(in.Mx, in.My) |-> in.y[c[2]]]
MaskRefOf(in) == [c \in DOMAIN in.mask |-> in.mask[c] - 1]

Delta(t) == <<Stops[t][1] - Mp, Stops[t][2] - Mp>>

(* Mutant: the two fractions swapped. *)
Decompose_mut(p) == [i |-> p[2] \div Den, j |-> p[1] \div Den,
                     di |-> p[2] % Den, dj |-> p[1] % Den]

(* Lines 121-124: i and j are the floors of p[1] and p[0], di and dj the  *)
(* fractions of p[0] and p[1]; fractions in units of 1/Den.               *)
Decompose(p) == [i |-> p[2] \div Den, j |-> p[1] \div Den,
                 di |-> p[1] % Den, dj |-> p[2] % Den]

(* The four cells read by interpolate_along_transect are in the arrays. *)
Supported(d) == d.i \in 0..Mx - 2 /\ d.j \in 0..My - 2

Point == Int \X Int
MaskCode == {c - 1 : c \in StoredMask}
Sample == [x : Int, y : Int, s : Int, cont : [Cont -> Int], mask : MaskCode \cup {0}]
ZeroSample == [x |-> 0, y |-> 0, s |-> 0, cont |-> [f \in Cont |-> 0], mask |-> 0]

(* Lines 126-134 for point p, given the meshes, the fields and the mask.  *)
(* s is sav squared: sqrt is monotone and left out.                       *)
SampleOf(xmesh, ymesh, fields, msk, p) ==
    LET d   == Decompose(p)
        xav == interpolate_along_transect(ymesh, d.i, d.j, d.di, d.dj)
        yav == interpolate_along_transect(xmesh, d.i, d.j, d.di, d.dj)
    IN  [x |-> xav, y |-> yav, s |-> xav * xav + yav * yav,
         cont |-> [f \in Cont |->
                     interpolate_along_transect(fields[f], d.i, d.j, d.di, d.dj)],
         mask |-> nearest_along_transect(msk, d.i, d.j, d.di, d.dj)]

(* Mutant: the offset of line 39 forgotten. *)
RemapMask_mut(m) == m

(* Line 39: the stored mask minus one. *)
RemapMask(m) == [c \in DOMAIN m |-> m[c] - 1]

(* Lines 169-171: zero cells of thickness and velocities become NaN. *)
Normalize(fields) ==
    [f \in Cont |-> [c \in DOMAIN fields[f] |->
                        IF fields[f][c] = 0 THEN Missing ELSE fields[f][c]]]

-----------------------------------------------------------------------------

Init ==
    /\ pc = "read"
    /\ err = "none"
    /\ inp \in Inputs
    /\ src = "none"
    /\ fld = [f \in Cont |-> [c \in Grid(inp.Mx, inp.My) |-> 0]]
    /\ mask = [c \in Grid(inp.Mx, inp.My) |-> 0]
    /\ xm = [c \in Grid(inp.Mx, inp.My) |-> 0]
    /\ ym = [c \in Grid(inp.Mx, inp.My) |-> 0]
    /\ trans = [t \in 1..NT |-> <<>>]
    /\ l = 1
    /\ k = 1
    /\ buf = [t \in 1..NT |-> [s \in 1..BufCap |-> ZeroSample]]
    /\ file = "none"
    /\ outGlob = [f \in Cont |-> [c \in Grid(inp.Mx, inp.My) |-> 0]]
    /\ out = [t \in 1..NT |-> <<>>]

Fail(e) == pc' = "failed" /\ err' = e

(* The names of a set that can all be read: a missing name raises         *)
(* KeyError, a damaged one an error of the netCDF library.                *)
Readable(names) == names \subseteq inp.present \ inp.unreadable

(* Lines 27-44, the try branch: xvelmean, yvelmean, lithk are all read. *)
ReadPrimary ==
    /\ pc = "read"
    /\ Readable(PrimaryNames)
    /\ src' = "primary"
    /\ fld' = inp.cont
    /\ mask' = RemapMask(inp.mask)
    /\ pc' = "readts"
    /\ UNCHANGED <<err, inp, xm, ym, trans, l, k, buf, file, outGlob, out>>

(* Lines 35-38: any error in the try branch (the bare except catches all  *)
(* of them) re-reads the three fields under u_ssa, v_ssa, thk.            *)
ReadFallback ==
    /\ pc = "read"
    /\ ~Readable(PrimaryNames)
    /\ Readable(FallbackNames)
    /\ src' = "fallback"
    /\ fld' = inp.cont
    /\ mask' = RemapMask(inp.mask)
    /\ pc' = "readts"
    /\ UNCHANGED <<err, inp, xm, ym, trans, l, k, buf, file, outGlob, out>>

(* Lines 36-38 raise KeyError out of the except branch. *)
NamesMissing ==
    /\ pc = "read"
    /\ ~Readable(PrimaryNames)
    /\ ~Readable(FallbackNames)
    /\ Fail("names")
    /\ UNCHANGED <<inp, src, fld, mask, xm, ym, trans, l, k, buf, file, outGlob, out>>

(* Lines 46-56: the record six from the end of the time series. *)
ReadTimeSeries ==
    /\ pc = "readts"
    /\ inp.tsLen >= TsLookback
    /\ pc' = "define"
    /\ UNCHANGED <<err, inp, src, fld, mask, xm, ym, trans, l, k, buf, file, outGlob, out>>

TimeSeriesTooShort ==
    /\ pc = "readts"
    /\ inp.tsLen < TsLookback
    /\ Fail("tslen")
    /\ UNCHANGED <<inp, src, fld, mask, xm, ym, trans, l, k, buf, file, outGlob, out>>

(* Lines 60-106: the transects, get_troughs and the zeroed buffers. *)
DefineProfiles ==
    /\ pc = "define"
    /\ \A t \in 1..NT : HasStepCount(Delta(t))
    /\ trans' = [t \in 1..NT |-> TroughPoints(<<Mp, Mp>>, Stops[t])]
    /\ buf' = [t \in 1..NT |-> [s \in 1..BufCap |-> ZeroSample]]
    /\ pc' = "mesh"
    /\ UNCHANGED <<err, inp, src, fld, mask, xm, ym, l, k, file, outGlob, out>>

(* Lines 108-114: exp1_xm[i,:] = exp1_x[i] for i < Mx and                *)
(* exp1_ym[:,j] = exp1_y[j] for j < My; x has My entries and y has Mx.    *)
BuildMesh ==
    /\ pc = "mesh"
    /\ Mx = My
    /\ xm' = [c \in Grid(Mx, My) |-> inp.x[c[1]]]
    /\ ym' = [c \in Grid(Mx, My) |-> inp.y[c[2]]]
    /\ l' = 1
    /\ k' = 1
    /\ pc' = "sample"
    /\ UNCHANGED <<err, inp, src, fld, mask, trans, buf, file, outGlob, out>>

(* Line 112 or 114 indexes past the end of an axis on a non-square grid. *)
MeshIndexError ==
    /\ pc = "mesh"
    /\ Mx # My
    /\ Fail("mesh")
    /\ UNCHANGED <<inp, src, fld, mask, xm, ym, trans, l, k, buf, file, outGlob, out>>

(* Lines 119-137: point k of transect l is sampled into slot k. *)
SamplePoint ==
    /\ pc = "sample"
    /\ l <= NT
    /\ k <= Len(trans[l])
    /\ Supported(Decompose(trans[l][k]))
    /\ k <= BufCap
    /\ buf' = [buf EXCEPT ![l][k] = SampleOf(xm, ym, fld, mask, trans[l][k])]
    /\ k' = k + 1
    /\ UNCHANGED <<pc, err, inp, src, fld, mask, xm, ym, trans, l, file, outGlob, out>>

(* Line 126: interpolate_along_transect reads a cell outside the grid. *)
SampleOutOfGrid ==
    /\ pc = "sample"
    /\ l <= NT
    /\ k <= Len(trans[l])
    /\ ~Supported(Decompose(trans[l][k]))
    /\ Fail("support")
    /\ UNCHANGED <<inp, src, fld, mask, xm, ym, trans, l, k, buf, file, outGlob, out>>

(* Line 126: xav[l,k] with k past the preallocated 300 columns. *)
BufferFull ==
    /\ pc = "sample"
    /\ l <= NT
    /\ k <= Len(trans[l])
    /\ Supported(Decompose(trans[l][k]))
    /\ k > BufCap
    /\ Fail("buffer")
    /\ UNCHANGED <<inp, src, fld, mask, xm, ym, trans, l, k, buf, file, outGlob, out>>

(* Lines 117-118 and 139: the next transect. *)
NextTransect ==
    /\ pc = "sample"
    /\ l <= NT
    /\ k > Len(trans[l])
    /\ l' = l + 1
    /\ k' = 1
    /\ UNCHANGED <<pc, err, inp, src, fld, mask, xm, ym, trans, buf, file, outGlob, out>>

(* Mutant: the output file is opened before the sampling loop. *)
CreateFile_mut ==
    /\ pc = "sample"
    /\ file = "none"
    /\ file' = "partial"
    /\ UNCHANGED <<pc, err, inp, src, fld, mask, xm, ym, trans, l, k, buf, outGlob, out>>

(* Lines 143-235: the file is created, the 2-D fields get NaN for zero     *)
(* (in place, after sampling), and the dimensions and variables are made. *)
CreateFile ==
    /\ pc = "sample"
    /\ l > NT
    /\ file' = "partial"
    /\ fld' = Normalize(fld)
    /\ pc' = "write"
    /\ UNCHANGED <<err, inp, src, mask, xm, ym, trans, l, k, buf, outGlob, out>>

(* Mutant: every profile cut to the length of transect A (copy-paste). *)
WriteData_mut ==
    /\ pc = "write"
    /\ outGlob' = fld
    /\ out' = [t \in 1..NT |-> [s \in 1..Len(trans[1]) |-> buf[t][s]]]
    /\ pc' = "close"
    /\ UNCHANGED <<err, inp, src, fld, mask, xm, ym, trans, l, k, buf, file>>

(* Lines 239-319: the data; profile l is cut to len(trans[l]) samples. *)
WriteData ==
    /\ pc = "write"
    /\ outGlob' = fld
    /\ out' = [t \in 1..NT |-> [s \in 1..Len(trans[t]) |-> buf[t][s]]]
    /\ pc' = "close"
    /\ UNCHANGED <<err, inp, src, fld, mask, xm, ym, trans, l, k, buf, file>>

(* Lines 324-481: attributes, then close. *)
CloseFile ==
    /\ pc = "close"
    /\ file' = "complete"
    /\ pc' = "done"
    /\ UNCHANGED <<err, inp, src, fld, mask, xm, ym, trans, l, k, buf, outGlob, out>>

(* Mutant: a netCDF call after wrtfile.close() fails a run whose file is *)
(* already complete.                                                      *)
WriteFails_mut ==
    /\ pc \in {"write", "close", "done"}
    /\ Fail("io")
    /\ UNCHANGED <<inp, src, fld, mask, xm, ym, trans, l, k, buf, file, outGlob, out>>

(* The netCDF library fails while the file is open (disk full, quota):    *)
(* the script has no handler and stops.                                   *)
WriteFails ==
    /\ pc \in {"write", "close"}
    /\ Fail("io")
    /\ UNCHANGED <<inp, src, fld, mask, xm, ym, trans, l, k, buf, file, outGlob, out>>

Next ==
    \/ ReadPrimary \/ ReadFallback \/ NamesMissing
    \/ ReadTimeSeries \/ TimeSeriesTooShort
    \/ DefineProfiles
    \/ BuildMesh \/ MeshIndexError
    \/ SamplePoint \/ SampleOutOfGrid \/ BufferFull \/ NextTransect
    \/ CreateFile \/ WriteData \/ CloseFile \/ WriteFails

(* The script is one sequential process: whenever it can take a step it   *)
(* takes one.                                                             *)
Spec == Init /\ [][Next]_vars /\ WF_vars(Next)

-----------------------------------------------------------------------------
(***************************************************************************)
(* Properties.                                                             *)
(***************************************************************************)

Phases == {"read", "readts", "define", "mesh", "sample", "write", "close",
           "done", "failed"}
Errors == {"none", "names", "tslen", "mesh", "support", "buffer", "io"}
Value == Int \cup {Missing}

(* The type invariant of the script's variables. *)
TypeOK ==
    /\ pc \in Phases
    /\ err \in Errors
    /\ inp \in Inputs
    /\ src \in {"none", "primary", "fallback"}
    /\ fld \in [Cont -> [Grid(Mx, My) -> Value]]
    /\ mask \in [Grid(Mx, My) -> MaskCode \cup {0}]
    /\ xm \in [Grid(Mx, My) -> Int]
    /\ ym \in [Grid(Mx, My) -> Int]
    /\ trans \in [1..NT -> Seq(Point)]
    /\ l \in 1..NT + 1
    /\ k \in Nat \ {0}
    /\ buf \in [1..NT -> [1..BufCap -> Sample]]
    /\ file \in {"none", "partial", "complete"}
    /\ outGlob \in [Cont -> [Grid(Mx, My) -> Value]]
    /\ out \in [1..NT -> Seq(Sample)]

(* Lines 64-75 end every transect at least two cells from the border and   *)
(* get_troughs rounds its points down between centre and end, so on a     *)
(* grid of four rows or more the loop of lines 117-137 never reads a cell *)
(* outside the grid (line 126): the out-of-grid IndexError happens only  *)
(* on a 3x3 grid, whatever the spacing dp and the lattice.                *)
SupportErrorOnlyOnTinyGrid == err = "support" => Mx < 4

(* The axes are those of a domain centred on the origin (the circular      *)
(* CalvingMIP domain): the centre cell Mp sits at coordinate 0.            *)
AxesCentered ==
    /\ inp.x = [a \in 0..My - 1 |-> a - Mp]
    /\ inp.y = [b \in 0..Mx - 1 |-> b - Mp]

(* Den^4 times the squared distance of lattice point p from the centre. *)
RadialSq(p) == (Den * Den) * ((p[1] - Den * Mp) * (p[1] - Den * Mp)
                              + (p[2] - Den * Mp) * (p[2] - Den * Mp))

(* The distance written for each profile point (sav, lines 126-128, which  *)
(* interpolate the transposed meshes with the i, j, di, dj of lines        *)
(* 121-124) is the distance of that very point from the domain centre.     *)
DistanceIsRadial ==
    (pc = "done" /\ AxesCentered) =>
        \A t \in 1..NT : \A s \in 1..Len(out[t]) :
            out[t][s].s = RadialSq(trans[t][s])

(* The meshes and mask as built from the input, for the reference values. *)
InputXM == XMOf(inp)
InputYM == YMOf(inp)
InputMask == MaskRefOf(inp)

(* Once the data are written (lines 257-319), profile t of the file has    *)
(* exactly one entry per point of transect t, and entry s holds the        *)
(* samples of point s of transect t taken from the fields as read: the     *)
(* 300-column buffers, the loop indices and the cut line up.               *)
ProfileFaithful ==
    pc \in {"close", "done"} =>
        \A t \in 1..NT :
            /\ Len(out[t]) = Len(trans[t])
            /\ \A s \in 1..Len(out[t]) :
                   out[t][s] = SampleOf(InputXM, InputYM, inp.cont, InputMask,
                                        trans[t][s])

(* A failure of the computation (a missing name, a short time series, a    *)
(* mesh or sampling IndexError) stops the script before line 145 creates   *)
(* the output file, so no partial file is left behind.                     *)
FailuresLeaveNoOutput == (pc = "failed" /\ err # "io") => file = "none"

(* Spec 7: no partial or degraded output is ever emitted; a failure        *)
(* anywhere aborts the whole run.                                          *)
NoPartialOutput == pc = "failed" => file = "none"

(* Spec 8: a zero thickness cell reads as the missing marker in the        *)
(* profile sampled at that cell (thickness 0 at the centre: the first      *)
(* thickness of transect A is the missing marker).                         *)
OnNode(p) == p[1] % Den = 0 /\ p[2] % Den = 0
NodeOf(p) == <<p[2] \div Den, p[1] \div Den>>
ProfileZeroIsMissing ==
    pc = "done" =>
        \A t \in 1..NT : \A s \in 1..Len(out[t]) :
            (OnNode(trans[t][s]) /\ inp.cont["thk"][NodeOf(trans[t][s])] = 0)
                => out[t][s].cont["thk"] = Missing

(* Spec 5 and 7: the fallback names are used only when the primary names *)
(* are absent; no other error is masked (the bare except of line 35).     *)
FallbackOnlyWhenAbsent == src = "fallback" => ~(PrimaryNames \subseteq inp.present)

(* The mask profiles hold only the category codes that lines 451-473      *)
(* declare in flag_values ('1, 2, 3'; spec 8: no value outside grounded,  *)
(* floating and open ocean after the remap of line 39).                   *)
MaskCodesDeclared ==
    pc = "done" =>
        \A t \in 1..NT : \A s \in 1..Len(out[t]) : out[t][s].mask \in {1, 2, 3}

(* Spec 4.2: a grid with an even dimension has no centre cell and is       *)
(* rejected before any sampling.                                           *)
EvenGridRejected ==
    (Mx % 2 = 0 \/ My % 2 = 0) => pc \in {"read", "readts", "define", "failed"}

(* Spec 4.2: the end points sit 2 cells from each boundary, so opposite    *)
(* transects (A and E, B and F, C and G, D and H) are equally long.        *)
TransectsSymmetric ==
    Len(trans[1]) > 0 =>
        \A t \in 1..NT \div 2 : Len(trans[t]) = Len(trans[t + NT \div 2])

=============================================================================
