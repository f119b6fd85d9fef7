---------------------------- MODULE Exp1Radial -----------------------------
(***************************************************************************)
(* Proof that the distance written for each profile point is its distance  *)
(* from the domain centre (DistanceIsRadial), for every input with centred *)
(* axes and every lattice, spacing and buffer capacity.                    *)
(*                                                                         *)
(* Lines 126-128 interpolate the transposed meshes exp1_ym and exp1_xm     *)
(* with the crossed i, j, di, dj of lines 121-124.  On centred axes the    *)
(* mesh is affine in the cell index, so the bilinear interpolation gives   *)
(* back the fractional coordinate of the point itself, provided the four   *)
(* cells it reads are inside the (square) grid.  ProfileFaithful says what *)
(* each written sample is; SupportState adds that every written point was  *)
(* supported and that the grid is square once the meshes exist.            *)
(***************************************************************************)
EXTENDS Exp1Faithful

(* Lines 108-114 raise on a non-square grid, and line 126 on a point whose *)
(* cells leave the grid: every point the loop has passed, and once the    *)
(* loop is over every transect point, was supported.                       *)
SupportState ==
    /\ pc \in {"sample", "write", "close", "done"} => Mx = My
    /\ pc = "sample" =>
         \A t \in 1..NT : \A s \in 1..Len(trans[t]) :
             (t < l \/ (t = l /\ s < k)) => Supported(Decompose(trans[t][s]))
    /\ pc \in {"write", "close", "done"} =>
         \A t \in 1..NT : \A s \in 1..Len(trans[t]) :
             Supported(Decompose(trans[t][s]))

(* The meshes of lines 108-114 on a square grid of side mx: exp1_ym      *)
(* repeats axis v along the second index, exp1_xm along the first.        *)
ColMesh(v, mx) == [q \in Grid(mx, mx) |-> v[q[2]]]
RowMesh(v, mx) == [q \in Grid(mx, mx) |-> v[q[1]]]

(* The invariant behind DistanceIsRadial. *)
RInvRadial == FInv /\ SupportState

-----------------------------------------------------------------------------

USE Exp1Assumption, HelperAssumption

(* The bilinear weights of interpolate_along_transect sum to Den^2, and   *)
(* the weights of the upper neighbours along one index sum to Den times   *)
(* the fraction along it.                                                  *)
LEMMA Bilinear ==
    ASSUME NEW a \in Int, NEW di \in Int, NEW dj \in Int
    PROVE  /\ (Den - di) * (Den - dj) * a + di * (Den - dj) * (a + 1)
                + (Den - di) * dj * a + di * dj * (a + 1) = Den * (Den * a + di)
           /\ (Den - di) * (Den - dj) * a + di * (Den - dj) * a
                + (Den - di) * dj * (a + 1) + di * dj * (a + 1) = Den * (Den * a + dj)
OBVIOUS

(* A lattice coordinate is its cell index times Den plus its fraction. *)
LEMMA DivMod ==
    ASSUME NEW a \in Int
    PROVE  /\ a \div Den \in Int /\ a % Den \in Int
           /\ Den * (a \div Den) + (a % Den) = a
OBVIOUS

(* Axis v of length mx holds a - c at index a. *)
AxisFrom(v, mx, c) == \A a \in 0..mx - 1 : v[a] = a - c

(* Den^2 times the fractional index u + f/Den measured from c. *)
Scaled(u, c, f) == Den * (Den * (u - c) + f)

(* On centred axes of a square grid, the sample of a supported point      *)
(* carries the squared distance of that point from the centre.            *)
LEMMA RadialSample ==
    ASSUME TypeOK, AxesCentered, Mx = My, NEW p \in Point,
           Supported(Decompose(p))
    PROVE  Ref(p).s = RadialSq(p)
<1>1. /\ inp.Mx \in Nat /\ inp.My = inp.Mx /\ Mp \in Int
      /\ inp.x = [a \in 0..inp.Mx - 1 |-> a - Mp]
      /\ inp.y = [b \in 0..inp.Mx - 1 |-> b - Mp]
  <2>1. InputOK(inp)
    BY DEF TypeOK
  <2>2. inp.Mx \in Nat /\ inp.My = inp.Mx
    BY <2>1 DEF InputOK, Mx, My
  <2>3. QED
    BY <2>2 DEF AxesCentered, Mp, MpOf, Mx, My
<1>2. PICK i \in Int, j \in Int, di \in Int, dj \in Int :
          /\ Decompose(p) = [i |-> i, j |-> j, di |-> di, dj |-> dj]
          /\ Den * j + di = p[1] /\ Den * i + dj = p[2]
  <2>1. p[1] \in Int /\ p[2] \in Int
    BY DEF Point
  <2>2. /\ Decompose(p) = [i |-> p[2] \div Den, j |-> p[1] \div Den,
                           di |-> p[1] % Den, dj |-> p[2] % Den]
        /\ p[2] \div Den \in Int /\ p[1] \div Den \in Int
        /\ p[1] % Den \in Int /\ p[2] % Den \in Int
        /\ Den * (p[1] \div Den) + (p[1] % Den) = p[1]
        /\ Den * (p[2] \div Den) + (p[2] % Den) = p[2]
    BY <2>1, DivMod DEF Decompose
  <2>3. QED
    BY <2>2
<1>3. i \in 0..inp.Mx - 2 /\ j \in 0..inp.Mx - 2
  BY <1>1, <1>2 DEF Supported, Mx, My
<1>4. /\ interpolate_along_transect(InputYM, i, j, di, dj) = Den * (Den * (j - Mp) + di)
      /\ interpolate_along_transect(InputXM, i, j, di, dj) = Den * (Den * (i - Mp) + dj)
  <2>1. InputYM = ColMesh(inp.y, inp.Mx)
        /\ InputXM = RowMesh(inp.x, inp.Mx)
    BY <1>1 DEF InputYM, InputXM, YMOf, XMOf, ColMesh, RowMesh
  <2>2. /\ interpolate_along_transect(ColMesh(inp.y, inp.Mx),
                                      i, j, di, dj) = Den * (Den * (j - Mp) + di)
        /\ interpolate_along_transect(RowMesh(inp.x, inp.Mx),
                                      i, j, di, dj) = Den * (Den * (i - Mp) + dj)
    <3>1. PICK mx \in Nat, c \in Int, xs \in {inp.x}, ys \in {inp.y} :
              mx = inp.Mx /\ c = Mp
      BY <1>1
    <3>2. /\ AxisFrom(xs, mx, c) /\ AxisFrom(ys, mx, c)
          /\ i \in 0..mx - 2 /\ j \in 0..mx - 2
      BY <1>1, <1>3, <3>1 DEF AxisFrom
    <3>3. /\ interpolate_along_transect(ColMesh(ys, mx), i, j, di, dj) = Scaled(j, c, di)
          /\ interpolate_along_transect(RowMesh(xs, mx), i, j, di, dj) = Scaled(i, c, dj)
      <4>1. /\ <<i, j>> \in Grid(mx, mx) /\ <<i, j + 1>> \in Grid(mx, mx)
            /\ <<i + 1, j>> \in Grid(mx, mx) /\ <<i + 1, j + 1>> \in Grid(mx, mx)
        BY <3>2 DEF Grid
      <4>2. /\ i \in 0..mx - 1 /\ i + 1 \in 0..mx - 1
            /\ j \in 0..mx - 1 /\ j + 1 \in 0..mx - 1
        BY <3>2
      <4>3. interpolate_along_transect(ColMesh(ys, mx), i, j, di, dj)
              = Scaled(j, c, di)
        <5>1. /\ ColMesh(ys, mx)[<<i, j>>] = j - c
              /\ ColMesh(ys, mx)[<<i, j + 1>>] = j + 1 - c
              /\ ColMesh(ys, mx)[<<i + 1, j>>] = j - c
              /\ ColMesh(ys, mx)[<<i + 1, j + 1>>] = j + 1 - c
          <6>1. ys[j] = j - c /\ ys[j + 1] = j + 1 - c
            BY <4>2, <3>2 DEF AxisFrom
          <6>2. QED
            BY <4>1, <6>1 DEF ColMesh, RowMesh
        <5>2. interpolate_along_transect(ColMesh(ys, mx), i, j, di, dj)
                = (Den - di) * (Den - dj) * (j - c) + di * (Den - dj) * (j + 1 - c)
                  + (Den - di) * dj * (j - c) + di * dj * (j + 1 - c)
          BY <5>1 DEF interpolate_along_transect
        <5>3. QED
          BY <5>2, Bilinear DEF Scaled
      <4>4. interpolate_along_transect(RowMesh(xs, mx), i, j, di, dj)
              = Scaled(i, c, dj)
        <5>1. /\ RowMesh(xs, mx)[<<i, j>>] = i - c
              /\ RowMesh(xs, mx)[<<i, j + 1>>] = i - c
              /\ RowMesh(xs, mx)[<<i + 1, j>>] = i + 1 - c
              /\ RowMesh(xs, mx)[<<i + 1, j + 1>>] = i + 1 - c
          <6>1. xs[i] = i - c /\ xs[i + 1] = i + 1 - c
            BY <4>2, <3>2 DEF AxisFrom
          <6>2. QED
            BY <4>1, <6>1 DEF ColMesh, RowMesh
        <5>2. interpolate_along_transect(RowMesh(xs, mx), i, j, di, dj)
                = (Den - di) * (Den - dj) * (i - c) + di * (Den - dj) * (i - c)
                  + (Den - di) * dj * (i + 1 - c) + di * dj * (i + 1 - c)
          BY <5>1 DEF interpolate_along_transect
        <5>3. QED
          BY <5>2, Bilinear DEF Scaled
      <4>5. QED
        BY <4>3, <4>4
    <3>4. QED
      BY <3>1, <3>3 DEF Scaled
  <2>3. QED
    BY <2>1, <2>2
<1>5. Ref(p).s = interpolate_along_transect(InputYM, i, j, di, dj)
                 * interpolate_along_transect(InputYM, i, j, di, dj)
               + interpolate_along_transect(InputXM, i, j, di, dj)
                 * interpolate_along_transect(InputXM, i, j, di, dj)
  BY <1>2 DEF Ref, SampleOf
<1>6. /\ interpolate_along_transect(InputYM, i, j, di, dj) = Den * (p[1] - Den * Mp)
      /\ interpolate_along_transect(InputXM, i, j, di, dj) = Den * (p[2] - Den * Mp)
  BY <1>1, <1>2, <1>4
<1>7. QED
  BY <1>1, <1>2, <1>5, <1>6 DEF RadialSq

(* Whether a transect point is supported depends on the input alone. *)
LEMMA SupportFrame ==
    ASSUME inp' = inp, NEW q
    PROVE  Supported(Decompose(q))' <=> Supported(Decompose(q))
BY DEF Supported, Decompose, Mx, My

(* The script starts in a state of SupportState. *)
LEMMA InitSupport == Init => SupportState
BY DEF Init, SupportState

(* Every block keeps SupportState: BuildMesh runs only on a square grid,  *)
(* SamplePoint only on a supported point, and the loop moves on only past *)
(* sampled points.                                                        *)
LEMMA NextSupport == TypeOK /\ SupportState /\ [Next]_vars => SupportState'
<1> SUFFICES ASSUME TypeOK, SupportState, [Next]_vars PROVE SupportState'
  OBVIOUS
<1>1. CASE \/ NamesMissing \/ TimeSeriesTooShort \/ MeshIndexError
           \/ SampleOutOfGrid \/ BufferFull \/ WriteFails
  <2>1. pc' = "failed"
    BY <1>1 DEF NamesMissing, TimeSeriesTooShort, MeshIndexError,
                SampleOutOfGrid, BufferFull, WriteFails, Fail
  <2>2. QED
    BY <2>1 DEF SupportState
<1>2. CASE ReadPrimary \/ ReadFallback \/ ReadTimeSeries \/ DefineProfiles
  <2>1. pc' \in {"readts", "define", "mesh"}
    BY <1>2 DEF ReadPrimary, ReadFallback, ReadTimeSeries, DefineProfiles
  <2>2. QED
    BY <2>1 DEF SupportState
<1>3. CASE BuildMesh
  <2>1. /\ pc' = "sample" /\ l' = 1 /\ k' = 1 /\ Mx = My
        /\ UNCHANGED <<inp, trans>>
    BY <1>3 DEF BuildMesh
  <2>2. \A t \in 1..NT : \A s \in 1..Len(trans[t]) : ~(t < 1 \/ (t = 1 /\ s < 1))
    OBVIOUS
  <2>3. QED
    BY <2>1, <2>2 DEF SupportState, Mx, My
<1>4. CASE SamplePoint
  <2>1. /\ pc = "sample" /\ pc' = "sample" /\ l <= NT /\ k' = k + 1
        /\ Supported(Decompose(trans[l][k]))
        /\ UNCHANGED <<inp, trans, l>>
    BY <1>4 DEF SamplePoint
  <2>2. ASSUME NEW t \in 1..NT, NEW s \in 1..Len(trans[t]),
               t < l \/ (t = l /\ s < k + 1)
        PROVE  Supported(Decompose(trans[t][s]))
    <3>1. CASE t = l /\ s = k
      BY <3>1, <2>1
    <3>2. CASE ~(t = l /\ s = k)
      <4>1. t < l \/ (t = l /\ s < k)
        BY <3>2, <2>2 DEF TypeOK
      <4>2. QED
        BY <4>1, <2>1 DEF SupportState
    <3>3. QED
      BY <3>1, <3>2
  <2>3. QED
    BY <2>1, <2>2, SupportFrame DEF SupportState, Mx, My
<1>5. CASE NextTransect
  <2>1. /\ pc = "sample" /\ pc' = "sample" /\ l <= NT /\ k > Len(trans[l])
        /\ l' = l + 1 /\ k' = 1
        /\ UNCHANGED <<inp, trans>>
    BY <1>5 DEF NextTransect
  <2>2. ASSUME NEW t \in 1..NT, NEW s \in 1..Len(trans[t]),
               t < l + 1 \/ (t = l + 1 /\ s < 1)
        PROVE  Supported(Decompose(trans[t][s]))
    <3>1. t < l \/ (t = l /\ s < k)
      BY <2>1, <2>2 DEF TypeOK
    <3>2. QED
      BY <3>1, <2>1 DEF SupportState
  <2>3. QED
    BY <2>1, <2>2, SupportFrame DEF SupportState, Mx, My
<1>6. CASE CreateFile
  <2>1. /\ pc = "sample" /\ pc' = "write" /\ l > NT
        /\ UNCHANGED <<inp, trans>>
    BY <1>6 DEF CreateFile
  <2>2. ASSUME NEW t \in 1..NT, NEW s \in 1..Len(trans[t])
        PROVE  Supported(Decompose(trans[t][s]))
    <3>1. t < l
      BY <2>1 DEF TypeOK, NT
    <3>2. QED
      BY <3>1, <2>1 DEF SupportState
  <2>3. QED
    BY <2>1, <2>2, SupportFrame DEF SupportState, Mx, My
<1>7. CASE WriteData \/ CloseFile
  <2>1. /\ pc \in {"write", "close"} /\ pc' \in {"close", "done"}
        /\ UNCHANGED <<inp, trans>>
    BY <1>7 DEF WriteData, CloseFile
  <2>2. QED
    BY <2>1, SupportFrame DEF SupportState, Mx, My
<1>8. CASE UNCHANGED vars
  <2>1. UNCHANGED <<pc, inp, trans, l, k>>
    BY <1>8 DEF vars
  <2>2. QED
    BY <2>1, SupportFrame DEF SupportState, Mx, My
<1>9. QED
  BY <1>1, <1>2, <1>3, <1>4, <1>5, <1>6, <1>7, <1>8 DEF Next

(* The distance sav written for every profile point (lines 126-128,      *)
(* with the crossed indices of lines 121-124 on the transposed meshes) is *)
(* that point's distance from the domain centre, in every run of the      *)
(* script on centred axes, for every lattice, spacing and buffer size.    *)
THEOREM RadialDistance == Spec => []DistanceIsRadial
<1>1. Init => RInvRadial
  BY InitFInv, InitSupport DEF RInvRadial
<1>2. RInvRadial /\ [Next]_vars => RInvRadial'
  <2> SUFFICES ASSUME RInvRadial, [Next]_vars PROVE RInvRadial'
    OBVIOUS
  <2>1. TypeOK
    BY DEF RInvRadial, FInv, IInv
  <2>2. QED
    BY <2>1, NextFInv, NextSupport DEF RInvRadial
<1>3. RInvRadial => DistanceIsRadial
  <2> SUFFICES ASSUME RInvRadial, pc = "done", AxesCentered,
                      NEW t \in 1..NT, NEW s \in 1..Len(out[t])
               PROVE  out[t][s].s = RadialSq(trans[t][s])
    BY DEF DistanceIsRadial
  <2>1. TypeOK /\ ProfileFaithful /\ SupportState
    BY DEF RInvRadial, FInv, IInv
  <2>2. /\ s \in 1..Len(trans[t])
        /\ out[t][s] = Ref(trans[t][s])
    BY <2>1 DEF ProfileFaithful, Ref
  <2>3. /\ trans[t][s] \in Point
        /\ Supported(Decompose(trans[t][s]))
        /\ Mx = My
    <3>1. trans[t] \in Seq(Point)
      BY <2>1 DEF TypeOK
    <3>2. QED
      BY <3>1, <2>1, <2>2 DEF SupportState
  <2>4. QED
    BY <2>1, <2>2, <2>3, RadialSample
<1>4. QED
  BY <1>1, <1>2, <1>3, PTL DEF Spec

=============================================================================
