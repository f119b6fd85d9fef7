--------------------------- MODULE ProfileHelper ---------------------------
(***************************************************************************)
(* The collaborators postprocess_exp1.py imports as postprocess_helper     *)
(* (get_troughs, interpolate_along_transect, nearest_along_transect).      *)
(* That file is not among the sources, so these operators are written from *)
(* the specification's description of the interfaces (spec 4.3).          *)
(*                                                                         *)
(* Fractional grid indices live on a lattice of step 1/Den: a point is a   *)
(* pair <<p0, p1>> of integers, standing for the index pair                *)
(* <<p0/Den, p1/Den>>.  Interpolated values are scaled by Den^2 so that    *)
(* bilinear weights stay integers.                                         *)
(***************************************************************************)
EXTENDS Integers, Sequences

CONSTANTS
    Den,      \* lattice resolution of fractional indices
    Dp,       \* sample spacing dp = dkm / resolution, in units of 1/Den
    MaxSteps  \* model bound on the number of intervals of one transect

ASSUME HelperAssumption ==
    /\ Den \in Nat \ {0}
    /\ Dp \in Nat \ {0}
    /\ MaxSteps \in Nat

(***************************************************************************)
(* get_troughs: a transect from start to stop (grid indices) is cut into   *)
(* the least number n of equal intervals whose length is at most dp; its   *)
(* points are start + (stop - start) * k / n for k = 0..n, both ends       *)
(* included, rounded down onto the lattice.                                *)
(***************************************************************************)
Covers(d, n) == (n * Dp) * (n * Dp) >= (d[1] * d[1] + d[2] * d[2]) * (Den * Den)

IsStepCount(d, n) == Covers(d, n) /\ (n = 0 \/ ~Covers(d, n - 1))

HasStepCount(d) == \E n \in 0..MaxSteps : IsStepCount(d, n)

NSteps(d) == CHOOSE n \in 0..MaxSteps : IsStepCount(d, n)

TroughPoints(start, stop) ==
    LET d == <<stop[1] - start[1], stop[2] - start[2]>>
        n == NSteps(d)
    IN  IF n = 0
        THEN << <<start[1] * Den, start[2] * Den>> >>
        ELSE [k \in 1..n + 1 |->
                <<start[1] * Den + (d[1] * Den * (k - 1)) \div n,
                  start[2] * Den + (d[2] * Den * (k - 1)) \div n>>]

(***************************************************************************)
(* interpolate_along_transect(f, i, j, di, dj): bilinear interpolation on  *)
(* the four cells f[i,j], f[i,j+1], f[i+1,j], f[i+1,j+1].  The caller      *)
(* passes di as the fraction along the second index j and dj as the        *)
(* fraction along the first index i (spec 4.3: the same orientation is     *)
(* used for the transposed coordinate meshes and for the fields).  The     *)
(* result is scaled by Den^2.                                              *)
(***************************************************************************)
interpolate_along_transect(f, i, j, di, dj) ==
      (Den - di) * (Den - dj) * f[<<i, j>>]
    + di * (Den - dj) * f[<<i, j + 1>>]
    + (Den - di) * dj * f[<<i + 1, j>>]
    + di * dj * f[<<i + 1, j + 1>>]

(***************************************************************************)
(* nearest_along_transect(f, i, j, di, dj): the raw value of the cell      *)
(* nearest to the fractional position, a half rounded up.                  *)
(***************************************************************************)
RoundUp(frac) == IF 2 * frac >= Den THEN 1 ELSE 0

nearest_along_transect(f, i, j, di, dj) == f[<<i + RoundUp(dj), j + RoundUp(di)>>]

=============================================================================
