--------------------------- MODULE Exp1GridProofs ---------------------------
(***************************************************************************)
(* Proof that the sampling loop of lines 117-137 reads outside the grid    *)
(* only on a 3x3 grid (SupportErrorOnlyOnTinyGrid), for every lattice      *)
(* resolution Den, every spacing Dp and every input.                       *)
(*                                                                         *)
(* Lines 64-75 put every transect end on rows and columns 2, Mp and        *)
(* Mx - 2, and get_troughs starts every transect at the centre <<Mp, Mp>>. *)
(* A point of a transect is start*Den + floor(d*Den*m/n) for m in 0..n:    *)
(* rounded down between Den*start and Den*stop, so its cell index lies     *)
(* between start and stop.  On a square grid of four rows or more all of  *)
(* them lie in 0..Mx-2, so every point keeps its four interpolation cells  *)
(* inside the grid.  GridState carries what the sampling step needs: the   *)
(* transects are those of the input and the grid is square.                *)
(***************************************************************************)
EXTENDS Exp1Proofs

(* From DefineProfiles on, the transects are those get_troughs returns    *)
(* (line 77, with a step count within the bound); from BuildMesh on the   *)
(* grid is square; and an out-of-grid error was raised on a 3x3 grid.     *)
GridState ==
    /\ pc \in {"mesh", "sample", "write", "close", "done"} =>
           /\ trans = TransectsOf(inp)
           /\ \A t \in 1..NT : HasStepCount(Delta(t))
    /\ pc = "sample" => Mx = My
    /\ SupportErrorOnlyOnTinyGrid

GInv == IInv /\ GridState

-----------------------------------------------------------------------------

USE Exp1Assumption, HelperAssumption

(* Integer division by a positive n keeps a value between lo*n and hi*n   *)
(* between lo and hi.                                                     *)
LEMMA DivBetween ==
    ASSUME NEW x \in Int, NEW n \in Nat \ {0}, NEW lo \in Int, NEW hi \in Int,
           lo * n <= x, x <= hi * n
    PROVE  x \div n \in lo..hi
<1>1. /\ x \div n \in Int /\ x % n \in 0..n - 1
      /\ x = n * (x \div n) + (x % n)
  OBVIOUS
<1>2. x \div n <= hi
  <2>1. n * (x \div n) <= n * hi
    BY <1>1
  <2>2. QED
    BY <1>1, <2>1
<1>3. lo <= x \div n
  <2>1. n * lo < n * ((x \div n) + 1)
    BY <1>1
  <2>2. QED
    BY <1>1, <2>1
<1>4. QED
  BY <1>1, <1>2, <1>3

(* The step m of n of a move by e cells, on the lattice 1/Den and rounded *)
(* down as get_troughs does, lies between no move and the whole move.      *)
LEMMA RoundedStep ==
    ASSUME NEW e \in Int, NEW n \in Nat \ {0}, NEW m \in 0..n
    PROVE  /\ e >= 0 => ((e * Den * m) \div n) \in 0..e * Den
           /\ e < 0  => ((e * Den * m) \div n) \in e * Den..0
<1>1. e * Den \in Int /\ e * Den * m \in Int
  OBVIOUS
<1>2. ASSUME e >= 0 PROVE 0 * n <= e * Den * m /\ e * Den * m <= (e * Den) * n
  <2>1. e * Den >= 0
    BY <1>2
  <2>2. QED
    BY <2>1
<1>3. ASSUME e < 0 PROVE (e * Den) * n <= e * Den * m /\ e * Den * m <= 0 * n
  <2>1. e * Den < 0
    BY <1>3
  <2>2. QED
    BY <2>1
<1>4. QED
  BY <1>1, <1>2, <1>3, DivBetween

(* A coordinate of a point of get_troughs, rounded down to its cell, lies *)
(* in any range of cells that holds both the start and the end.           *)
LEMMA CellBetween ==
    ASSUME NEW a \in Int, NEW b \in Int, NEW n \in Nat \ {0}, NEW m \in 0..n,
           NEW lo \in Int, NEW hi \in Int,
           lo <= a, a <= hi, lo <= b, b <= hi
    PROVE  (a * Den + ((b - a) * Den * m) \div n) \div Den \in lo..hi
<1>1. /\ b - a >= 0 => (((b - a) * Den * m) \div n) \in 0..(b - a) * Den
      /\ b - a < 0  => (((b - a) * Den * m) \div n) \in (b - a) * Den..0
  BY RoundedStep
<1>2. /\ a * Den + ((b - a) * Den * m) \div n \in Int
      /\ lo * Den <= a * Den + ((b - a) * Den * m) \div n
      /\ a * Den + ((b - a) * Den * m) \div n <= hi * Den
  <2>1. lo * Den <= a * Den /\ a * Den <= hi * Den
        /\ lo * Den <= b * Den /\ b * Den <= hi * Den
    OBVIOUS
  <2>2. a * Den + (b - a) * Den = b * Den
    OBVIOUS
  <2>3. QED
    BY <1>1, <2>1, <2>2
<1>3. QED
  BY <1>2, DivBetween

(* The single point of a transect of no steps is the start, on its cell. *)
LEMMA CellOfStart ==
    ASSUME NEW a \in Int
    PROVE  (a * Den) \div Den = a
BY DivBetween

(* On a square grid of four rows or more, the centre and the ends of the  *)
(* eight transects of lines 64-75 are cells whose lower-left neighbours of *)
(* interpolation stay inside: rows and columns 0..mx-2.                    *)
LEMMA StopsInGrid ==
    ASSUME NEW mx \in Nat, mx >= 4, NEW t \in 1..NT
    PROVE  /\ MpOf(mx) \in 0..mx - 2
           /\ StopsOf(mx, mx)[t][1] \in 0..mx - 2
           /\ StopsOf(mx, mx)[t][2] \in 0..mx - 2
           /\ StopsOf(mx, mx)[t] = <<StopsOf(mx, mx)[t][1], StopsOf(mx, mx)[t][2]>>
<1>1. MpOf(mx) \in 1..mx - 2
  BY DEF MpOf
<1>2. t \in {1, 2, 3, 4, 5, 6, 7, 8}
  BY DEF NT
<1>3. QED
  BY <1>1, <1>2 DEF StopsOf

(* Every point of every transect of the input keeps its four interpolation *)
(* cells inside a square grid of four rows or more.                        *)
LEMMA TransectSupported ==
    ASSUME inp \in Inputs, Mx = My, Mx >= 4,
           NEW t \in 1..NT, HasStepCount(Delta(t)),
           NEW s \in 1..Len(TransectsOf(inp)[t])
    PROVE  Supported(Decompose(TransectsOf(inp)[t][s]))
<1>1. PICK mx \in Nat, a \in Int, b1 \in Int, b2 \in Int :
        /\ mx = Mx /\ mx >= 4 /\ My = mx
        /\ a = Mp /\ Stops[t] = <<b1, b2>>
        /\ a \in 0..mx - 2 /\ b1 \in 0..mx - 2 /\ b2 \in 0..mx - 2
  <2>1. Mx \in Nat /\ Mx >= 4
    BY InputFacts DEF Mx
  <2>2. Stops = StopsOf(Mx, Mx) /\ Mp = MpOf(Mx)
    BY DEF Stops, Mp
  <2>3. /\ MpOf(Mx) \in 0..Mx - 2
        /\ StopsOf(Mx, Mx)[t][1] \in 0..Mx - 2
        /\ StopsOf(Mx, Mx)[t][2] \in 0..Mx - 2
        /\ StopsOf(Mx, Mx)[t] = <<StopsOf(Mx, Mx)[t][1], StopsOf(Mx, Mx)[t][2]>>
    BY <2>1, StopsInGrid
  <2>4. /\ Mp \in Int /\ Stops[t][1] \in Int /\ Stops[t][2] \in Int
        /\ Mp \in 0..Mx - 2 /\ Stops[t][1] \in 0..Mx - 2 /\ Stops[t][2] \in 0..Mx - 2
        /\ Stops[t] = <<Stops[t][1], Stops[t][2]>>
    BY <2>1, <2>2, <2>3
  <2> USE <2>1, <2>4
  <2>5. WITNESS Mx \in Nat, Mp \in Int, Stops[t][1] \in Int, Stops[t][2] \in Int
  <2>6. QED
    BY <2>1, <2>4
<1>2. /\ TransectsOf(inp)[t] = TroughPoints(<<a, a>>, <<b1, b2>>)
      /\ Delta(t) = <<b1 - a, b2 - a>>
  <2>1. TransectsOf(inp)[t] = TroughPoints(<<Mp, Mp>>, Stops[t])
    BY DEF TransectsOf, Mp, Stops, Mx, My
  <2>2. Delta(t) = <<Stops[t][1] - Mp, Stops[t][2] - Mp>>
    BY DEF Delta
  <2>3. Stops[t][1] = b1 /\ Stops[t][2] = b2
    BY <1>1
  <2>4. QED
    BY <1>1, <2>1, <2>2, <2>3
<1>3. PICK n \in 0..MaxSteps : n = NSteps(<<b1 - a, b2 - a>>)
  BY <1>2 DEF HasStepCount, NSteps
<1>4. CASE n = 0
  <2>1. TransectsOf(inp)[t] = << <<a * Den, a * Den>> >>
    BY <1>2, <1>3, <1>4 DEF TroughPoints
  <2>2. s = 1
    BY <2>1
  <2>3. Decompose(TransectsOf(inp)[t][s]) =
          [i |-> a, j |-> a, di |-> (a * Den) % Den, dj |-> (a * Den) % Den]
    BY <2>1, <2>2, CellOfStart DEF Decompose
  <2>4. QED
    BY <2>3, <1>1 DEF Supported
<1>5. CASE n # 0
  <2>1. TransectsOf(inp)[t] =
          [m \in 1..n + 1 |->
             <<a * Den + ((b1 - a) * Den * (m - 1)) \div n,
               a * Den + ((b2 - a) * Den * (m - 1)) \div n>>]
    BY <1>2, <1>3, <1>5 DEF TroughPoints
  <2>2. s \in 1..n + 1 /\ n \in Nat \ {0} /\ s - 1 \in 0..n
    BY <2>1, <1>3, <1>5
  <2>3. /\ 0 <= a /\ a <= mx - 2 /\ 0 <= b1 /\ b1 <= mx - 2
        /\ 0 <= b2 /\ b2 <= mx - 2 /\ mx - 2 \in Int /\ 0 \in Int
    BY <1>1
  <2>4. (a * Den + ((b1 - a) * Den * (s - 1)) \div n) \div Den \in 0..mx - 2
    BY <2>2, <2>3, CellBetween, ZenonT(60)
  <2>5. (a * Den + ((b2 - a) * Den * (s - 1)) \div n) \div Den \in 0..mx - 2
    BY <2>2, <2>3, CellBetween, ZenonT(60)
  <2>6. TransectsOf(inp)[t][s] =
          <<a * Den + ((b1 - a) * Den * (s - 1)) \div n,
            a * Den + ((b2 - a) * Den * (s - 1)) \div n>>
    BY <2>1, <2>2
  <2>7. PICK p1 \in Int, p2 \in Int :
          /\ TransectsOf(inp)[t][s] = <<p1, p2>>
          /\ p1 \div Den \in 0..mx - 2
          /\ p2 \div Den \in 0..mx - 2
    <3>1. /\ a * Den + ((b1 - a) * Den * (s - 1)) \div n \in Int
          /\ a * Den + ((b2 - a) * Den * (s - 1)) \div n \in Int
      BY <2>2
    <3>2. QED
      BY <3>1, <2>4, <2>5, <2>6, Zenon
  <2>8. Decompose(<<p1, p2>>).i \in 0..mx - 2 /\ Decompose(<<p1, p2>>).j \in 0..mx - 2
    BY <2>7 DEF Decompose
  <2>9. QED
    BY <2>7, <2>8, <1>1 DEF Supported
<1>6. QED
  BY <1>4, <1>5

(* The grid, the transects of the input and their step counts depend on  *)
(* the input alone.                                                        *)
LEMMA GridFrame ==
    ASSUME inp' = inp
    PROVE  /\ Mx' = Mx /\ My' = My
           /\ TransectsOf(inp)' = TransectsOf(inp)
           /\ \A t \in 1..NT : HasStepCount(Delta(t))' <=> HasStepCount(Delta(t))
BY DEF Mx, My, Delta, Stops, Mp

(* The script starts in a state of GridState. *)
LEMMA InitGridState == Init => GridState
BY DEF Init, GridState, SupportErrorOnlyOnTinyGrid

(* Every block keeps GridState.  The only step that raises the             *)
(* out-of-grid error samples a transect point of the input on a square     *)
(* grid, which TransectSupported rules out from four rows on.             *)
LEMMA NextGridState == GInv /\ [Next]_vars => GridState'
<1> SUFFICES ASSUME GInv, [Next]_vars PROVE GridState'
  OBVIOUS
<1>1. inp \in Inputs
  BY DEF GInv, IInv, TypeOK
<1>2. CASE NamesMissing \/ TimeSeriesTooShort \/ MeshIndexError
           \/ BufferFull \/ WriteFails
  <2>1. pc' = "failed" /\ err' # "support"
    BY <1>2 DEF NamesMissing, TimeSeriesTooShort, MeshIndexError,
                BufferFull, WriteFails, Fail
  <2>2. QED
    BY <2>1 DEF GridState, SupportErrorOnlyOnTinyGrid
<1>3. CASE SampleOutOfGrid
  <2>1. /\ pc = "sample" /\ pc' = "failed" /\ err' = "support" /\ inp' = inp
        /\ l \in 1..NT /\ k \in 1..Len(trans[l])
        /\ ~Supported(Decompose(trans[l][k]))
    <3>1. l \in 1..NT + 1 /\ k \in Nat \ {0}
      BY DEF GInv, IInv, TypeOK
    <3>2. QED
      BY <1>3, <3>1 DEF SampleOutOfGrid, Fail
  <2>2. /\ trans = TransectsOf(inp) /\ Mx = My
        /\ HasStepCount(Delta(l))
    BY <2>1 DEF GInv, GridState
  <2>3. ~(Mx >= 4)
    BY <1>1, <2>1, <2>2, TransectSupported
  <2>4. Mx \in Nat
    BY <1>1, InputFacts DEF Mx
  <2>5. QED
    BY <2>1, <2>3, <2>4, GridFrame DEF GridState, SupportErrorOnlyOnTinyGrid
<1>4. CASE ReadPrimary \/ ReadFallback \/ ReadTimeSeries
  <2>1. pc' \in {"readts", "define"} /\ err' = err /\ inp' = inp
    BY <1>4 DEF ReadPrimary, ReadFallback, ReadTimeSeries
  <2>2. QED
    BY <2>1, GridFrame DEF GInv, GridState, SupportErrorOnlyOnTinyGrid
<1>5. CASE DefineProfiles
  <2>1. /\ pc' = "mesh" /\ err' = err /\ inp' = inp
        /\ \A t \in 1..NT : HasStepCount(Delta(t))
        /\ trans' = [t \in 1..NT |-> TroughPoints(<<Mp, Mp>>, Stops[t])]
    BY <1>5 DEF DefineProfiles
  <2>2. trans' = TransectsOf(inp)
    BY <2>1 DEF TransectsOf, Mp, Stops, Mx, My
  <2>3. QED
    BY <2>1, <2>2, GridFrame DEF GInv, GridState, SupportErrorOnlyOnTinyGrid
<1>6. CASE BuildMesh
  <2>1. /\ pc = "mesh" /\ pc' = "sample" /\ Mx = My
        /\ UNCHANGED <<err, inp, trans>>
    BY <1>6 DEF BuildMesh
  <2>2. QED
    BY <2>1, GridFrame DEF GInv, GridState, SupportErrorOnlyOnTinyGrid
<1>7. CASE SamplePoint \/ NextTransect
  <2>1. /\ pc = "sample" /\ pc' = "sample"
        /\ UNCHANGED <<err, inp, trans>>
    BY <1>7 DEF SamplePoint, NextTransect
  <2>2. QED
    BY <2>1, GridFrame DEF GInv, GridState, SupportErrorOnlyOnTinyGrid
<1>8. CASE CreateFile \/ WriteData \/ CloseFile
  <2>1. /\ pc \in {"sample", "write", "close"}
        /\ pc' \in {"write", "close", "done"}
        /\ UNCHANGED <<err, inp, trans>>
    BY <1>8 DEF CreateFile, WriteData, CloseFile
  <2>2. QED
    BY <2>1, GridFrame DEF GInv, GridState, SupportErrorOnlyOnTinyGrid
<1>9. CASE UNCHANGED vars
  <2>1. UNCHANGED <<pc, err, inp, trans>>
    BY <1>9 DEF vars
  <2>2. QED
    BY <2>1, GridFrame DEF GInv, GridState, SupportErrorOnlyOnTinyGrid
<1>10. QED
  BY <1>2, <1>3, <1>4, <1>5, <1>6, <1>7, <1>8, <1>9 DEF Next

(* The sampling loop (lines 117-137) raises the out-of-grid IndexError of *)
(* line 126 only on a grid of fewer than four rows, in every run of the   *)
(* script, for every lattice, spacing, buffer size and input.             *)
THEOREM GridSupport == Spec => []SupportErrorOnlyOnTinyGrid
<1>1. Init => GInv
  BY InitIInv, InitGridState DEF GInv
<1>2. GInv /\ [Next]_vars => GInv'
  BY NextIInv, NextGridState DEF GInv
<1>3. GInv => SupportErrorOnlyOnTinyGrid
  BY DEF GInv, GridState
<1>4. QED
  BY <1>1, <1>2, <1>3, PTL DEF Spec

=============================================================================
