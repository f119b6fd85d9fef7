--------------------------- MODULE Exp1Faithful ----------------------------
(***************************************************************************)
(* Proof that the written profiles are the samples of the transect points  *)
(* (ProfileFaithful), for every value of the constants.                    *)
(*                                                                         *)
(* ProfileFaithful speaks only of the last two phases; it holds there      *)
(* because each earlier block left its part right: the read keeps the      *)
(* fields and mask of the input until sampling, the mesh block builds the  *)
(* meshes of the input, the loop fills slot (t, s) with the sample of      *)
(* point s of transect t in the order t, then s, and the cut of lines      *)
(* 257-319 copies the filled slots.  FInv states each of these.            *)
(***************************************************************************)
EXTENDS Exp1Proofs

(* Lines 27-39: until the file is created, the fields and mask are those  *)
(* of the input (the fields are rewritten in place only at line 169).     *)
ReadState ==
    pc \in {"readts", "define", "mesh", "sample"} =>
        fld = inp.cont /\ mask = InputMask

(* Lines 108-114: the loop samples the meshes built from the axes. *)
MeshState == pc = "sample" => xm = InputXM /\ ym = InputYM

(* The sample of point p taken from the input as read. *)
Ref(p) == SampleOf(InputXM, InputYM, inp.cont, InputMask, p)

(* Slot s of transect t holds the sample of point s of transect t. *)
Sampled(t, s) == buf[t][s] = Ref(trans[t][s])

(* Lines 117-137: every slot the loop has passed is filled. *)
LoopState ==
    pc = "sample" =>
        \A t \in 1..NT : \A s \in 1..Len(trans[t]) :
            (t < l \/ (t = l /\ s < k)) => Sampled(t, s)

(* Between the loop and the cut, every slot of every transect is filled. *)
BufState ==
    pc = "write" => \A t \in 1..NT : \A s \in 1..Len(trans[t]) : Sampled(t, s)

(* The inductive invariant behind ProfileFaithful. *)
FInv == IInv /\ ReadState /\ MeshState /\ LoopState /\ BufState /\ ProfileFaithful


-----------------------------------------------------------------------------

USE Exp1Assumption, HelperAssumption

(* The reference meshes and mask depend on the input alone. *)
LEMMA InputFrame ==
    ASSUME inp' = inp
    PROVE  /\ InputXM' = InputXM /\ InputYM' = InputYM
           /\ InputMask' = InputMask
           /\ Mx' = Mx /\ My' = My
BY DEF InputXM, InputYM, InputMask, XMOf, YMOf, MaskRefOf, Mx, My

(* A step that keeps the input keeps every reference sample. *)
LEMMA RefFrame ==
    ASSUME inp' = inp, NEW p
    PROVE  Ref(p)' = Ref(p)
BY InputFrame DEF Ref

(* A filled slot after a step that keeps the transects and the input. *)
LEMMA SampledPrime ==
    ASSUME trans' = trans, inp' = inp, NEW t, NEW s
    PROVE  Sampled(t, s)' <=> buf'[t][s] = Ref(trans[t][s])
BY RefFrame DEF Sampled

(* A step that keeps the buffers, the transects and the input keeps       *)
(* every filled slot filled.                                               *)
LEMMA SampledFrame ==
    ASSUME buf' = buf, trans' = trans, inp' = inp, NEW t, NEW s
    PROVE  Sampled(t, s)' <=> Sampled(t, s)
BY RefFrame DEF Sampled

(* The remap of line 39 is the reference mask. *)
LEMMA RemapIsInputMask == RemapMask(inp.mask) = InputMask
BY DEF RemapMask, InputMask, MaskRefOf

(* The script starts in a state of FInv: no slot is claimed filled yet. *)
LEMMA InitFInv == Init => FInv
<1> SUFFICES ASSUME Init PROVE FInv
  OBVIOUS
<1>1. IInv
  BY InitIInv
<1>2. QED
  BY <1>1 DEF Init, FInv, ReadState, MeshState, LoopState, BufState,
             ProfileFaithful

(* Every block of the script keeps FInv: the read, the meshes, each      *)
(* sampling step, the advance to the next transect, the cut and the close. *)
LEMMA NextFInv == FInv /\ [Next]_vars => FInv'
<1> SUFFICES ASSUME FInv, [Next]_vars PROVE FInv'
  OBVIOUS
<1>0. /\ IInv /\ IInv' /\ TypeOK /\ ReadState /\ MeshState /\ LoopState
      /\ BufState /\ ProfileFaithful
  <2>1. IInv /\ ReadState /\ MeshState /\ LoopState /\ BufState /\ ProfileFaithful
    BY DEF FInv
  <2>2. TypeOK
    BY <2>1 DEF IInv
  <2>3. IInv'
    BY <2>1, NextIInv
  <2>4. QED
    BY <2>1, <2>2, <2>3
<1> USE <1>0
<1> HIDE DEF FInv
<1>1. CASE \/ NamesMissing \/ TimeSeriesTooShort \/ MeshIndexError
           \/ SampleOutOfGrid \/ BufferFull \/ WriteFails
  <2>1. pc' = "failed"
    BY <1>1 DEF NamesMissing, TimeSeriesTooShort, MeshIndexError,
                SampleOutOfGrid, BufferFull, WriteFails, Fail
  <2>2. QED
    BY <2>1 DEF FInv, ReadState, MeshState, LoopState, BufState,
                ProfileFaithful
<1>2. CASE ReadPrimary \/ ReadFallback
  <2>1. /\ pc' = "readts" /\ fld' = inp.cont /\ mask' = RemapMask(inp.mask)
        /\ inp' = inp
    BY <1>2 DEF ReadPrimary, ReadFallback
  <2>2. ReadState'
    BY <2>1, InputFrame, RemapIsInputMask DEF ReadState
  <2>3. QED
    BY <2>1, <2>2 DEF FInv, MeshState, LoopState, BufState, ProfileFaithful
<1>3. CASE ReadTimeSeries \/ DefineProfiles
  <2>1. /\ pc \in {"readts", "define"} /\ pc' \in {"define", "mesh"}
        /\ UNCHANGED <<inp, fld, mask>>
    BY <1>3 DEF ReadTimeSeries, DefineProfiles
  <2>2. ReadState'
    BY <2>1, InputFrame DEF ReadState
  <2>3. QED
    BY <2>1, <2>2 DEF FInv, MeshState, LoopState, BufState, ProfileFaithful
<1>4. CASE BuildMesh
  <2>1. /\ pc = "mesh" /\ pc' = "sample" /\ l' = 1 /\ k' = 1
        /\ xm' = [c \in Grid(Mx, My) |-> inp.x[c[1]]]
        /\ ym' = [c \in Grid(Mx, My) |-> inp.y[c[2]]]
        /\ UNCHANGED <<inp, fld, mask>>
    BY <1>4 DEF BuildMesh
  <2>2. ReadState'
    BY <2>1, InputFrame DEF ReadState
  <2>3. MeshState'
    BY <2>1, InputFrame DEF MeshState, InputXM, InputYM, XMOf, YMOf, Mx, My
  <2>4. LoopState'
    BY <2>1 DEF LoopState
  <2>5. QED
    BY <2>1, <2>2, <2>3, <2>4 DEF FInv, BufState, ProfileFaithful
<1>5. CASE SamplePoint
  <2>1. /\ pc = "sample" /\ l <= NT /\ k <= Len(trans[l]) /\ k <= BufCap
        /\ buf' = [buf EXCEPT ![l][k] = SampleOf(xm, ym, fld, mask, trans[l][k])]
        /\ k' = k + 1
        /\ UNCHANGED <<pc, inp, fld, mask, xm, ym, trans, l>>
    BY <1>5 DEF SamplePoint
  <2>2. SampleOf(xm, ym, fld, mask, trans[l][k]) = Ref(trans[l][k])
    BY <2>1 DEF ReadState, MeshState, Ref
  <2>3. l \in 1..NT /\ k \in 1..BufCap
    BY <2>1 DEF TypeOK
  <2>4. ASSUME NEW t \in 1..NT, NEW s \in 1..Len(trans[t]),
               t < l \/ (t = l /\ s < k + 1)
        PROVE  Sampled(t, s)'
    <3>0. Len(trans[t]) \in Nat /\ s \in Nat
      <4>1. trans[t] \in Seq(Point)
        BY DEF TypeOK
      <4>2. QED
        BY <4>1, LenProperties
    <3>1. s \in 1..BufCap
      <4>1. CASE t < l
        <5>1. t \in 1..l - 1
          BY <4>1, <2>3
        <5>2. Len(trans[t]) <= BufCap
          BY <5>1, <2>1 DEF IInv
        <5>3. QED
          BY <5>2, <3>0
      <4>2. CASE t = l
        BY <4>2, <2>1, <2>3, <2>4, <3>0
      <4>3. QED
        BY <2>4, <4>1, <4>2
    <3>2. Sampled(t, s)' <=> buf'[t][s] = Ref(trans[t][s])
      BY <2>1, SampledPrime
    <3>3. CASE t = l /\ s = k
      <4>1. buf'[t][s] = Ref(trans[t][s])
        BY <3>3, <2>1, <2>2, <2>3 DEF TypeOK
      <4>2. QED
        BY <4>1, <3>2
    <3>4. CASE ~(t = l /\ s = k)
      <4>1. buf'[t][s] = buf[t][s]
        BY <3>4, <3>1, <2>1, <2>3 DEF TypeOK
      <4>2. t < l \/ (t = l /\ s < k)
        BY <3>4, <2>3, <2>4, <3>0
      <4>4. Sampled(t, s)
        BY <4>2, <2>1 DEF LoopState
      <4>3. QED
        BY <4>1, <4>4, <3>2 DEF Sampled
    <3>5. QED
      BY <3>3, <3>4
  <2>5. LoopState'
    BY <2>1, <2>4 DEF LoopState
  <2>6. ReadState' /\ MeshState'
    BY <2>1, InputFrame DEF ReadState, MeshState
  <2>7. QED
    BY <2>1, <2>5, <2>6 DEF FInv, BufState, ProfileFaithful
<1>6. CASE NextTransect
  <2>1. /\ pc = "sample" /\ l <= NT /\ k > Len(trans[l])
        /\ l' = l + 1 /\ k' = 1
        /\ UNCHANGED <<pc, inp, fld, mask, xm, ym, trans, buf>>
    BY <1>6 DEF NextTransect
  <2>2. ASSUME NEW t \in 1..NT, NEW s \in 1..Len(trans[t]),
               t < l + 1 \/ (t = l + 1 /\ s < 1)
        PROVE  Sampled(t, s)'
    <3>1. t < l \/ (t = l /\ s < k)
      BY <2>1, <2>2 DEF TypeOK
    <3>2. Sampled(t, s)
      BY <3>1, <2>1 DEF LoopState
    <3>3. QED
      BY <3>2, <2>1, SampledFrame
  <2>3. LoopState'
    BY <2>1, <2>2 DEF LoopState
  <2>4. ReadState' /\ MeshState'
    BY <2>1, InputFrame DEF ReadState, MeshState
  <2>5. QED
    BY <2>1, <2>3, <2>4 DEF FInv, BufState, ProfileFaithful
<1>7. CASE CreateFile
  <2>1. /\ pc = "sample" /\ l > NT /\ pc' = "write"
        /\ UNCHANGED <<inp, trans, buf, l>>
    BY <1>7 DEF CreateFile
  <2>2. ASSUME NEW t \in 1..NT, NEW s \in 1..Len(trans[t])
        PROVE  Sampled(t, s)'
    <3>1. t < l
      BY <2>1 DEF TypeOK, NT
    <3>2. Sampled(t, s)
      BY <3>1, <2>1 DEF LoopState
    <3>3. QED
      BY <3>2, <2>1, SampledFrame
  <2>3. BufState'
    BY <2>1, <2>2 DEF BufState
  <2>4. QED
    BY <2>1, <2>3 DEF FInv, ReadState, MeshState, LoopState, ProfileFaithful
<1>8. CASE WriteData
  <2>1. /\ pc = "write" /\ pc' = "close"
        /\ out' = [t \in 1..NT |-> [s \in 1..Len(trans[t]) |-> buf[t][s]]]
        /\ UNCHANGED <<inp, trans, buf>>
    BY <1>8 DEF WriteData
  <2>2. ASSUME NEW t \in 1..NT
        PROVE  /\ Len(out'[t]) = Len(trans[t])
               /\ \A s \in 1..Len(out'[t]) : out'[t][s] = Ref(trans[t][s])
    <3>1. Len(trans[t]) \in Nat
      BY DEF TypeOK
    <3>2. out'[t] = [s \in 1..Len(trans[t]) |-> buf[t][s]]
      BY <2>1
    <3>3. Len(out'[t]) = Len(trans[t])
      BY <3>1, <3>2
    <3>4. \A s \in 1..Len(trans[t]) : Sampled(t, s)
      BY <2>1 DEF BufState
    <3>5. QED
      BY <3>2, <3>3, <3>4 DEF Sampled
  <2>3. ASSUME NEW t \in 1..NT, NEW s \in 1..Len(trans[t])
        PROVE  Ref(trans[t][s]) = SampleOf(InputXM', InputYM', inp'.cont,
                                           InputMask', trans'[t][s])
    BY <2>1, InputFrame DEF Ref
  <2>4. ProfileFaithful'
    BY <2>1, <2>2, <2>3 DEF ProfileFaithful
  <2>5. QED
    BY <2>1, <2>4 DEF FInv, ReadState, MeshState, LoopState, BufState
<1>9. CASE CloseFile
  <2>1. /\ pc = "close" /\ pc' = "done"
        /\ UNCHANGED <<inp, trans, out>>
    BY <1>9 DEF CloseFile
  <2>2. ProfileFaithful'
    BY <2>1, InputFrame DEF ProfileFaithful
  <2>3. QED
    BY <2>1, <2>2 DEF FInv, ReadState, MeshState, LoopState, BufState
<1>10. CASE UNCHANGED vars
  <2>1. UNCHANGED <<pc, inp, fld, mask, xm, ym, trans, l, k, buf, out>>
    BY <1>10 DEF vars
  <2>2. ReadState' /\ MeshState' /\ ProfileFaithful'
    BY <2>1, InputFrame DEF ReadState, MeshState, ProfileFaithful
  <2>3. LoopState' /\ BufState'
    BY <2>1, SampledFrame DEF LoopState, BufState
  <2>4. QED
    BY <2>2, <2>3 DEF FInv
<1>11. QED
  BY <1>1, <1>2, <1>3, <1>4, <1>5, <1>6, <1>7, <1>8, <1>9, <1>10 DEF Next

(* The profiles of the exchange file, once written (lines 257-319), hold  *)
(* for each transect exactly its points' samples of the fields as read,   *)
(* in every run of the script and for every input, lattice and buffer     *)
(* capacity.                                                              *)
THEOREM OutputFaithful == Spec => []ProfileFaithful
<1>1. Init => FInv
  BY InitFInv
<1>2. FInv /\ [Next]_vars => FInv'
  BY NextFInv
<1>3. FInv => ProfileFaithful
  BY DEF FInv
<1>4. QED
  BY <1>1, <1>2, <1>3, PTL DEF Spec

=============================================================================
