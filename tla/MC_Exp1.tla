------------------------------ MODULE MC_Exp1 ------------------------------
(***************************************************************************)
(* Model-checking instance of Exp1Postprocess: the input files TLC starts  *)
(* from.  Axes are those of a domain centred on the origin; the fields are *)
(* ice everywhere (value 1) or ice with a zero cell at the centre; the     *)
(* stored mask uses PISM's codes (2 grounded, 3 floating, 4 ice-free       *)
(* ocean) with grounded ice inside and ocean on the outer ring.            *)
(***************************************************************************)
EXTENDS Exp1Postprocess

CONSTANTS MCShapes, MCTsLens

CenteredAxis(n) == [a \in 0..n - 1 |-> a - (n - 1) \div 2]

FieldKinds == {"ice", "hole"}

FieldOf(kind, mx, my) ==
    [c \in Grid(mx, my) |->
        IF kind = "hole" /\ c = <<(mx - 1) \div 2, (mx - 1) \div 2>> THEN 0 ELSE 1]

MaskKinds == {"grounded", "shelf", "island"}

(* "shelf": ocean (4) on the outer ring; "island": ice-free bedrock (0)   *)
(* on the two outer rings; grounded ice (2) elsewhere.                    *)
MaskOf(kind, mx, my) ==
    [c \in Grid(mx, my) |->
        CASE kind = "shelf" /\ (c[1] \in {0, mx - 1} \/ c[2] \in {0, my - 1}) -> 4
          [] kind = "island" /\ (c[1] \in {0, 1, mx - 2, mx - 1}
                                \/ c[2] \in {0, 1, my - 2, my - 1}) -> 0
          [] OTHER -> 2]

(* Which variables cannot be read: none, or a damaged lithk. *)
Unreadables == {{}, {"lithk"}}

(* Which variable names the snapshot holds. *)
Presences ==
    { PrimaryNames \cup FallbackNames,
      PrimaryNames,
      FallbackNames,
      {"xvelmean"} \cup FallbackNames,
      {"xvelmean", "lithk"},
      {} }

MCInputs ==
    { [present |-> p, unreadable |-> u, Mx |-> s[1], My |-> s[2],
       x |-> CenteredAxis(s[2]), y |-> CenteredAxis(s[1]),
       cont |-> [f \in Cont |-> FieldOf(kinds[f], s[1], s[2])],
       mask |-> MaskOf(mk, s[1], s[2]),
       tsLen |-> n] :
         p \in Presences, u \in Unreadables, s \in MCShapes, kinds \in [Cont -> FieldKinds],
         mk \in MaskKinds, n \in MCTsLens }

ShapesSquare7 == {<<7, 7>>}
ShapesSmall == {<<3, 3>>, <<5, 5>>, <<5, 7>>}
ShapesEven == {<<8, 8>>}
ShapesSquareRange == {<<n, n>> : n \in 3..6}

=============================================================================
