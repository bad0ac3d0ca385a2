------------------------------ MODULE MC_Launcher ------------------------------
(* Instances of Launcher: a folder that holds an extracted game and an add-on, *)
(* and one that holds nothing; one setting with a default.                     *)
EXTENDS Launcher, TLC

CONSTANTS xex, addon, extracted, dump, empty, width

HomeOf == xex :> extracted
ReachOf == extracted :> {xex} @@ dump :> {xex, addon} @@ empty :> {}
EngineOf == width :> 0
DefaultOf == width :> 1

Flags == [game |-> None, set |-> [s \in Settings |-> None], setup |-> FALSE,
          embedded |-> FALSE, ends |-> "no"]
Narrow == [s \in Settings |-> IF s = width THEN 0 ELSE None]

\* From the desktop, Setup.bat, a frontend, and the modes that answer and exit.
UsualLaunches ==
  {Flags, [Flags EXCEPT !.setup = TRUE],
   [Flags EXCEPT !.game = dump, !.set = Narrow, !.embedded = TRUE],
   [Flags EXCEPT !.embedded = TRUE, !.setup = FALSE],
   [Flags EXCEPT !.game = xex, !.ends = "printed"],
   [Flags EXCEPT !.ends = "first"]}
==============================================================================
