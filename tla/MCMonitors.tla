----------------------------- MODULE MCMonitors -----------------------------
(***************************************************************************)
(* The monitors, the DOODS client and the geometry of the detectors.  The  *)
(* parts share nothing here, so a behaviour exercises one of them; the     *)
(* geometry is evaluated in the initial states.                            *)
(***************************************************************************)
EXTENDS Monitors, DoodsClient, Regions

CONSTANTS m1, s1, s2

VARIABLE part

mcVars == <<part, monitorVars, doodsVars>>

\* A monitor is disabled, or has all its inputs.
MCConfigs == {{}, Inputs}

MCInit ==
    \/ part = "monitors" /\ MonitorsInit /\ client = At("stopped") /\ DoodsStart
    \/ part = "doods" /\ DoodsInit /\ raw = [m \in Ids |-> None] /\ mgr = Free /\ MonitorsStart

MCNext ==
    /\ UNCHANGED part
    /\ \/ part = "monitors" /\ MonitorsNext /\ UNCHANGED doodsVars
       \/ part = "doods" /\ DoodsNext /\ UNCHANGED monitorVars

\* In the other part nothing of the monitors is enabled.
MCSpec == MCInit /\ [][MCNext]_mcVars /\ MonitorsFairness

\* In a frame of 5 x 1 pixels 60 percent of the width are two pixels or three.
Triangles(x) == [1..3 -> {0, x, 100} \X {0, 100}]
Frames(n) == [1..n -> {0, 200}]
Blanks(n) == {[i \in 1..n |-> 200 * (i % 2)]}
Crops == {[at |-> 0, size |-> 100], [at |-> 10, size |-> 70], [at |-> 25, size |-> 75], [at |-> 0, size |-> 40]}

\* The region of interest of both detectors is what the configuration says: a
\* motion zone is active exactly if enough of the pixels inside its polygon
\* changed, and a DOODS detection is reported where it is in the monitor's frame.
RegionsExact ==
    MCInit /\ part = "doods" =>
        /\ ZonesExact(3, 2, Triangles(50), Frames(6), Blanks(6))
        /\ ZonesExact(5, 1, Triangles(60), Frames(5), Blanks(5))
        /\ DetectionsMapBack({100, 160, 200}, {30, 100}, Crops)
=============================================================================
