----------------------------- MODULE MCRTSPServer -----------------------------
(***************************************************************************)
(* Two connections for RTSPServer: c1 asks what a publisher asks, c2 what  *)
(* a reader asks and more, from the same address or from another.          *)
(***************************************************************************)
EXTENDS RTSPServer, TLC

CONSTANTS c1, c2

Ask(method, id) == [method |-> method, id |-> id, bad |-> FALSE]
AskSetup(mode, bad) ==
    [method |-> "SETUP", id |-> None, bad |-> bad, mode |-> mode, track |-> 0]

Publisher ==
    {Ask("ANNOUNCE", None), AskSetup("record", FALSE), AskSetup(None, FALSE),
     Ask("RECORD", 1), Ask("TEARDOWN", 1)}
Reader ==
    {AskSetup("play", FALSE), AskSetup("play", TRUE), Ask("PLAY", None), Ask("PLAY", 2),
     Ask("RECORD", 1), Ask("OPTIONS", 1), Ask("TEARDOWN", 2)}

MCAsks == c1 :> Publisher @@ c2 :> Reader
MCHosts == {c1 :> 1 @@ c2 :> 1, c1 :> 1 @@ c2 :> 2}
===============================================================================
