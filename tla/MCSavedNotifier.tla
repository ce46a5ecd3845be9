-------------------------- MODULE MCSavedNotifier --------------------------
(***************************************************************************)
(* A small instance of SavedNotifier: the union of two smaller ones, which *)
(* MCPart keeps apart. Together, a search that can be pushed, and opened,  *)
(* shares its match with one that never can, and nothing fails by chance.  *)
(* Alone, it is opened twice at once, and a push, a page or the process    *)
(* fails.                                                                  *)
(***************************************************************************)
EXTENDS SavedNotifier

CONSTANT Second

MCMatches == [s \in Searches |-> Docs]

Together ==
  /\ faults = 0
  /\ open[Second].pc = "idle"
  /\ \A o \in Openings : open[o].search \notin Unpushable
Alone == \A s \in Unpushable : saved[s].created = -1
MCPart == Together \/ Alone
=============================================================================
