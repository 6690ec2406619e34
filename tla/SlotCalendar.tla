---------------------------- MODULE SlotCalendar ----------------------------
(***************************************************************************)
(* What the slots of a turf promise whoever reads them, without requests,  *)
(* statements, transactions or blocks: places are published together, all  *)
(* of one grid and clear of every place there is; after that a place is    *)
(* closed, opened again or removed one at a time, and never moves.         *)
(***************************************************************************)
CONSTANTS
  Grids,        \* the sets of places that can be published together
  Clash(_, _)   \* may two places not both exist?

VARIABLES
  open,         \* places that are offered
  closed        \* places that exist and are not offered

calendar == <<open, closed>>

Init == open = {} /\ closed = {}

(* Several publications may be under way: one that comes later leaves out   *)
(* what would clash with the earlier one.                                   *)
Publish(new) ==
  /\ \E grid \in Grids : new \subseteq grid
  /\ \A p \in new : /\ \A q \in new \ {p} : ~ Clash(p, q)
                    /\ \A q \in open \cup closed : ~ Clash(p, q)
  /\ open' = open \cup new
  /\ UNCHANGED closed

Close(p) ==
  /\ p \in open
  /\ open' = open \ {p}
  /\ closed' = closed \cup {p}

Reopen(p) ==
  /\ p \in closed
  /\ open' = open \cup {p}
  /\ closed' = closed \ {p}

Remove(p) ==
  /\ p \in open \cup closed
  /\ open' = open \ {p}
  /\ closed' = closed \ {p}

Next ==
  \/ \E grid \in Grids : \E new \in SUBSET grid : Publish(new)
  \/ \E p \in open \cup closed : Close(p) \/ Reopen(p) \/ Remove(p)

Spec == Init /\ [][Next]_calendar
=============================================================================
