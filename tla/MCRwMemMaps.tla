---------------------------- MODULE MCRwMemMaps ----------------------------
(***************************************************************************)
(* Model checking of RwMemMaps: areas of one to four pages, adjacent or    *)
(* with gaps, with the flags that the CE server tells apart.               *)
(***************************************************************************)
EXTENDS RwMemMaps

Area(a, b, f) == [start |-> a, end |-> b, flags |-> f]
RW   == [r |-> TRUE,  w |-> TRUE,  x |-> FALSE, s |-> FALSE]
RX   == [r |-> TRUE,  w |-> FALSE, x |-> TRUE,  s |-> TRUE]
NoFl == [r |-> FALSE, w |-> FALSE, x |-> FALSE, s |-> FALSE]

MCMaps == { <<Area(0, 4, RW)>>,
            <<Area(0, 3, RW), Area(3, 5, RX)>>,
            <<Area(0, 1, RX), Area(2, 3, RW), Area(4, 5, NoFl)>> }

=============================================================================
