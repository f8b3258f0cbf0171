------------------------------ MODULE MCSlave ------------------------------
(***************************************************************************)
(* NoraI2CSlave is finite once its counters saturate; the .cfg files       *)
(* choose whether the slave stretches the clock and whether a bus event    *)
(* may fall between the vector's first two steps.                          *)
(***************************************************************************)
EXTENDS NoraI2CSlave
=============================================================================
