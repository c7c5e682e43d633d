----------------------- MODULE MCRetailTemplateSchedule -----------------------
(***************************************************************************)
(* Small instances of RetailTemplateSchedule: one schedule under concurrent *)
(* edits and dispatches by hand, or two schedules under overlapping ticks. *)
(***************************************************************************)
EXTENDS RetailTemplateSchedule
=============================================================================
