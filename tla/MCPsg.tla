------------------------------- MODULE MCPsg -------------------------------
(***************************************************************************)
(* One tone channel with periods 0..7, one noise channel.                  *)
(***************************************************************************)
EXTENDS Psg

SmallPeriods == <<1, 2, 4>>

SomeWrites ==
  {[kind |-> "volume", reg |-> 1, value |-> 1],
   [kind |-> "tone", reg |-> 0, value |-> 0], [kind |-> "tone", reg |-> 0, value |-> 2],
   [kind |-> "tone", reg |-> 1, value |-> 3], [kind |-> "tone", reg |-> 1, value |-> 0],
   [kind |-> "data", value |-> 0], [kind |-> "data", value |-> 1]}

NoWrites == {}
=============================================================================
