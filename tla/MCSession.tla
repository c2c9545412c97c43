----------------------------- MODULE MCSession -----------------------------
(***************************************************************************)
(* A program of one instruction that increments a byte of memory and one   *)
(* that reads a port, on four addresses of two pages. The last block of a  *)
(* memory holds two bytes, one and one, as with the sizes of the code.     *)
(***************************************************************************)
EXTENDS Session

SessionOps  == { Op("cb", 2, 1, 1, "rmw") } \cup InOps
NoLines     == {}
Watches     == { <<3, {"PC", "RD", "WR"}>>, <<3, {"IO_RD"}>>,
                 <<2, {"RD", "IO_RD", "IO_16B"}>> }
SaveKinds   == { <<NoName, 255>>, <<"game", 0>>, <<"unescapable", 0>> }
AllCuts     == { <<n, piece>> : n \in 0..293, piece \in BOOLEAN }
Distinct    == { <<2, 3, 1, 2, 0, 1>> }
FewLags     == {0, 3}
=============================================================================
