----------------------------- MODULE ZedAnalyzer -----------------------------
(***************************************************************************)
(* zed::analyze (sms-ui/zed/zedeighty.cxx): a walk over the ROM from the   *)
(* first instruction along everything the disassembler says may follow.    *)
(* It collects where calls lead and where returns are, and prints them.    *)
(* main calls it once the ROM is loaded, before the machine runs. Of the   *)
(* lists of operations it fills, only unsafe_jumps is kept here, as the    *)
(* set of its addresses: nothing reads the others.                         *)
(***************************************************************************)
EXTENDS Z80Dasm, SequencesExt

CONSTANT start_addr
ASSUME StartAssumption == start_addr \in Nat

VARIABLES rom,                                 \* address -> byte; the walk only reads it
          frontier,                            \* addresses to look at
          hit_address,                         \* addresses looked at
          unsafe_jumps,                        \* where the walk cannot follow
          call_entry, call_return,             \* lists of addresses
          phase,                               \* "walk", "print", "done"
          report                               \* what has been printed of the two lists

zedVars == <<rom, frontier, hit_address, unsafe_jumps, call_entry, call_return, phase,
             report>>

\* main gives 48 KB - 1 for the end; here it leaves the ROM four bytes to decode.
end_addr == Cardinality(DOMAIN rom) - 4

Bytes(addr) == [i \in 0..3 |-> IF addr + i \in DOMAIN rom THEN rom[addr + i] ELSE 0]
Op(addr)    == z80d_decode_op(Bytes(addr), addr)

\* What one operation adds to a list: at most two entries.
Entries(op) == IF {"CONST_JUMP", "CALL"} \subseteq op.flags THEN <<op.address_jump>> ELSE <<>>
Returned(op) ==
  IF "RETURN" \notin op.flags THEN <<>>
  ELSE (IF "NORMAL" \in op.flags THEN <<op.address>> ELSE <<>>)
       \o (IF "INDIRECT_JUMP" \in op.flags THEN <<op.address>> ELSE <<>>)
\* Fault: the else of the test for a constant jump, the relative one, is lost.
FollowedFault(op) ==
  (IF "NORMAL" \in op.flags THEN <<op.address_next>> ELSE <<>>)
  \o (IF "CONST_JUMP" \in op.flags THEN <<op.address_jump>> ELSE <<>>)
Followed(op) ==
  (IF "NORMAL" \in op.flags THEN <<op.address_next>> ELSE <<>>)
  \o (IF "CONST_JUMP" \in op.flags THEN <<op.address_jump>> ELSE <<>>)
  \o (IF "REL_JUMP" \in op.flags THEN <<op.address_jump>> ELSE <<>>)
-----------------------------------------------------------------------------
ZedInit ==
  /\ frontier = <<start_addr>>
  /\ hit_address = {} /\ unsafe_jumps = {}
  /\ call_entry = <<>> /\ call_return = <<>>
  /\ phase = "walk"
  /\ report = <<>>

\* An address out of range or seen before is dropped.
Skip ==
  /\ phase = "walk" /\ frontier # <<>>
  /\ Head(frontier) > end_addr \/ Head(frontier) \in hit_address
  /\ frontier' = Tail(frontier)
  /\ UNCHANGED <<rom, hit_address, unsafe_jumps, call_entry, call_return, phase, report>>

\* Fault: hit_address is not set.
VisitFault ==
  /\ phase = "walk" /\ frontier # <<>>
  /\ Head(frontier) <= end_addr /\ Head(frontier) \notin hit_address
  /\ \E op \in {Op(Head(frontier))} :
       /\ frontier' = Tail(frontier) \o Followed(op)
       /\ call_entry' = call_entry \o Entries(op)
       /\ call_return' = call_return \o Returned(op)
  /\ UNCHANGED <<rom, hit_address, unsafe_jumps, phase, report>>

Visit ==
  /\ phase = "walk" /\ frontier # <<>>
  /\ Head(frontier) <= end_addr /\ Head(frontier) \notin hit_address
  /\ \E op \in {Op(Head(frontier))} :
       /\ hit_address' = hit_address \cup {op.address}
       /\ frontier' = Tail(frontier) \o Followed(op)
       /\ unsafe_jumps' = unsafe_jumps
                          \cup IF "INDIRECT_JUMP" \in op.flags THEN {op.address} ELSE {}
       /\ call_entry' = call_entry \o Entries(op)
       /\ call_return' = call_return \o Returned(op)
  /\ UNCHANGED <<rom, phase, report>>

\* sort(): as far back as there are smaller entries, and equal ones before it.
Place(s, i) == Cardinality({ j \in DOMAIN s : s[j] < s[i] \/ (s[j] = s[i] /\ j <= i) })
Sorted(s)   == [k \in 1..Len(s) |-> s[CHOOSE i \in DOMAIN s : Place(s, i) = k]]

\* sort(), and the loop that keeps an address when it differs from the last one.
\* Fault: the loop that follows the sort is left out.
UniqueFault(s) == Sorted(s)
Unique(s) ==
  LET sorted == Sorted(s)
      keep   == { i \in DOMAIN s : i = 1 \/ sorted[i] # sorted[i - 1] }
  IN [k \in 1..Cardinality(keep) |->
        sorted[CHOOSE i \in keep : Cardinality({ j \in keep : j <= i }) = k]]

SortLists ==
  /\ phase = "walk" /\ frontier = <<>>
  /\ call_entry' = Unique(call_entry)
  /\ call_return' = Unique(call_return)
  /\ phase' = "print"
  /\ UNCHANGED <<rom, frontier, hit_address, unsafe_jumps, report>>

\* for (i = 0; i < list.size(); i++) with a pop_front in its body: the list gets
\* shorter as i grows, and the loop ends half way.
HalfOf(s) == SubSeq(s, 1, (Len(s) + 1) \div 2)
RestOf(s) == SubSeq(s, (Len(s) + 1) \div 2 + 1, Len(s))

PrintLists ==
  /\ phase = "print"
  /\ report' = HalfOf(call_entry) \o HalfOf(call_return)
  /\ call_entry' = RestOf(call_entry) /\ call_return' = RestOf(call_return)
  /\ phase' = "done"
  /\ UNCHANGED <<rom, frontier, hit_address, unsafe_jumps>>

ZedNext == Skip \/ Visit \/ SortLists \/ PrintLists
-----------------------------------------------------------------------------
(***************************************************************************)
(* Properties.                                                             *)
(***************************************************************************)
InRange == 0..end_addr

\* While the walk lasts (zedeighty.cxx:33), nothing that may follow an
\* instruction is lost: it has been looked at, waits in the frontier, or lies
\* out of range. And nothing is looked at but what follows an instruction.
WalkIsClosed ==
  phase = "walk" =>
    LET next  == {start_addr} \cup UNION { Successors(Op(a)) : a \in hit_address }
        known == hit_address \cup ToSet(frontier)
    IN next \cap InRange \subseteq known /\ known \subseteq next

\* The lists that are printed (zedeighty.cxx:88-138) name, each once and in
\* order, the targets of the calls that were looked at and the returns.
ListsAreExact ==
  phase = "print" =>
    /\ ToSet(call_entry)
         = { Op(a).address_jump : a \in { b \in hit_address : "CALL" \in Op(b).flags } }
    /\ ToSet(call_return) = { a \in hit_address : "RETURN" \in Op(a).flags }
    /\ \A list \in {call_entry, call_return} :
         \A i \in 1..(Len(list) - 1) : list[i] < list[i + 1]

\* The walk ends, whatever loops the program has (zedeighty.cxx:50).
AnalysisEnds == (phase = "walk") ~> (phase = "done")
=============================================================================
