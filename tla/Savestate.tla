------------------------------ MODULE Savestate ------------------------------
(***************************************************************************)
(* A machine as a text and back: savestate/savestate-save.c and            *)
(* savestate/savestate-restore.c.                                          *)
(*                                                                         *)
(* A machine is a record of what the emulator keeps, named as the file     *)
(* names it: numbers, small arrays from 0, and the three memories. The     *)
(* objects "mapper", "psg", "z80" and so on only group the text. Nobody    *)
(* looks a name up inside its object: find_token takes the first token of  *)
(* that name in the whole file.                                            *)
(***************************************************************************)
EXTENDS Base64, Jsmn, SequencesExt

CONSTANTS RAM_BYTES, VRAM_BYTES, ROM_BYTES   \* RAM_SIZE, VDP_VRAM_SIZE, ROM_MAX_SIZE

\* 8192, 16384 and 4194304 bytes. encode_blob ends the text with the last block
\* only if that is not full; the text of three times n bytes has no end.
ASSUME BlobAssumption ==
  \A size \in {RAM_BYTES, VRAM_BYTES, ROM_BYTES} : size \in Nat /\ size % 3 # 0

\* The parser's pool has room for the 143 tokens of a file that end with its ROM.
ASSUME RoomAssumption == MAX_JSON_TOKENS \in Nat /\ MAX_JSON_TOKENS >= 143

NoName == "NULL"             \* the rom_name of a save that holds the ROM

Z80Registers == <<"af", "bc", "de", "hl", "afp", "bcp", "dep", "hlp", "i", "r", "ix", "iy",
                  "sp", "pc", "iff1", "iff2", "opcode_index">>
Z80Ticks     == <<"int_mode", "stage", "m1_tick", "m2_tick", "m3_tick", "read_address">>
Z80Pins      == <<"n_rd", "n_wr", "n_ioreq", "n_mreq", "n_rfsh", "n_m1", "n_int", "n_nmi",
                  "n_reset", "n_wait", "n_busreq", "n_busack">>

\* How wide the variable is that a number is restored to: 16 bits, or else 8.
Wide == {"af", "bc", "de", "hl", "afp", "bcp", "dep", "hlp", "ix", "iy", "sp", "pc", "m1_tick",
         "m2_tick", "m3_tick", "read_address", "write_address", "address"}
-----------------------------------------------------------------------------
(***************************************************************************)
(* Saving.                                                                 *)
(***************************************************************************)
Member(name, value) == <<Str(name), Mark("colon")>> \o value
Joined(parts) ==
  FlattenSeq([i \in DOMAIN parts |-> IF i < Len(parts) THEN Append(parts[i], Mark("comma")) ELSE parts[i]])
Bracketed(open, parts, close) == <<Mark(open)>> \o Joined(parts) \o <<Mark(close)>>
Object(name, members) == Member(name, Bracketed("object", members, "object_end"))

write_int(m, name)   == Member(name, <<Num(m[name])>>)
write_ints(m, names) == [i \in DOMAIN names |-> write_int(m, names[i])]
WriteArray(m, name, n) ==
  Member(name, Bracketed("array", [i \in 1..n |-> <<Num(m[name][i - 1])>>], "array_end"))
WriteBlob(m, name, size, beyond) == Member(name, <<Blob(encode_blob(m[name], size, beyond))>>)

dump_rom_mapper(m) == Object("mapper", write_ints(m, <<"slot0", "slot1", "slot2">>))
dump_io(m)         == write_int(m, "io_stat")
dump_peripheral(m) == Object("peripheral", write_ints(m, <<"control", "ab", "bm">>))
dump_psg(m)        == Object("psg", <<WriteArray(m, "volume", 4), WriteArray(m, "tone", 4)>>)
dump_z80(m) ==
  Object("z80",
    write_ints(m, Z80Registers) \o <<WriteArray(m, "opcode", 4)>>
    \o write_ints(m, Z80Ticks) \o <<WriteArray(m, "read_buffer", 2)>>
    \o write_ints(m, <<"read_index", "read_is_io", "write_address">>)
    \o <<WriteArray(m, "write_buffer", 2)>>
    \o write_ints(m, <<"write_index", "write_is_io", "data", "data_latch", "address">>)
    \o write_ints(m, Z80Pins))
dump_vdp           == Object("vdp", <<>>)
dump_rom(m, name, beyond) ==
  IF name = NoName THEN WriteBlob(m, "rom", ROM_BYTES, beyond)
  ELSE Member("rom_name", <<IF name = "unescapable" THEN Unescapable ELSE Str(name)>>)

ss_save(m, name, beyond) ==
  Bracketed("object",
    << dump_rom_mapper(m), dump_io(m), dump_peripheral(m), dump_psg(m), dump_z80(m), dump_vdp,
       WriteBlob(m, "ram", RAM_BYTES, beyond), WriteBlob(m, "vram", VRAM_BYTES, beyond),
       dump_rom(m, name, beyond),
       Member("emu_version", <<Str("version")>>), Member("sav_version", <<Str("DEVEL")>>) >>,
    "object_end")
-----------------------------------------------------------------------------
(***************************************************************************)
(* Restoring. Where a name is missing an assertion ends the program.       *)
(***************************************************************************)
Missing == 0

\* The key is a string with one child; the token after it is its value. The scan
\* passes the end of the array by one token, which is taken to be no string.
IsKey(token, name) ==
  token.lexeme.kind = "string" /\ token.size = 1 /\ token.lexeme.name = name
find_token(tokens, name) ==
  LET keys == { i \in 2..Len(tokens) : IsKey(tokens[i], name) }
  IN IF keys = {} THEN Missing ELSE 1 + (CHOOSE i \in keys : \A j \in keys : i <= j)

\* The nine characters of num_str hold any number that is saved.
atoi(token) ==
  LET n == token.lexeme.number IN IF n < 1000000000 THEN n ELSE n \div 10
Cast(name, n) == n % (IF name \in Wide THEN 65536 ELSE 256)
get_json_integer(tokens, name) == Cast(name, atoi(tokens[find_token(tokens, name)]))

GetArray(tokens, name, n, width) ==
  LET t == find_token(tokens, name)
  IN [i \in 0..(n - 1) |-> atoi(tokens[t + 1 + i]) % width]

RestoreBlob(tokens, name, m) == decode_blob(tokens[find_token(tokens, name)].lexeme.blob, m[name])

Arrays == << <<"volume", 4>>, <<"tone", 4>>, <<"opcode", 4>>, <<"read_buffer", 2>>,
             <<"write_buffer", 2>> >>
Numbers == ToSet(Z80Registers) \cup ToSet(Z80Ticks) \cup ToSet(Z80Pins)
           \cup {"slot0", "slot1", "slot2", "io_stat", "control", "ab", "bm", "read_index",
                 "read_is_io", "write_address", "write_index", "write_is_io", "data",
                 "data_latch", "address"}

\* The assertions on the way: each name is there, and the arrays are long enough.
RestorableFault(tokens) ==      \* a file without the ROM or its name will do
  /\ Len(tokens) > 0 /\ tokens[1].size > 0
  /\ \A name \in Numbers \cup {"ram", "vram"} : find_token(tokens, name) # Missing
  /\ \A i \in DOMAIN Arrays :
       LET t == find_token(tokens, Arrays[i][1])
       IN t # Missing /\ tokens[t].size >= Arrays[i][2]

Restorable(tokens) ==
  /\ Len(tokens) > 0 /\ tokens[1].size > 0
  /\ \A name \in Numbers \cup {"ram", "vram"} : find_token(tokens, name) # Missing
  /\ \E name \in {"rom", "rom_name"} : find_token(tokens, name) # Missing
  /\ \A i \in DOMAIN Arrays :
       LET t == find_token(tokens, Arrays[i][1])
       IN t # Missing /\ tokens[t].size >= Arrays[i][2]

\* The machine m after a restore of these tokens.
RestoredValue(tokens, m, name) ==
  CASE name \in Numbers          -> get_json_integer(tokens, name)
    [] name = "tone"             -> GetArray(tokens, "tone", 4, 65536)
    [] name \in {"volume", "opcode"} -> GetArray(tokens, name, 4, 256)
    [] name \in {"read_buffer", "write_buffer"} -> GetArray(tokens, name, 2, 256)
    [] name \in {"ram", "vram"}  -> RestoreBlob(tokens, name, m)
    [] name = "rom"              -> IF find_token(tokens, "rom") = Missing THEN m["rom"]
                                    ELSE RestoreBlob(tokens, "rom", m)
Restored(tokens, m) == [name \in DOMAIN m |-> RestoredValue(tokens, m, name)]
=============================================================================
