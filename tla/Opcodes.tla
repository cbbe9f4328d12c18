------------------------------ MODULE Opcodes -------------------------------
(***************************************************************************)
(* libdisasm/ia32_opcode_tables.c: the tables of instructions, by opcode   *)
(* byte or by the bits of a ModR/M byte.  A row keeps what the decoder     *)
(* acts on: the table it leads to, the prefix it is, the kind of the       *)
(* instruction where something depends on it, its operands in Intel's      *)
(* notation, and the number of its list of implicit operands.  Names, the  *)
(* CPU, flags and access rights but OP_X are left out.  What a table does  *)
(* not list is INS_INVALID.                                                *)
(***************************************************************************)
EXTENDS Naturals, Sequences, TLC

NONE == "none"

-----------------------------------------------------------------------------
(* Operands: an addressing method and a type, for a fixed operand also its *)
(* number.  The target of a jump or call is executed.                      *)

Op(method, type)       == [method |-> method, type |-> type, value |-> 0, exec |-> FALSE]
Exe(method, type)      == [Op(method, type) EXCEPT !.exec = TRUE]
Fix(method, type, val) == [Op(method, type) EXCEPT !.value = val]

(* Rows.                                                                   *)

Ins(ops) == [table |-> NONE, kind |-> "other", prefix |-> {}, suffix |-> FALSE,
             ops |-> ops, implicit |-> 0]
Invalid  == [Ins(<<>>) EXCEPT !.kind = "invalid"]

As(kind, row)          == [row EXCEPT !.kind = kind]
Using(list, row)       == [row EXCEPT !.implicit = list]
Escape(table)          == [Invalid EXCEPT !.table = table]
Prefix(flags, table)   == [Invalid EXCEPT !.prefix = flags, !.table = table]
Suffixed(table, ops)   == [Ins(ops) EXCEPT !.table = table, !.suffix = TRUE]

\* The same row for a set of bytes; rows for a run of bytes.
At(bytes, row)         == [b \in bytes |-> row]
Escapes(first, tables) == [b \in first .. first + Len(tables) - 1 |->
                              Escape(tables[b - first + 1])]

-----------------------------------------------------------------------------
tbl_Main_low ==
       At({\h00 + 8 * i : i \in 0 .. 7}, Ins(<<Op("E", "b"), Op("G", "b")>>))
    @@ At({\h01 + 8 * i : i \in 0 .. 7}, Ins(<<Op("E", "v"), Op("G", "v")>>))
    @@ At({\h02 + 8 * i : i \in 0 .. 7}, Ins(<<Op("G", "b"), Op("E", "b")>>))
    @@ At({\h03 + 8 * i : i \in 0 .. 7}, Ins(<<Op("G", "v"), Op("E", "v")>>))
    @@ At({\h04 + 8 * i : i \in 0 .. 7}, Ins(<<Fix("RR", "b", 0), Op("I", "b")>>))
    @@ At({\h05 + 8 * i : i \in 0 .. 7}, Ins(<<Fix("RR", "v", 0), Op("I", "v")>>))
    @@ [b \in {\h06 + 8 * i : i \in 0 .. 3}
           |-> As("push", Using(33, Ins(<<Fix("RS", "w", b \div 8)>>)))]
    @@ [b \in {\h07, \h17, \h1F} |-> As("pop", Using(33, Ins(<<Fix("RS", "w", b \div 8)>>)))]
    @@ \h0F :> Escape("0F")
    @@ \h26 :> Prefix({"es"}, NONE)
    @@ \h27 :> Using(12, Ins(<<>>))
    @@ \h2E :> Prefix({"not_taken", "cs"}, NONE)
    @@ At({\h2F, \h3F}, Ins(<<>>))
    @@ \h36 :> Prefix({"ss"}, NONE)
    @@ \h37 :> Using(1, Ins(<<>>))
    @@ \h3E :> Prefix({"taken", "ds"}, NONE)
    @@ [b \in \h40 .. \h4F |-> Ins(<<Fix("RR", "v", b % 8)>>)]
    @@ [b \in \h50 .. \h57 |-> As("push", Using(33, Ins(<<Fix("RR", "v", b % 8)>>)))]
    @@ [b \in \h58 .. \h5F |-> As("pop", Using(33, Ins(<<Fix("RR", "v", b % 8)>>)))]
    @@ \h60 :> As("pushregs", Using(36, Ins(<<>>)))
    @@ \h61 :> As("popregs", Using(34, Ins(<<>>)))
    @@ \h62 :> Ins(<<Op("G", "v"), Op("M", "a")>>)
    @@ \h63 :> Ins(<<Op("E", "w"), Op("G", "w")>>)
    @@ \h64 :> Prefix({"fs"}, NONE)
    @@ \h65 :> Prefix({"gs"}, NONE)
    @@ \h66 :> Prefix({"op_size"}, "66")
    @@ \h67 :> Prefix({"addr_size"}, NONE)
    @@ \h68 :> As("push", Using(33, Ins(<<Op("I", "v")>>)))
    @@ \h69 :> Ins(<<Op("G", "v"), Op("E", "v"), Op("I", "v")>>)
    @@ \h6A :> As("push", Using(33, Ins(<<Op("I", "b")>>)))
    @@ \h6B :> Ins(<<Op("G", "v"), Op("E", "v"), Op("I", "b")>>)
    @@ \h6C :> Ins(<<Op("Y", "b"), Fix("RR", "b", 2)>>)
    @@ \h6D :> Ins(<<Op("Y", "v"), Fix("RR", "v", 2)>>)
    @@ \h6E :> Ins(<<Fix("RR", "b", 2), Op("X", "b")>>)
    @@ \h6F :> Ins(<<Fix("RR", "v", 2), Op("X", "v")>>)
    @@ At(\h70 .. \h7F, As("jcc", Ins(<<Exe("J", "b")>>)))

tbl_Main_high ==
       Escapes(\h80, <<"80", "81", "82", "83">>)
    @@ At({\h84, \h86, \h88}, Ins(<<Op("E", "b"), Op("G", "b")>>))
    @@ At({\h85, \h87, \h89}, Ins(<<Op("E", "v"), Op("G", "v")>>))
    @@ \h8A :> Ins(<<Op("G", "b"), Op("E", "b")>>)
    @@ \h8B :> Ins(<<Op("G", "v"), Op("E", "v")>>)
    @@ \h8C :> Ins(<<Op("E", "w"), Op("S", "w")>>)
    @@ \h8D :> Ins(<<Op("G", "v"), Op("M", "m")>>)
    @@ \h8E :> Ins(<<Op("S", "w"), Op("E", "w")>>)
    @@ \h8F :> As("pop", Using(33, Ins(<<Op("E", "v")>>)))
    @@ At((\hF8 .. \hFD) \cup {\h90, \h9B, \hCC, \hCE, \hCF, \hD6, \hF1, \hF4, \hF5}, Ins(<<>>))
    @@ [b \in \h91 .. \h97 |-> Ins(<<Fix("RR", "v", 0), Fix("RR", "v", b % 8)>>)]
    @@ \h98 :> Using(5, Ins(<<>>))
    @@ \h99 :> Using(11, Ins(<<>>))
    @@ \h9A :> As("call", Ins(<<Exe("A", "p")>>))
    @@ \h9C :> As("pushflags", Using(37, Ins(<<>>)))
    @@ \h9D :> As("popflags", Using(35, Ins(<<>>)))
    @@ \h9E :> Using(43, Ins(<<>>))
    @@ \h9F :> Using(24, Ins(<<>>))
    @@ \hA0 :> Ins(<<Fix("RR", "b", 0), Op("O", "b")>>)
    @@ \hA1 :> Ins(<<Fix("RR", "v", 0), Op("O", "v")>>)
    @@ \hA2 :> Ins(<<Op("O", "b"), Fix("RR", "b", 0)>>)
    @@ \hA3 :> Ins(<<Op("O", "v"), Fix("RR", "v", 0)>>)
    @@ At({\hA4, \hA6}, Ins(<<Op("Y", "b"), Op("X", "b")>>))
    @@ \hA5 :> Ins(<<Op("Y", "v"), Op("X", "v")>>)
    @@ \hA7 :> Ins(<<Op("X", "v"), Op("Y", "v")>>)
    @@ At({\hA8, \hE4, \hE5}, Ins(<<Fix("RR", "b", 0), Op("I", "b")>>))
    @@ \hA9 :> Ins(<<Fix("RR", "v", 0), Op("I", "v")>>)
    @@ \hAA :> Ins(<<Op("Y", "b"), Fix("RR", "b", 0)>>)
    @@ \hAB :> Ins(<<Op("Y", "v"), Fix("RR", "v", 0)>>)
    @@ \hAC :> Ins(<<Fix("RR", "b", 0), Op("X", "b")>>)
    @@ \hAD :> Ins(<<Fix("RR", "v", 0), Op("X", "v")>>)
    @@ \hAE :> Ins(<<Fix("RR", "b", 0), Op("Y", "b")>>)
    @@ \hAF :> Ins(<<Fix("RR", "v", 0), Op("Y", "v")>>)
    @@ [b \in \hB0 .. \hB7 |-> Ins(<<Fix("RR", "b", b % 8), Op("I", "b")>>)]
    @@ [b \in \hB8 .. \hBF |-> Ins(<<Fix("RR", "v", b % 8), Op("I", "v")>>)]
    @@ Escapes(\hC0, <<"C0", "C1">>)
    @@ At({\hC2, \hCA}, As("return", Using(3, Ins(<<Op("I", "w")>>))))
    @@ At({\hC3, \hCB}, As("return", Using(3, Ins(<<>>))))
    @@ At({\hC4, \hC5}, Ins(<<Op("G", "v"), Op("M", "p")>>))
    @@ Escapes(\hC6, <<"C6", "C7">>)
    @@ \hC8 :> As("enter", Using(15, Ins(<<Op("I", "w"), Op("I", "b")>>)))
    @@ \hC9 :> As("leave", Using(26, Ins(<<>>)))
    @@ At({\hCD, \hD4}, Ins(<<Op("I", "b")>>))
    @@ Escapes(\hD0, <<"D0", "D1", "D2", "D3">>)
    @@ \hD5 :> Using(2, Ins(<<Op("I", "b")>>))
    @@ \hD7 :> Using(53, Ins(<<>>))
    @@ Escapes(\hD8, <<"D8", "D9", "DA", "DB", "DC", "DD", "DE", "DF">>)
    @@ At(\hE0 .. \hE3, As("jcc", Using(31, Ins(<<Exe("J", "b")>>))))
    @@ At({\hE6, \hE7}, Ins(<<Op("I", "b"), Fix("RR", "b", 0)>>))
    @@ \hE8 :> As("call", Using(3, Ins(<<Exe("J", "v")>>)))
    @@ \hE9 :> As("jmp", Ins(<<Exe("J", "v")>>))
    @@ \hEA :> As("jmp", Ins(<<Exe("A", "p")>>))
    @@ \hEB :> As("jmp", Ins(<<Exe("J", "b")>>))
    @@ \hEC :> Ins(<<Fix("RR", "b", 0), Fix("RR", "w", 2)>>)
    @@ \hED :> Ins(<<Fix("RR", "v", 0), Fix("RR", "w", 2)>>)
    @@ \hEE :> Ins(<<Fix("RR", "w", 2), Fix("RR", "b", 0)>>)
    @@ \hEF :> Ins(<<Fix("RR", "w", 2), Fix("RR", "v", 0)>>)
    @@ \hF0 :> Prefix({"lock"}, NONE)
    @@ \hF2 :> Prefix({"repnz"}, "F2")
    @@ \hF3 :> Prefix({"repz"}, "F3")
    @@ Escapes(\hF6, <<"F6", "F7">>)
    @@ Escapes(\hFE, <<"FE", "FF">>)

tbl_Main == tbl_Main_low @@ tbl_Main_high

tbl_66 == \h0F :> Escape("660F")

tbl_F2 == \h0F :> Escape("F20F")

tbl_F3 ==
       \h0F :> Escape("F30F")
    @@ \h90 :> Ins(<<>>)

tbl_0F_low ==
       Escapes(\h00, <<"0F00", "0F01">>)
    @@ At({\h02, \h03}, Ins(<<Op("G", "v"), Op("E", "w")>>))
    @@ \h06 :> Using(6, Ins(<<>>))
    @@ At({\h08, \h09, \h0B, \h0E, \h77}, Ins(<<>>))
    @@ \h0D :> Ins(<<Op("M", "b")>>)
    @@ \h0F :> Suffixed("0F0F", <<Op("P", "pi"), Op("Q", "q")>>)
    @@ At((\h51 .. \h59) \cup (\h5C .. \h5F) \cup {\h10, \h28}
          , Ins(<<Op("V", "ps"), Op("W", "ps")>>))
    @@ At({\h11, \h29, \h2B}, Ins(<<Op("W", "ps"), Op("V", "ps")>>))
    @@ \h12 :> Escape("0F12")
    @@ \h13 :> Ins(<<Op("V", "q"), Op("W", "q")>>)
    @@ At({\h14, \h15}, Ins(<<Op("V", "ps"), Op("W", "q")>>))
    @@ \h16 :> Escape("0F16")
    @@ \h17 :> Ins(<<Op("W", "q"), Op("V", "q")>>)
    @@ \h18 :> Escape("0F18")
    @@ \h20 :> Ins(<<Op("R", "d"), Op("C", "d")>>)
    @@ \h21 :> Ins(<<Op("R", "d"), Op("D", "d")>>)
    @@ \h22 :> Ins(<<Op("C", "d"), Op("R", "d")>>)
    @@ \h23 :> Ins(<<Op("D", "d"), Op("R", "d")>>)
    @@ \h24 :> Ins(<<Op("R", "d"), Op("T", "d")>>)
    @@ \h26 :> Ins(<<Op("T", "d"), Op("R", "d")>>)
    @@ \h2A :> Ins(<<Op("V", "ps"), Op("Q", "q")>>)
    @@ At({\h2C, \h2D}, Ins(<<Op("P", "q"), Op("W", "q")>>))
    @@ \h2E :> Ins(<<Op("V", "ss"), Op("W", "ss")>>)
    @@ \h2F :> Ins(<<Op("V", "ps"), Op("W", "ss")>>)
    @@ \h30 :> Using(52, Ins(<<>>))
    @@ \h31 :> Using(40, Ins(<<>>))
    @@ \h32 :> Using(38, Ins(<<>>))
    @@ \h33 :> Using(39, Ins(<<>>))
    @@ \h34 :> Using(50, Ins(<<>>))
    @@ \h35 :> Using(51, Ins(<<>>))
    @@ At(\h40 .. \h4F, Ins(<<Op("G", "v"), Op("E", "v")>>))
    @@ \h50 :> Ins(<<Op("G", "d"), Op("W", "ps")>>)
    @@ \h5A :> Ins(<<Op("V", "pd"), Op("W", "q")>>)
    @@ \h5B :> Ins(<<Op("V", "ps"), Op("W", "dq")>>)
    @@ At(\h60 .. \h6B, Ins(<<Op("P", "q"), Op("Q", "d")>>))
    @@ \h6E :> Ins(<<Op("P", "d"), Op("E", "d")>>)
    @@ At({\h6F, \h74, \h75, \h76}, Ins(<<Op("P", "q"), Op("Q", "q")>>))
    @@ \h70 :> Ins(<<Op("P", "q"), Op("Q", "q"), Op("I", "b")>>)
    @@ Escapes(\h71, <<"0F71", "0F72", "0F73">>)
    @@ \h7E :> Ins(<<Op("E", "d"), Op("P", "d")>>)
    @@ \h7F :> Ins(<<Op("Q", "q"), Op("P", "q")>>)
    @@ At(\h80 .. \h8F, As("jcc", Ins(<<Exe("J", "v")>>)))

tbl_0F_high ==
       At(\h90 .. \h9F, Ins(<<Op("E", "b")>>))
    @@ \hA0 :> As("push", Using(33, Ins(<<Fix("RS", "w", 4)>>)))
    @@ \hA1 :> As("pop", Using(33, Ins(<<Fix("RS", "w", 4)>>)))
    @@ \hA2 :> Using(10, Ins(<<>>))
    @@ At({\hA3, \hAB, \hB3, \hBB, \hC1}, Ins(<<Op("E", "v"), Op("G", "v")>>))
    @@ At({\hA4, \hAC}, Ins(<<Op("E", "v"), Op("G", "v"), Op("I", "b")>>))
    @@ At({\hA5, \hAD}, Ins(<<Op("E", "v"), Op("G", "v"), Fix("RR", "b", 1)>>))
    @@ \hA8 :> As("push", Using(33, Ins(<<Fix("RS", "w", 5)>>)))
    @@ \hA9 :> As("pop", Using(33, Ins(<<Fix("RS", "w", 5)>>)))
    @@ \hAA :> Using(42, Ins(<<>>))
    @@ \hAE :> Escape("0FAE")
    @@ At({\hAF, \hBC, \hBD}, Ins(<<Op("G", "v"), Op("E", "v")>>))
    @@ \hB0 :> Using(8, Ins(<<Op("E", "b"), Op("G", "b")>>))
    @@ \hB1 :> Using(7, Ins(<<Op("E", "v"), Op("G", "v")>>))
    @@ At({\hB2, \hB4, \hB5}, Ins(<<Op("G", "v"), Op("M", "p")>>))
    @@ At({\hB6, \hBE}, Ins(<<Op("G", "v"), Op("E", "b")>>))
    @@ At({\hB7, \hBF}, Ins(<<Op("G", "v"), Op("E", "w")>>))
    @@ \hB9 :> Ins(<<>>)
    @@ \hBA :> Escape("0FBA")
    @@ \hC0 :> Ins(<<Op("E", "b"), Op("G", "b")>>)
    @@ At({\hC2, \hC6}, Ins(<<Op("V", "ps"), Op("W", "ps"), Op("I", "b")>>))
    @@ \hC3 :> Ins(<<Op("M", "d"), Op("G", "d")>>)
    @@ \hC4 :> Ins(<<Op("P", "q"), Op("E", "d"), Op("I", "b")>>)
    @@ \hC5 :> Ins(<<Op("G", "d"), Op("Q", "q"), Op("I", "b")>>)
    @@ \hC7 :> Using(9, Ins(<<Op("M", "q")>>))
    @@ [b \in \hC8 .. \hCF |-> Ins(<<Fix("RR", "d", b % 8)>>)]
    @@ At((\hD1 .. \hD5) \cup (\hD8 .. \hE5) \cup (\hE8 .. \hEF) \cup (\hF1 .. \hF6)
            \cup (\hF8 .. \hFE)
          , Ins(<<Op("P", "q"), Op("Q", "q")>>))
    @@ \hD7 :> Ins(<<Op("G", "d"), Op("Q", "q")>>)
    @@ \hE7 :> Ins(<<Op("W", "q"), Op("V", "q")>>)
    @@ \hF7 :> Ins(<<Op("P", "pi"), Op("Q", "pi")>>)

tbl_0F == tbl_0F_low @@ tbl_0F_high

tbl_660F_low ==
       At((\h54 .. \h59) \cup (\h5C .. \h5F) \cup {\h10, \h14, \h15, \h28, \h51, \h7C, \h7D}
          , Ins(<<Op("V", "pd"), Op("W", "pd")>>))
    @@ At({\h11, \h29}, Ins(<<Op("W", "pd"), Op("V", "pd")>>))
    @@ At({\h12, \h16}, Ins(<<Op("V", "q"), Op("M", "q")>>))
    @@ \h13 :> Ins(<<Op("M", "q"), Op("V", "q")>>)
    @@ \h17 :> Ins(<<Op("M", "q"), Op("V", "pd")>>)
    @@ \h2A :> Ins(<<Op("V", "pd"), Op("Q", "q")>>)
    @@ \h2B :> Ins(<<Op("M", "pd"), Op("V", "pd")>>)
    @@ At({\h2C, \h2D}, Ins(<<Op("P", "q"), Op("W", "pd")>>))
    @@ At({\h2E, \h2F}, Ins(<<Op("V", "sd"), Op("W", "sd")>>))
    @@ \h50 :> Ins(<<Op("G", "d"), Op("W", "pd")>>)
    @@ \h5A :> Ins(<<Op("V", "ps"), Op("W", "pd")>>)
    @@ \h5B :> Ins(<<Op("V", "dq"), Op("W", "ps")>>)
    @@ At((\h60 .. \h6D) \cup {\h6F, \h74, \h75, \h76}, Ins(<<Op("V", "dq"), Op("W", "dq")>>))
    @@ \h6E :> Ins(<<Op("V", "d"), Op("E", "d")>>)
    @@ \h70 :> Ins(<<Op("V", "dq"), Op("W", "dq"), Op("I", "b")>>)
    @@ Escapes(\h71, <<"660F71", "660F72", "660F73">>)
    @@ \h7E :> Ins(<<Op("E", "d"), Op("V", "d")>>)
    @@ \h7F :> Ins(<<Op("W", "dq"), Op("V", "dq")>>)

tbl_660F_high ==
       At({\hC2, \hC6}, Ins(<<Op("V", "pd"), Op("W", "pd"), Op("I", "b")>>))
    @@ \hC4 :> Ins(<<Op("V", "w"), Op("E", "d"), Op("I", "b")>>)
    @@ \hC5 :> Ins(<<Op("G", "d"), Op("W", "w"), Op("I", "b")>>)
    @@ \hD0 :> Ins(<<Op("V", "pd"), Op("W", "pd")>>)
    @@ At((\hD1 .. \hD5) \cup (\hD8 .. \hE5) \cup (\hE8 .. \hEF) \cup (\hF1 .. \hFE)
          , Ins(<<Op("V", "dq"), Op("W", "dq")>>))
    @@ \hD6 :> Ins(<<Op("W", "q"), Op("V", "q")>>)
    @@ \hD7 :> Ins(<<Op("G", "d"), Op("W", "dq")>>)
    @@ \hE6 :> Ins(<<Op("V", "dq"), Op("W", "pd")>>)
    @@ \hE7 :> Ins(<<Op("M", "dq"), Op("V", "dq")>>)

tbl_660F == tbl_660F_low @@ tbl_660F_high

tbl_F20F_low ==
       At((\h5C .. \h5F) \cup {\h10, \h51, \h58, \h59}, Ins(<<Op("V", "sd"), Op("W", "sd")>>))
    @@ \h11 :> Ins(<<Op("W", "sd"), Op("V", "sd")>>)
    @@ \h12 :> Ins(<<Op("V", "q"), Op("W", "q")>>)
    @@ \h2A :> Ins(<<Op("V", "sd"), Op("E", "d")>>)
    @@ At({\h2C, \h2D}, Ins(<<Op("G", "d"), Op("W", "sd")>>))
    @@ \h5A :> Ins(<<Op("V", "ss"), Op("W", "sd")>>)
    @@ \h70 :> Ins(<<Op("V", "dq"), Op("W", "dq"), Op("I", "b")>>)
    @@ At({\h7C, \h7D}, Ins(<<Op("V", "ps"), Op("W", "ps")>>))

tbl_F20F_high ==
       \hC2 :> Ins(<<Op("V", "sd"), Op("W", "sd"), Op("I", "b")>>)
    @@ \hD0 :> Ins(<<Op("V", "ps"), Op("W", "ps")>>)
    @@ \hD6 :> Ins(<<Op("P", "q"), Op("W", "q")>>)
    @@ \hE6 :> Ins(<<Op("V", "dq"), Op("W", "pd")>>)
    @@ \hF0 :> Ins(<<Op("V", "dq"), Op("M", "dq")>>)

tbl_F20F == tbl_F20F_low @@ tbl_F20F_high

tbl_F30F_low ==
       At((\h5C .. \h5F) \cup {\h10, \h51, \h52, \h53, \h58, \h59}
          , Ins(<<Op("V", "ss"), Op("W", "ss")>>))
    @@ \h11 :> Ins(<<Op("W", "ss"), Op("V", "ss")>>)
    @@ At({\h12, \h16}, Ins(<<Op("V", "ps"), Op("W", "ps")>>))
    @@ \h2A :> Ins(<<Op("V", "ss"), Op("E", "d")>>)
    @@ At({\h2C, \h2D}, Ins(<<Op("G", "d"), Op("W", "ss")>>))
    @@ \h5A :> Ins(<<Op("V", "sd"), Op("W", "ss")>>)
    @@ \h5B :> Ins(<<Op("V", "dq"), Op("W", "ps")>>)
    @@ \h6F :> Ins(<<Op("V", "dq"), Op("W", "dq")>>)
    @@ \h70 :> Ins(<<Op("V", "dq"), Op("W", "dq"), Op("I", "b")>>)
    @@ \h7E :> Ins(<<Op("V", "q"), Op("W", "q")>>)
    @@ \h7F :> Ins(<<Op("W", "dq"), Op("V", "dq")>>)

tbl_F30F_high ==
       \hC2 :> Ins(<<Op("V", "ss"), Op("W", "ss"), Op("I", "b")>>)
    @@ \hD6 :> Ins(<<Op("V", "dq"), Op("Q", "q")>>)
    @@ \hE6 :> Ins(<<Op("V", "pd"), Op("W", "q")>>)

tbl_F30F == tbl_F30F_low @@ tbl_F30F_high

tbl_0F00 ==
       \h00 :> Using(46, Ins(<<Op("E", "w")>>))
    @@ \h01 :> Using(49, Ins(<<Op("E", "w")>>))
    @@ \h02 :> Using(29, Ins(<<Op("E", "w")>>))
    @@ \h03 :> Using(32, Ins(<<Op("E", "w")>>))
    @@ At({\h04, \h05}, Ins(<<Op("E", "w")>>))

tbl_0F01 ==
       At({\h00, \h08, \h10}, Using(44, Ins(<<Op("M", "s")>>)))
    @@ At({\h01, \h09, \h11}, Using(45, Ins(<<Op("M", "s")>>)))
    @@ At({\h02, \h0A, \h12}, Using(27, Ins(<<Op("M", "s")>>)))
    @@ At({\h03, \h0B, \h13}, Using(28, Ins(<<Op("M", "s")>>)))
    @@ At({\h04 + 8 * i : i \in 0 .. 3}, Using(47, Ins(<<Op("E", "w")>>)))
    @@ At({\h06 + 8 * i : i \in 0 .. 3}, Using(30, Ins(<<Op("E", "w")>>)))
    @@ At({\h07, \h0F, \h17}, Ins(<<Op("M", "none")>>))
    @@ \h19 :> Escape("0F0111")

tbl_0F0111 ==
       \h00 :> Using(54, Ins(<<>>))
    @@ \h01 :> Using(55, Ins(<<>>))

tbl_0F12 ==
       At(\h00 .. \h02, Ins(<<Op("V", "q"), Op("M", "q")>>))
    @@ \h03 :> Ins(<<Op("V", "ps"), Op("W", "ps")>>)

tbl_0F16 ==
       At(\h00 .. \h02, Ins(<<Op("V", "q"), Op("M", "q")>>))
    @@ \h03 :> Ins(<<Op("V", "ps"), Op("W", "ps")>>)

tbl_0F18 ==
       At({\h00, \h08, \h10}, Ins(<<Op("M", "b")>>))
    @@ At({\h01, \h09, \h11}, Ins(<<Fix("RT", "d", 0)>>))
    @@ At({\h02, \h0A, \h12}, Ins(<<Fix("RT", "d", 1)>>))
    @@ At({\h03, \h0B, \h13}, Ins(<<Fix("RT", "d", 2)>>))

tbl_0F71 == At({\h1A, \h1C, \h1E}, Ins(<<Op("P", "q"), Op("I", "b")>>))

tbl_660F71 == At({\h1A, \h1C, \h1E}, Ins(<<Op("P", "dq"), Op("I", "b")>>))

tbl_0F72 == At({\h1A, \h1C, \h1E}, Ins(<<Op("P", "q"), Op("I", "b")>>))

tbl_660F72 == At({\h1A, \h1C, \h1E}, Ins(<<Op("W", "dq"), Op("I", "b")>>))

tbl_0F73 == At({\h1A, \h1E}, Ins(<<Op("P", "q"), Op("I", "b")>>))

tbl_660F73 == At({\h1A, \h1B, \h1E, \h1F}, Ins(<<Op("W", "dq"), Op("I", "b")>>))

tbl_0FAE ==
       At({\h00, \h01, \h08, \h09, \h10, \h11}, Ins(<<Op("E", "fx")>>))
    @@ At({\h02, \h0A, \h12}, Using(25, Ins(<<Op("E", "d")>>)))
    @@ At({\h03, \h0B, \h13}, Using(48, Ins(<<Op("E", "d")>>)))
    @@ At({\h07, \h0F, \h17}, Ins(<<Op("M", "b")>>))
    @@ At(\h1D .. \h1F, Ins(<<>>))

tbl_0FBA == At(\h04 .. \h07, Ins(<<Op("E", "v"), Op("I", "b")>>))

tbl_0FC7 == At({\h01, \h09, \h11}, Using(9, Ins(<<Op("M", "q")>>)))

tbl_0FB9 == \h00 :> Ins(<<>>)

tbl_C6 == \h00 :> Ins(<<Op("E", "b"), Op("I", "b")>>)

tbl_C7 == \h00 :> Ins(<<Op("E", "v"), Op("I", "v")>>)

tbl_80 == At(\h00 .. \h07, Ins(<<Op("E", "b"), Op("I", "b")>>))

tbl_81 == At(\h00 .. \h07, Ins(<<Op("E", "v"), Op("I", "v")>>))

tbl_82 == At(\h00 .. \h07, Ins(<<Op("E", "b"), Op("I", "b")>>))

tbl_83 == At(\h00 .. \h07, Ins(<<Op("E", "v"), Op("I", "b")>>))

tbl_C0 == At(\h00 .. \h07, Ins(<<Op("E", "b"), Op("I", "b")>>))

tbl_C1 == At(\h00 .. \h07, Ins(<<Op("E", "v"), Op("I", "b")>>))

tbl_D0 == At(\h00 .. \h07, Ins(<<Op("E", "b"), Fix("II", "b", 1)>>))

tbl_D1 == At(\h00 .. \h07, Ins(<<Op("E", "v"), Fix("II", "v", 1)>>))

tbl_D2 == At(\h00 .. \h07, Ins(<<Op("E", "b"), Fix("RR", "b", 1)>>))

tbl_D3 == At(\h00 .. \h07, Ins(<<Op("E", "v"), Fix("RR", "b", 1)>>))

tbl_F6 ==
       At({\h00, \h01}, Ins(<<Op("E", "b"), Op("I", "b")>>))
    @@ At({\h02, \h03}, Ins(<<Op("E", "b")>>))
    @@ At({\h04, \h05}, Using(22, Ins(<<Fix("RR", "b", 0), Op("E", "b")>>)))
    @@ At({\h06, \h07}, Using(13, Ins(<<Fix("RR", "b", 0), Op("E", "b")>>)))

tbl_F7 ==
       At({\h00, \h01}, Ins(<<Op("E", "v"), Op("I", "v")>>))
    @@ At({\h02, \h03}, Ins(<<Op("E", "v")>>))
    @@ At({\h04, \h05}, Using(23, Ins(<<Fix("RR", "v", 0), Op("E", "v")>>)))
    @@ At({\h06, \h07}, Using(14, Ins(<<Fix("RR", "v", 0), Op("E", "v")>>)))

tbl_FE == At({\h00, \h01}, Ins(<<Op("E", "b")>>))

tbl_FF ==
       At({\h00, \h01}, Ins(<<Op("E", "v")>>))
    @@ \h02 :> As("call", Using(3, Ins(<<Exe("E", "v")>>)))
    @@ \h03 :> As("call", Ins(<<Exe("M", "p")>>))
    @@ \h04 :> As("jmp", Ins(<<Exe("E", "v")>>))
    @@ \h05 :> As("jmp", Ins(<<Exe("M", "p")>>))
    @@ \h06 :> As("push", Using(33, Ins(<<Op("E", "v")>>)))

tbl_D8 ==
       At((\h03 .. \h07) \cup {\h00, \h01}, Ins(<<Op("M", "fs")>>))
    @@ \h02 :> Using(17, Ins(<<Op("M", "fs")>>))

tbl_D8C0 ==
       [b \in (\hC0 .. \hCF) \cup (\hD8 .. \hFF)
           |-> Ins(<<Fix("RF", "fp", 0), Fix("RF", "fp", b % 8)>>)]
    @@ [b \in \hD0 .. \hD7 |-> Using(17, Ins(<<Fix("RF", "fp", 0), Fix("RF", "fp", b % 8)>>))]

tbl_D9 ==
       At({\h00, \h02, \h03}, Ins(<<Op("M", "fs")>>))
    @@ At({\h04, \h06}, Ins(<<Op("M", "fv")>>))
    @@ At({\h05, \h07}, Ins(<<Op("M", "w")>>))

tbl_D9C0 ==
       [b \in \hC0 .. \hCF |-> Ins(<<Fix("RF", "fp", 0), Fix("RF", "fp", b % 8)>>)]
    @@ At((\hE8 .. \hEE) \cup (\hF4 .. \hF7) \cup (\hF9 .. \hFF)
            \cup {\hD0, \hE0, \hE1, \hE4, \hE5, \hF1, \hF2}
          , Ins(<<>>))
    @@ \hF0 :> Using(16, Ins(<<>>))
    @@ \hF3 :> Using(18, Ins(<<>>))
    @@ \hF8 :> Using(19, Ins(<<>>))

tbl_DA == At(\h00 .. \h07, Ins(<<Op("M", "d")>>))

tbl_DAC0 ==
       [b \in \hC0 .. \hDF |-> Ins(<<Fix("RF", "fp", 0), Fix("RF", "fp", b % 8)>>)]
    @@ \hE9 :> Using(21, Ins(<<>>))

tbl_DB ==
       At(\h00 .. \h03, Ins(<<Op("M", "d")>>))
    @@ At({\h05, \h07}, Ins(<<Op("M", "fe")>>))

tbl_DBC0 ==
       [b \in (\hC0 .. \hDF) \cup (\hE8 .. \hF7)
           |-> Ins(<<Fix("RF", "fp", 0), Fix("RF", "fp", b % 8)>>)]
    @@ At({\hE2, \hE3}, Ins(<<>>))

tbl_DC ==
       At((\h03 .. \h07) \cup {\h00, \h01}, Ins(<<Op("M", "fd")>>))
    @@ \h02 :> Using(17, Ins(<<Op("M", "fd")>>))

tbl_DCC0 ==
       [b \in (\hC0 .. \hCF) \cup (\hE0 .. \hFF)
           |-> Ins(<<Fix("RF", "fp", b % 8), Fix("RF", "fp", 0)>>)]

tbl_DD ==
       At({\h00, \h02, \h03}, Ins(<<Op("M", "fd")>>))
    @@ \h01 :> Ins(<<Op("M", "q")>>)
    @@ At({\h04, \h06}, Ins(<<Op("M", "ft")>>))
    @@ \h07 :> Ins(<<Op("M", "w")>>)

tbl_DDC0 ==
       [b \in (\hC0 .. \hC7) \cup (\hD0 .. \hDF) |-> Ins(<<Fix("RF", "fp", b % 8)>>)]
    @@ [b \in \hE0 .. \hEF |-> Ins(<<Fix("RF", "fp", b % 8), Fix("RF", "fp", 0)>>)]

tbl_DE == At(\h00 .. \h07, Ins(<<Op("M", "w")>>))

tbl_DEC0 ==
       [b \in \hC0 .. \hC7 |-> Using(20, Ins(<<Fix("RF", "fp", b % 8), Fix("RF", "fp", 0)>>))]
    @@ [b \in (\hC8 .. \hCF) \cup (\hE0 .. \hFF)
           |-> Ins(<<Fix("RF", "fp", b % 8), Fix("RF", "fp", 0)>>)]
    @@ \hD9 :> Ins(<<>>)

tbl_DF ==
       At(\h00 .. \h03, Ins(<<Op("M", "w")>>))
    @@ At({\h04, \h06}, Ins(<<Op("M", "fb")>>))
    @@ At({\h05, \h07}, Ins(<<Op("M", "q")>>))

tbl_DFC0 ==
       \hE0 :> Ins(<<Fix("RR", "w", 0)>>)
    @@ [b \in \hE8 .. \hF7 |-> Ins(<<Fix("RF", "fp", 0), Fix("RF", "fp", b % 8)>>)]

tbl_0F0F_low == At({\h0D, \h1D}, Ins(<<Op("P", "pi"), Op("Q", "q")>>))

tbl_0F0F_high ==
       At({\h90, \h94, \h96, \h97, \h9A, \h9E, \hA0, \hA4, \hA6, \hA7, \hAA, \hAE, \hB0,
            \hB4, \hB6, \hB7, \hBF}
          , Ins(<<Op("P", "pi"), Op("Q", "q")>>))

tbl_0F0F == tbl_0F0F_low @@ tbl_0F0F_high

-----------------------------------------------------------------------------
(* The table of tables.  A byte is shifted (divided by a power of two) and *)
(* masked; what lies outside the limits is no instruction.  Where a table  *)
(* begins at its lower limit the rows above are numbered by the byte.      *)

Desc(rows, type, shift, mask, minlim, maxlim) ==
    [rows |-> rows, type |-> type, shift |-> shift, mask |-> mask,
     minlim |-> minlim, maxlim |-> maxlim]

ia32_tables ==
       "Main" :> Desc(tbl_Main, "opcode", 1, \hFF, \h00, \hFF)
    @@ "66" :> Desc(tbl_66, "prefix", 1, \hFF, \h0F, \h0F)
    @@ "F2" :> Desc(tbl_F2, "prefix", 1, \hFF, \h0F, \h0F)
    @@ "F3" :> Desc(tbl_F3, "prefix", 1, \hFF, \h0F, \h90)
    @@ "0F" :> Desc(tbl_0F, "opcode", 1, \hFF, \h00, \hFF)
    @@ "660F" :> Desc(tbl_660F, "prefix", 1, \hFF, \h10, \hFF)
    @@ "F20F" :> Desc(tbl_F20F, "prefix", 1, \hFF, \h10, \hFF)
    @@ "F30F" :> Desc(tbl_F30F, "prefix", 1, \hFF, \h10, \hFF)
    @@ "0F00" :> Desc(tbl_0F00, "extension", 8, \h07, \h00, \h07)
    @@ "0F01" :> Desc(tbl_0F01, "extension", 8, \h1F, \h00, \h1F)
    @@ "0F0111" :> Desc(tbl_0F0111, "ext_ext", 1, \h01, \h00, \h01)
    @@ "0F12" :> Desc(tbl_0F12, "extension", 64, \h03, \h00, \h03)
    @@ "0F16" :> Desc(tbl_0F16, "extension", 64, \h03, \h00, \h03)
    @@ "0F18" :> Desc(tbl_0F18, "extension", 8, \h1F, \h00, \h13)
    @@ "0F71" :> Desc(tbl_0F71, "extension", 8, \h1F, \h00, \h1F)
    @@ "660F71" :> Desc(tbl_660F71, "extension", 8, \h1F, \h00, \h1F)
    @@ "0F72" :> Desc(tbl_0F72, "extension", 8, \h1F, \h00, \h1F)
    @@ "660F72" :> Desc(tbl_660F72, "extension", 8, \h1F, \h00, \h1F)
    @@ "0F73" :> Desc(tbl_0F73, "extension", 1, \h00, \h00, \h00)
    @@ "660F73" :> Desc(tbl_660F73, "extension", 8, \h1F, \h00, \h1F)
    @@ "0FAE" :> Desc(tbl_0FAE, "extension", 8, \h1F, \h00, \h1F)
    @@ "0FBA" :> Desc(tbl_0FBA, "extension", 8, \h07, \h04, \h07)
    @@ "0FC7" :> Desc(tbl_0FC7, "extension", 8, \h1F, \h00, \h11)
    @@ "0FB9" :> Desc(tbl_0FB9, "extension", 8, \h07, \h00, \h00)
    @@ "C6" :> Desc(tbl_C6, "extension", 8, \h07, \h00, \h00)
    @@ "C7" :> Desc(tbl_C7, "extension", 8, \h07, \h00, \h00)
    @@ "80" :> Desc(tbl_80, "extension", 8, \h07, \h00, \h07)
    @@ "81" :> Desc(tbl_81, "extension", 8, \h07, \h00, \h07)
    @@ "82" :> Desc(tbl_82, "extension", 8, \h07, \h00, \h07)
    @@ "83" :> Desc(tbl_83, "extension", 8, \h07, \h00, \h07)
    @@ "C0" :> Desc(tbl_C0, "extension", 8, \h07, \h00, \h07)
    @@ "C1" :> Desc(tbl_C1, "extension", 8, \h07, \h00, \h07)
    @@ "D0" :> Desc(tbl_D0, "extension", 8, \h07, \h00, \h07)
    @@ "D1" :> Desc(tbl_D1, "extension", 8, \h07, \h00, \h07)
    @@ "D2" :> Desc(tbl_D2, "extension", 8, \h07, \h00, \h07)
    @@ "D3" :> Desc(tbl_D3, "extension", 8, \h07, \h00, \h07)
    @@ "F6" :> Desc(tbl_F6, "extension", 8, \h07, \h00, \h07)
    @@ "F7" :> Desc(tbl_F7, "extension", 8, \h07, \h00, \h07)
    @@ "FE" :> Desc(tbl_FE, "extension", 8, \h07, \h00, \h01)
    @@ "FF" :> Desc(tbl_FF, "extension", 8, \h07, \h00, \h06)
    @@ "D8" :> Desc(tbl_D8, "fpu", 8, \h07, \h00, \hBF)
    @@ "D8C0" :> Desc(tbl_D8C0, "fpu_ext", 1, \hFF, \hC0, \hFF)
    @@ "D9" :> Desc(tbl_D9, "fpu", 8, \h07, \h00, \hBF)
    @@ "D9C0" :> Desc(tbl_D9C0, "fpu_ext", 1, \hFF, \hC0, \hFF)
    @@ "DA" :> Desc(tbl_DA, "fpu", 8, \h07, \h00, \hBF)
    @@ "DAC0" :> Desc(tbl_DAC0, "fpu_ext", 1, \hFF, \hC0, \hFF)
    @@ "DB" :> Desc(tbl_DB, "fpu", 8, \h07, \h00, \hBF)
    @@ "DBC0" :> Desc(tbl_DBC0, "fpu_ext", 1, \hFF, \hC0, \hFF)
    @@ "DC" :> Desc(tbl_DC, "fpu", 8, \h07, \h00, \hBF)
    @@ "DCC0" :> Desc(tbl_DCC0, "fpu_ext", 1, \hFF, \hC0, \hFF)
    @@ "DD" :> Desc(tbl_DD, "fpu", 8, \h07, \h00, \hBF)
    @@ "DDC0" :> Desc(tbl_DDC0, "fpu_ext", 1, \hFF, \hC0, \hFF)
    @@ "DE" :> Desc(tbl_DE, "fpu", 8, \h07, \h00, \hBF)
    @@ "DEC0" :> Desc(tbl_DEC0, "fpu_ext", 1, \hFF, \hC0, \hFF)
    @@ "DF" :> Desc(tbl_DF, "fpu", 8, \h07, \h00, \hBF)
    @@ "DFC0" :> Desc(tbl_DFC0, "fpu_ext", 1, \hFF, \hC0, \hFF)
    @@ "0F0F" :> Desc(tbl_0F0F, "suffix", 1, \hFF, \h00, \hBF)

\* The table behind that of a coprocessor's opcode.
FpuExtension == [D8 |-> "D8C0", D9 |-> "D9C0", DA |-> "DAC0", DB |-> "DBC0",
                 DC |-> "DCC0", DD |-> "DDC0", DE |-> "DEC0", DF |-> "DFC0"]

\* The row of an index within the limits of a table.
TableRow(desc, index) == IF index \in DOMAIN desc.rows THEN desc.rows[index] ELSE Invalid
=============================================================================
