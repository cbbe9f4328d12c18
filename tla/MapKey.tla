------------------------------- MODULE MapKey -------------------------------
(***************************************************************************)
(* zero_ext_mapkey of src/patches/mapkey.c, which replaces wp's mapkey: a  *)
(* key's code of 16 bits to WordPerfect's character, or 0 for an error.    *)
(* The tables and the functions that search them are wp's.                 *)
(***************************************************************************)
EXTENDS Integers

CONSTANTS Findwp,     \* findwp: from the bytes that have a character to it
          Special,    \* lkspc: per table, from the codes that are in it
          Extended    \* lukupes: per table, from bytes to [found, value]

\* findwp has no byte for the character 0.
ASSUME MapKeyAssumption ==
    /\ \A byte \in DOMAIN Findwp : Findwp[byte] \in Nat \ {0}
    /\ \A table \in {"np_tab", "cc_tab", "e0_tab"} :
          \A code \in DOMAIN Special[table] : Special[table][code] \in Nat
    /\ \A table \in {"ch_tab", "ex_tab"} :
          \A byte \in DOMAIN Extended[table] :
             Extended[table][byte] \in [found : BOOLEAN, value : Nat]

KEY_SETNUM == 15
RESET == 7 * 256 + 30        \* 0x71E

\* union KEYCODE
KeyChar(code) == code % 256
KeyType(code) == code \div 4096
KeyWpc(code)  == code % 4096
Swapped(code) == KeyChar(code) * 256 + code \div 256
OneByte(code) == code < 256

\* What wp keeps: lastkey, whether scnbuf and kybdnam are 0, and what it gets.
Keeps(kb, wpc)  == [kb EXCEPT !.wpc = wpc]
Clears(kb, wpc) == [kb EXCEPT !.wpc = wpc, !.scnbuf = 0]
Returns(kb, wpc) == IF wpc = 0 THEN Clears(kb, wpc) ELSE Keeps(kb, wpc)

findwp(code, kb, error) ==
    IF KeyChar(code) \in DOMAIN Findwp THEN Keeps(kb, Findwp[KeyChar(code)]) ELSE error

\* The entry of a byte; without one the value that is passed in stays.
lukupes(code, table, value) ==
    IF KeyChar(code) \in DOMAIN Extended[table] THEN Extended[table][KeyChar(code)]
                                                ELSE [found |-> FALSE, value |-> value]

PlainKey(code, kb) ==
    LET last == [kb EXCEPT !.lastkey = code] IN findwp(code, last, Keeps(last, 0))

ResetKeyboard(kb) == Clears([kb EXCEPT !.kybdnam = 0], 0)

\* A code that is in no special table, or is not looked for in one.
ExtendedKey(code, kb) ==
    LET entry == lukupes(code, "ch_tab", 0)
        last  == [kb EXCEPT !.lastkey = KeyChar(code)]
    IN  IF entry.found THEN Returns(kb, entry.value)
        ELSE IF code = RESET THEN ResetKeyboard(kb)
        ELSE findwp(code, last, Clears(last, 0))

SpecialKey(code, kb) ==
    LET c     == KeyChar(code)
        table == Special[IF c > 31 THEN "np_tab" ELSE "cc_tab"]
    IN  IF c > 47 \/ c = 32 \/ code \notin DOMAIN table THEN ExtendedKey(code, kb)
        ELSE Returns(kb, table[code])

\* The bytes are swapped, so that what is looked up is the upper one.
FunctionKey(code, kb) ==
    LET entry == lukupes(Swapped(code), "ex_tab", Swapped(code))
    IN  IF entry.value = 3 \/ (entry.found /\ entry.value # 0) THEN Keeps(kb, entry.value)
        ELSE Clears(kb, 0)

\* wp's own: the zeroth character of a set is taken for a function key.  (Also
\* the mutant of the next.)
MapKeyOfWp(code, kb) ==
    IF KeyChar(code) = 0 THEN FunctionKey(code, kb)
    ELSE IF KeyType(code) = KEY_SETNUM THEN Keeps(kb, KeyWpc(code))
    ELSE SpecialKey(code, kb)

MapKey(code, kb) ==
    IF KeyChar(code) = 0 /\ KeyType(code) # KEY_SETNUM THEN FunctionKey(code, kb)
    ELSE IF OneByte(code) THEN PlainKey(code, kb)
    ELSE IF KeyChar(code) # 224
         THEN IF KeyType(code) = KEY_SETNUM THEN Keeps(kb, KeyWpc(code)) ELSE SpecialKey(code, kb)
    ELSE IF code \in DOMAIN Special["e0_tab"] THEN Returns(kb, Special["e0_tab"][code])
    ELSE FunctionKey(code, kb)

=============================================================================
