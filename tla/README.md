# wpunix in TLA+

wpunix makes the Unix release of WordPerfect 8, a closed 32-bit ELF program
linked against libc5, run on a current Linux. It does so from the outside:
an object linked into `wp` patches the running image, replaces system-call
wrappers whose structures have grown, and installs a signal handler; beside it
stand tools that compile macros, build printer definitions from font metrics and
edit settings files. This directory models that code in TLA+, checks the models
with TLC on small instances and proves the central ones with TLAPS for all.

Contents: [Inventory](#inventory), [Modules](#modules), [Runs](#runs),
[Fairness](#fairness), [Proofs](#proofs), [What disagrees](#what-disagrees),
[Plan](#plan), [Not modelled](#not-modelled).

## Inventory

### In the process of wp

**Function redirection** (`src/intercept/hook.c`, `hook.h`).
State: the code segment of wp; one fixup on the heap per redirect (a branch to
the callback, the code that was clobbered, a branch back); page permissions.
Operations: `insert_function_redirect`, `remove_function_redirect`,
`redirect_call_within_function`. There is no registry of redirects: what is
hooked is read back from the patched bytes, so each operation relies on what all
earlier ones wrote. Hard: sequences of operations on one function (redirects
stack), on neighbouring functions, and on calls inside redirected heads; the
failure of `calloc` or, half way, of `mprotect`; pages, of the image and of the heap. Correct means: a patched function runs its
callback and (by default) itself; removing all redirects gives back the code that
was loaded; no fixup is shared, used after it is freed, or freed twice.

**Disassembler** (`src/intercept/libdisasm`). Tells `hook.c` the length and class
of instructions, and the target of calls. State: the options of `x86_init`; otherwise a
function of the bytes. Operations: `x86_disasm`, the questions about an instruction
(`x86_get_branch_target`, `x86_get_rel_offset`, `x86_get_raw_imm`, `x86_operand_size`),
and two drivers with callbacks, `x86_disasm_range` and the recursive
`x86_disasm_forward`. Hard: a thousand rows of tables, prefixes that change sizes,
instructions cut off by the window they are seen through, loops in the code that is
followed. Correct means: an instruction is as long as the processor has it; a driver
goes everywhere, once, and ends.

**Startup, resizing, delays, mouse** (`src/patch.c`, `src/wp8.sh`).
State: the size wp believes in and has drawn, the pending signal, the time left of
a sleep, `errno`, the coordinates of the mouse. Operations: the launcher's two questions
for the size, which the variables `COLUMNS` and `LINES` answer before the terminal does; `_init`, the SIGWINCH
handler `win_resize_event`, `delay_millis` (it replaces wp's busy-waiting `dodelay`),
`xy_xterm_mouse`. `_init` is a client of the redirection engine, which may refuse either
insertion. Hard: the handler runs between any two instructions of the rest, also between
`nanosleep`'s return and the test of `errno`, or between two bytes of a click; signals
coalesce; what the launcher was told may be old before the handler is there. Correct means:
after a resize that was signalled wp has the right size; a delay takes the time that was asked for, and ends; a click is where it was.

**Key mapping** (`src/patches/mapkey.c`). State: wp's `lastkey`, `scnbuf`,
`kybdnam` and its tables. One operation, `zero_ext_mapkey`, which replaces wp's
`mapkey` through a redirect. Correct means: each entry of an extended character set can be
entered by its number, the zeroth too; a code that maps to nothing leaves nothing
behind in the scan buffer.

**Compatibility calls** (`src/compat.c`, `src/include/*compat*.h`).
State: libc5's directory stream (buffer, offsets, sizes) and the kernel's
position. Operations: `readdir`, `translate_getdents`, the wrappers of `stat`,
`geteuid`/`getuid`, `times`. Hard: the directory changes while it is listed;
records change their size in translation while offsets refer to the translated
ones; names of up to 255 bytes. Correct means: each name that stays is returned
once; the buffer is never overrun; the listing ends, and only at the end.

### Tools

**Macro compiler** (`src/macro/mactool.c`, `decompile.c`, `charset.c`,
`commands.h`). A loop over the characters of a text with three variables of state
(`inquote`, `lastc`, the file's position), and its inverse. Hard: the two must
agree, and comments, names, quotation marks and stripped spaces are recognised in
one loop. Correct means: decompiling and compiling gives the same macro.

**Printer tables** (`src/fonts`: `kerning.c`, `spacing.c`, `mapfile.c`,
`typeface.c`, `charmap.c`, `gseval.c`, `util.c`). Each writes one table of a font in
one or more passes. Hard: headers with counts that later passes must match, value
widths, sorted order. **AFM translation** (`afm2add.c`, `addall.c`, `addall.sh`)
reads the character map, runs them one after the other and merges the results with a
master file; each step may fail and leave the files of the steps before. **AFM parser**
(`parseafm.c`) and **ini parser** (`ini.c`, for `charmap.ini`) feed them; both are
third-party code.

**Settings editor** (`src/util/grsutil.c`). Looks for a driver by its name, or lists
them, and reads and writes the driver's fields in place
through one buffered stream; it can give up at any field. Correct means: only
chosen fields of the right size change, and what is shown is what is written.
**Character dump** (`src/util/charset.c`) prints constant tables.

**Build, packaging, debugging aids, data**: scripts and data files.

## Modules

| Module | Models | State and actions |
|---|---|---|
| `Hook` | `hook.c` | `text`, `heap`, `writable`, `executable`, `fault`; `Insert`, `InsertWithoutMemory`, `InsertFailsOnFixup`, `InsertFailsOnCallsite`, `Remove`, `RedirectCall` |
| `HookAbs` | what `hook.h` and the comments of `hook.c` promise | a chain of redirects per function, a callee per call; `Intercept`, `Restore`, `Retarget` |
| `HookRun` | the patched code as the processor runs it; the refinement mapping from `Hook` to `HookAbs` | operators `Stack`, `Chain`, `Callee`; `ExecText`, `ExecFixup`, `Run` |
| `HookProofs` | the inductive invariant `HookInv`, its proof and what follows for the image and its pages; the refinement; the execution of the image | |
| `Patch` | the handler and the delays of `patch.c`, `wp8.sh` | the terminal, the environment, the two questions of `wp8.sh` (`AskColumns`, `AskLines`), the pending bit, the stages of the handler, the sleep, `errno`; one action per step between which a signal can be delivered |
| `MapKey` | `zero_ext_mapkey` | wp's keyboard as a record; one operator per branch of the mapping |
| `Session`, `SessionProofs` | `patch.c` as a whole: extends `Patch` and `MapKey` with `_init`, the input and `xy_xterm_mouse` | which redirects are in place, the input, the byte the callback is at; `_init`, `Use`, `Key`, `MouseEvent`, `Button`, `Column`, `Row` and the steps of `Patch` |
| `Opcodes` | `ia32_opcode_tables.c` | the tables as functions from bytes to rows, with the encoding and type of each operand |
| `Decoder` | `ia32_insn.c`, `ia32_operand.c`, `ia32_modrm.c`, `ia32_implicit.c`, `ia32_reg.c`, `x86_disasm.c`, `x86_imm.c`, and of `x86_insn.c` and `x86_operand_list.c` the questions hook.c and the drivers ask | operators: `x86_disasm` from bytes to an instruction |
| `Window` | a client that widens its window byte by byte | the bytes, the options, the instruction; `Widen` |
| `Disasm`, `DisasmProofs` | `x86_disasm_range`, `x86_disasm_forward` | the stack of nested calls, what was decoded, reported and answered; one action per half turn of a loop, call and return |
| `DirAbs` | what `readdir` promises | the directory, the names it must and may return, the last result |
| `Readdir`, `ReaddirProofs` | `readdir`, `translate_getdents` | the stream by its field names, the kernel's position, a directory others change |
| `MacTool`, `MacToolProofs` | the loop of `mactool.c`, `decompile_macro`, `finducs` | the text and the position in it; one action per branch of the loop |
| `KernTable` | `kerning.c`, `putbyte`/`putword` | pairs, the pass, the counters, the output; one action per branch of a pass |
| `Ini` | `ini.c` with the handler of `charmap.c` | the rest of the file, the section and name so far, the line numbers, the table of glyph names; one action per kind of line |
| `Afm` | `parseFile` of `parseafm.c` with the flags of `afm2add` | the entries, the section that reads them, the `FontInfo`, the count, both error codes; one action per keyword |
| `FontTables` | `charmap.c`, `spacing.c`, `mapfile.c`, `typeface.c`, `addall.c` | operators: a `FontInfo` to each table, and how a table is read by its header |
| `AddAll`, `AddAllProofs` (also about `KernTable`, `Afm` and `FontTables`) | `addall.sh`, `afm2add.c`; composes the four above | the command line, the stage, the files in the directory, the master file; reading the charmap (`Ini`), one action per file written (`KernTable`'s passes for the kerning table), the failures, the merge |
| `GrsUtil`, `GrsProofs` | `grsutil.c` | the file, the loop over drivers, the loop over fields, the stream's buffer |
| `Sums` | nothing: induction, sums over finite sets and sequences joined to one, for the proofs | |

`MC*` modules give the constants their values; each `.cfg` is one question.

### How the models abstract

*Hook.* An instruction of k bytes is one cell that says what it does and how long
it is, and k-1 "tail" cells: exactly what the engine learns from the disassembler.
Branches carry the absolute address that their displacement denotes; the fixup
restates each as a fresh branch, and a *copied* relative branch goes astray in
`HookRun`, which is why `hook.c` refuses control flow in a head that is to
run from the copy. A redirect writes a jump (5 bytes), the saved size (4) and
padding. The `assert`s and early returns of the code are the guards. A failure of
`mprotect` leaves the fixup allocated, as in the code (`leaked`). The result of `calloc` is not
checked: without memory wp dies of a store to it (`InsertWithoutMemory`, `fault = "null"`).

A fixup must be executable. `Enable` is the call of `mprotect` for it, which asks for the page of
its first byte only; `Address` says where the heap has put each block. `HeapAssumption` is what an
allocator gives: blocks that do not share a byte, and the first branch of each in one page, as
alignment makes it. The rest, of 19 to 34 bytes in all, may lie in the next page, and runs only if
another insertion has asked for that. `Runnable` says whether an instruction of a fixup can be
fetched; if not, the execution of `HookRun` ends in a crash. The mode of a page is that of the last
request for it, which is never taken back.

The contract of this cell with `x86_disasm` (the length, and whether it is control
flow) is what the run `disasm` checks of the decoder itself. Assumed of the
image (`LayoutAssumption`, `OriginalAssumption`): calls and jumps go to entry
points or out of the segment; every instruction is followed by its tail and then by
the next instruction (`LaidOut`); a function either holds a redirect before the next
function begins, or leaves its body before it. One theorem and one property need that each
function ends before the next begins (`FunctionsEnd`); `MCHook` assumes it of its image, which
TLC evaluates. Assumed of the client
(`LongEnough`): it replaces only functions long enough for a redirect.

*Patch.* The handler is three steps (ask, `win_resize`, `frewrt`); SIGWINCH is
blocked while it runs, as `sigaction` arranges, and pending is one bit.
Returning from it to a sleep makes `nanosleep` fail with `EINTR`. `wp8.sh` passes
`COLUMNS` and `LINES` where they are set (`Environments`; `Unset` is also the empty string) and asks `tput` otherwise, once for
each dimension, so that the terminal may change between the questions and behind them.
No handler is there until `_init` has run, and a resize before that raises no signal: `notice`
says of the last resize whether wp was told of it, and `Told` is what `QuietIsCurrent` and
`SizeSettles` claim of the size: if the last resize was signalled it is the terminal's (made
"sane"), whatever went wrong before; if there was none since the first question it is what the environment or `tput` said;
and if it was missed, nothing is claimed until the next. Time is
counted in the hundredths of a second `dodelay` is given. `RedrawClobbers` says whether
wp's redrawing, which is closed code, may change `errno`.

*Session, MapKey.* `_init` is one step, in which each of the two insertions
succeeds or is refused; when the one of `dodelay` is refused wp is busy for its delays,
when that of `mapkey` is, wp's own mapping is used (`MapKeyOfWp`). wp's tables and the
functions that search them (`findwp`, `lkspc`, `lukupes`) are constants; a
search that fails leaves its output argument as it was. The input is a sequence of key
codes and of the bytes of clicks: `Mouse` announces one, and the button and two
coordinates, with 33 added as xterm does, follow (`Clicks` are
positions 0 to 222, which fit). wp reads when it is neither in a delay nor interrupted;
the number of bytes told to it in `nbytes` is modelled by what it takes.

*Opcodes, Decoder.* Bytes in, an instruction out: its size, type, prefixes, operands,
their types, sizes, registers, addresses, values and the position they were read from.
Left out: mnemonics, CPU, notes, access rights, eflags. The functions are sequential and
pure, so each is an operator; the copy of the buffer into a zeroed window of
`MAX_INSTRUCTION_SIZE` bytes is `GetByte`, which is 0 beyond the end. `Window` compares
the result with `Length`, a description of the instruction set written
from the architecture and not from the tables. `SizeIsFinal` compares it with what it was
before the window grew; its one exception beside the SIB byte is `FourNulls`: with `opt_ignore_nulls`
`00 00` is an instruction while two or three bytes are seen, and none when four of them are. `Disasm` takes the decoder as the constant
`Insn`, with the one assumption that an instruction ends in the buffer; `MCDisasm`
gives it `Decoder`'s. A turn of a driver's loop is two steps since the caller's
function runs in between; the caller's resolver refuses what it has seen, which
`libdis.h` asks of it.

*Readdir.* The buffer maps byte offsets to the record that begins there. The
sizes of both formats, the 256 bytes `strncpy` always writes, the cap on `dd_max`
and the bytes a batch leaves behind from an older one are those of the code. Names
are numbered in the order of the directory, so a file system that reorders a
directory during a listing is not covered.

*MacTool.* Characters and words are symbols. What tells them apart is kept:
which word has a name, which has a character, which shares it with another and
which has none. `ReadsBack` is what makes a word survive in a text: it is not `{` or `#`, its name has no
`}`, and no other word that is found first looks the same; `RoundTrip` speaks of macros of such words. The text of a macro goes to a file or to
`stdout`, the default; the newline with which `decompile_macro` ends its listing always goes to
`stdout`, so that it becomes a part of the text there (`Printed`), and one more word when that is
compiled. A character that is none in the locale (`BadChar`) or that `finducs` does not know (`Strange`) ends the compiler. Conversions to Unicode are the function `Glyphs` and its search order.

*KernTable.* Values are wrapped to the width that is written. The order `qsort`
leaves equal pairs in is any order.

*Afm, FontTables, AddAll.* A metrics file is a sequence of entries; the arguments
of a keyword are read with it, so a file that ends within an entry (where the
parser passes a null pointer on) is out of the model, and so is one that announces no characters.
A table is the sequence of what is written, with the counts of its header, and
`WidthAt` and `PrintsAt` find a character by those counts as WordPerfect
must. The kerning table is written by the passes of `KernTable`, step by step. ADDALL is
external: it puts the tables that the operation names into the master file under the
font's full name, or fails. `Listed`, `ListedPairs` and `Says` read the metrics
file as a whole, without the parser, and are what the result is compared with. Of `charmap.ini` it is
assumed (`FontTablesAssumption`) that each line names a glyph, and that those of set 0 give one to
the printable characters only, as the file in `src/fonts` does.

*Ini.* The file is a sequence of characters, in which a run of characters that mean nothing
to the parser is one; the buffers of the line and of names are counted in the same units.
The charmap is read before the first metrics file as by each run of `afm2add`; a
`charmapline` that fails ends the program.

*GrsUtil.* glibc's stream on a file opened for update is a buffer that is flushed
when the stream next reads or is closed by `exit`, and lost by `abort`. Headers are
compared one after the other, each overwriting the one before; the number of `-f` (`atoi` stored in 16 bits, `grsutil.c:45` and `:62`) and the value of `-s` (`strtol`
stored in 16) are numbers that fit: what is left of larger ones, or of text that is no number, is out of the model; the file's fixed prefix, which
is checked once, is left out, and a file without drivers is not an instance.

## Runs

Runs that pass:

| Run | Instance | Shows |
|---|---|---|
| `hook` | 50 bytes, four functions (ordinary, call in its head, too short, thunk), two callbacks, two fixups, one within a page of the heap and one across the end of a page, three combinations of flags; heads within a page | `HookInv`, the strengthening that is proved, the four safety properties of the image and of its execution, and that `Hook` implements `HookAbs` |
| `patch` | an ordinary and a tiny terminal, `COLUMNS` and `LINES` both unset, `LINES` only, or both set to a size the terminal never has; delays of 0 and 2 ticks, three resizes at any time, also before and between the questions of `wp8.sh` and before the handler is there, with and without a terminal and each redirect; a key for every way through the mapping, clicks before, between and after keys | the last size that raised a signal wins, and does so eventually; without any, wp keeps what the launcher was told; delays are never late and return; clicks and keys are taken for what they were, whatever comes between their bytes; the mapping does what it was patched for |
| `readdir` | up to three names, five lengths that fill batches in every way and straddle the limit of 244, buffer of 512 | the buffer is not overrun, `Readdir` implements `DirAbs`, listings end |
| `mactool` | all texts of up to five characters with and without `-s`; all macros of up to four words, to a file and to `stdout` | round trip of words that need no escape, what comments and `-s` remove |
| `fonts` | one or two of nine metrics files: sound, monospaced, with entries to skip, with the full name or the file name of another, with too few and too many announced, not closed, cut off, without a name; a charmap of four sets with a gap, an empty set, a glyph with two positions and a position with two glyphs, as texts laid out in every way and broken in many; fonts of up to three of ten kerning pairs, with amounts just past and just within a signed byte; every file may fail to be created, every merge may fail | from metrics file to master file: widths, glyphs and pairs are those measured or missing, never another's; a clean parse kept everything; the kerning table can be read by its own header and is sorted; the charmap is read as it means, or an error in it is noticed; only the font just translated is merged; the script ends |
| `grsutil` | up to three fields of 0, 1, 2 and 257 bytes, sizes that match and that do not; one driver, or another before or behind it, of another name, of its name, or sharing its data; every `-d`, `-f` and `-s` | only chosen fields of the driver with that name change, an edit that is asked for and possible is made, shown is written, all or nothing |
| `disasm` | every opcode of one and two bytes, alone and behind a prefix, with the forms of ModR/M, SIB and displacement, in 32 and 16-bit mode and with `opt_ignore_nulls`, through windows of 0 to 15 bytes; ten buffers of up to eight bytes that loop, jump into themselves and out, or are not code, by both drivers, from everywhere, with every answer of a resolver | lengths are the architecture's (but for four exceptions, named), and final when the window grows (but for two); both modes agree; immediates and displacements are where callers patch them; branches name their target; ranges are tiled, flow is followed, counts are right, and both drivers end |

The bounds are small and enough for these reasons. *Hook*: every interference
between redirects is between a head and another head, a head and a call in it, or
a redirect and the one stacked on it; two fixups and adjacent functions give all
of these, and the proof of `HookInv` removes the bound for the safety part.
In the heap, a block that ends in its page and one that does not, each behind or before the other on a
function, are all a walk through fixups can meet.
*Patch*: the handler has three stages, so three resizes put one before, during
and after a run of it, or before, between and after the launcher's questions; two ticks put an interruption before and between them. Each key
of `MCKeys` takes another exit of the mapping; a click is tried as first, last and next
to another. *Readdir*: with three names a batch can hold one, two or
three, and be followed by a shorter one over its remains. *MacTool*: the loop
remembers one character and one flag. *AddAll*: the first file leaves its tables to
the second, and a third would meet no more than the second. *KernTable*: two pairs can disagree on each
header field and a third can be unknown. *Ini*: the parser remembers one section and
one name, so a row, what is before it and what continues it. *GrsUtil*: an edit, what
precedes it and what fails after it; the driver sought and one other. *Disasm*: an
architectural instruction has at most 15 bytes; the window goes two bytes past an instruction (`Ahead`), which shows `00 00`
the four bytes that `opt_ignore_nulls` looks at, the decoder's only look beyond an end; nested calls are limited to
`MaxFrames` = 4 only for the internal resolver, which may not end.

`CHECK_DEADLOCK FALSE` is set for `mactool`, `grsutil`, `disasm` and `disasm_offset`,
which end, and for `patch`, where the user has done all and wp waits. The other models
never stop: a process killed by a fault stutters in `Dead`, a finished script in `Over`.

Runs that end in a counterexample are listed under [What disagrees](#what-disagrees).

## Fairness

*Patch*: weak fairness of the loader, of delivering a pending signal, of the
handler and of the sleep: the kernel delivers what is pending, and a process that can
run does. *Session*: wp reads its input when nothing else is to be done. A delay or the handler
may come in between again and again, so that reading is enabled repeatedly and not
continuously: strong fairness of `Key \/ MouseEvent`, as of a loop that asks for
input between any two delays; the callback, which wp leaves only to the handler, gets weak
fairness. The user (resizes, keys) and wp (when it asks for a delay) owe nothing.
`SizeSettles` holds because resizes are finite in the model, as they are whenever the user
stops. *Readdir*: the program that lists calls `readdir` again until it
returns NULL; the other programs and the disk owe nothing. *AddAll*: weak fairness of the
whole: the script is one sequential process, and the programs it starts return; for the
lines of the charmap and for the steps of *Disasm* it is written out as
`<>[]enabled => []<><<Action>>_vars`, which spares TLC from evaluating `ENABLED` of a
parser. The drivers are sequential code in their caller's thread.
The other modules state only safety.

## Proofs

All proofs are checked by `tlapm` with no assumption but the named ones on
constants.

| Theorem | Says |
|---|---|
| `HookInvariant` | `Spec => []HookInv`, for any segment, functions, callbacks and heap |
| `HookTypes`, `HeadsRestored`, `FixupsFreedOnce` | `TypeOK`, `UnhookedIsOriginal` and `NoUseAfterFree`, which are parts of it |
| `HeadsInPageAreWritable` | `PatchNeverFaults`, if no head crosses a page |
| `HookImplementsAbs` | `Spec => AbsSpec`: `Hook` implements `HookAbs` |
| `RedirectsRun` | `CallRunsRedirect`, for any segment and any number of redirects on each other: without condition where the callback replaces the function, and else if its fixup lies in executable pages (`AllRunnable`) |
| `NeighboursRun` | `UnhookedRunsOriginal`, if each function ends before the next begins |
| `PatchTypes` | `[]TypeOK` of `Patch` |
| `SizeIsCurrent` | `QuietIsCurrent` for any sizes, any environment and any number of resizes at any time |
| `DelaysAreNeverLate` | `DelayNeverLate`, whatever happens to `errno` |
| `SessionImplementsPatch` | `SessionSpec => Spec`: the whole of `patch.c`, its input included, is a behaviour of `Patch` |
| `SizeIsCurrentInSession`, `DelaysAreNeverLateInSession` | so the two theorems above hold of it |
| `KeysMapped` | `[]KeysAreMapped` for any tables and any keys |
| `InputIsTakenAsSent` | `[]TakenAsSent`, for any keys and clicks in any number |
| `StreamIsSound`, `NothingPastTheBuffer` | `[]ReadInv`, `[]BufferHolds` of `Readdir`, for any names and buffers |
| `ReaddirImplementsDirAbs` | `Spec => AbsSpec`: `Readdir` implements `DirAbs` |
| `RangeIsTiled`, `CountIsRight`, `FlowIsCovered` | `RangeTiles`, `ReturnsCount` and `FlowCovered` for every decoder whose instructions end in the buffer, every buffer and every resolver |
| `OnlyTheChosenChange`, `ShownIsInTheFile` | `EditsOnlyWhatWasChosen` and `ShownIsWritten` of `GrsUtil`, for every file, sound or not |
| `EditsAreAllOrNothing`, `EditsAreMade` | `AllOrNothing` and `EditIsMade`, for every sound file |
| `OnlyTheNewFontIsMerged` | `MergesOnlyNew`, for every command line and every failure |
| `TablesReadBack`, `TablesAreSorted` | `TableReadsBack` and `TableIsSorted` for any pairs, if counts and values fit their words (`PairsFit`) |
| `CleanFontsAreComplete` | `CleanIsComplete` for any metrics files |
| `FontsArePrintedAsMeasured` | `PrintedAsMeasured` for any metrics files in the order of the format (`FilesInTurn`), if counts and values fit their words |
| `CompilerDropsOnlyComments`, `CompilerStripsOutsideQuotes` | `DropsOnlyComments` and `StripsOutsideQuotes` for any text |
| `CompilerRoundTrip` | `RoundTrip` for any macro and any tables, to a file and to `stdout` |

**The invariant of Hook.** `UnhookedIsOriginal` (code outside redirected heads is
the loaded code up to the targets of calls) is not inductive: to know what
`Remove` puts back one must know what is *in* the fixup, and in the fixups that
the saved code of that one leads to. `HookInv` adds: a head looks hooked only
where a function begins, with the size of its loaded head (`HookedHeads`);
its fixup is allocated and not leaked (`HeadUsesLiveFixup`); each live fixup's saved code
is either the loaded head (up to call targets) or a redirect through another live
fixup (`FixupsRestorable`); and no fixup is reached from two places
(`NoSharedFixup`). Then inserting pushes a fixup onto a chain, removing pops one,
and redirecting a call changes no chain. The proof has one lemma per operation,
which rest on lemmas about spans (`SpanIsHead`: the bytes a redirect covers are
the same before and after others) and about the frame of each patch. TLC checks
`HookInv` itself in the run `hook`. For pages, `WriteInv` adds that the page of a
redirected head is writable; a store of more than that page needs a head that crosses its end,
which `HeadsInPage` excludes and the run `hook_page` has.

**The refinement to HookAbs.** `Stack(f)` is the sequence of fixups met from the head of
`f`; it exists and is unique as `HookInv` makes the saved code lead from fixup to fixup without
meeting one twice. A step then changes one stack at its end, or none, and `Callee` finds a call
also where a redirect has moved it. Every action of `Hook` maps to one of `HookAbs`, or to
none (an insertion that fails).

**Execution.** `RunInv` adds to `HookInv` what the processor relies on: a fixup goes back to
just behind the head it was taken from (`TopResumes`), and what a fixup of the kind "call"
saved consists of whole instructions that may be moved (`CallsRelocate`). Of the pages it says
`StartsEnabled`: the first of each block that holds a fixup was asked for, which nothing
takes back (`ExecutableGrows`), so that the first branch of a fixup always runs (`TopRuns`). For a
fixup of the kind "jmp", as `HOOK_REPLACE_FUNCTION` makes it and `patch.c` uses it, that is all that
runs. The others run whole, through each other's, and of those `CallRunsRedirect` speaks
when the newest is executable to its end (`AllRuns`); what the ones below it do, the run without it does too. `Run` takes `Enough`
steps, and the proof shows that this is no limit: `Within` bounds the steps that are left by the
place the processor is at, since every path goes towards the end of the segment and a redirect
of at least nine bytes costs three steps more. Then two executions are compared, step by
step: of the image and of the image without the newest redirect, which meet behind the
fixup (`RedirectRuns`); and of the image and of the loaded code, which stay at the same
address (`UnhookedRuns`). The second needs that a body does not run on into a neighbour that
may be redirected, `FunctionsEnd`.

**The invariants of Patch.** `SizeInv` says what each stage of the handler has got
right when no signal is pending, by what `notice` says of the last resize: wp has the terminal's size
after one that was signalled (`Handled`), and what `wp8.sh` passed if there was none since (`Passed`).
`DelayInv`: what was slept and what is left add up to what was asked for; that a delay is *exact*
needs an `errno` nobody changes, which nothing in the code gives (`patch_errno`).

**Of Session.** `KeyInv` is `KeysAreMapped` with the types of the keyboard: what was taken
last determines what the mapping left, since only `Key` maps. The proof has a
lemma per exit of the mapping, and one that classifies them. `InputInv`, for
`TakenAsSent`: there is a place in the input for each event that was not taken, and there its
bytes stand one behind the other up to the end (`LaidOut`); before the first of them is what the callback
has not read yet of the click it is in, of which it has the button and perhaps the column right
(`Halfway`). Sending an event puts a place behind the last (`ComesLast`), taking a byte moves all of them up by
one (`MovesUp`).

**Of Disasm.** `RangeInv`: what was tried and the insides of what was reported are just
the offsets from the start up to here. `CountInv`: the running sums of the counts on the
stack end in the number of reports, so that a return, which adds the top to the one below, keeps
it. `FlowInv`: each successor of what was decoded is decoded, or answered by the
resolver, or where one of the calls on the stack will go on. That makes `FlowCovered`
true when the stack is empty, though the resolver refuses targets on the way.

**Of Readdir.** `ReadInv`: there is a set of names whose records lie in the buffer one behind
the other, so that the offset of each is the sum of the lengths before it, `dd_nextloc`
that of the names returned already, and `dd_size` that of all; and a name that stayed, was passed by the
kernel and is not returned yet is in that set. A refill replaces the set; the old records are never longer
than the kernel's, which bounds the sums by what was asked of the kernel. `Abs` maps the last result.

**Of GrsUtil.** `GrsInv`: the driver is the first of its name; the data keeps its shape;
a field that differs was shown; and what was shown is written or waits in the buffer,
which a read, a seek or `exit` empties (`FlushedData`, `FlushKeeps`). `WalkInv` and `SoundInv`
follow the loop over fields: what is left of the data is the sum of the sizes of the
fields not read yet, so that a sound file is never cut off in the middle; and every field before the
current one that was to be edited has been.

**Sums.** A prover for a predicate as a parameter is not at hand, but induction over a *set* is:
`NatSet` (from the well-foundedness of the naturals) and `SubsetInduction` say that a set which
contains the first and with each the next contains all. From them follow that a sum over a finite set
exists and what it becomes when an element comes or goes, which `ReaddirProofs` and `GrsProofs` rest on,
and the inductions over steps and stacks of `HookProofs`. `Joined` is the same for sequences: `FirstJoined(parts, n)` is
what the first n of them give one behind the other, with one equation for the next, and equals the `FlattenSeq` of the models; a
fold cannot be unrolled, this can. `MacToolProofs` rests on it, and the tables in `AddAllProofs`.

**Of AddAll.** `MergeInv`: from a metrics file's start to its operations file the
directory holds no operations file, so that the one that is merged is its own.

*The kerning table.* `KernInv`: the counters are the *ranks* of the current pair, the number of pairs of each
kind before it; the width is what the values so far need; and each pass has written, behind what the
passes before have, the pairs of its kind that it has met, each at the place of its rank. So the
cell where a reader looks for the value of the k-th pair is that of the pair with rank k (`RanksReach`). The
pairs are pairs of the file (`FontInv`), so that `PairsFit` bounds them; `MCAddAll` assumes it of its files, which
TLC evaluates. A file of 65536 pairs, which the code does not refuse, would wrap the counts.

*The parser.* `ParseInv`: in a list, the count is the rank of the entry among those of its kind, or an error has
been noted; every character up to the count has a name, but for the last one while its name may still come; behind the
list, an error is kept or all of it is there. `AfmOutcome` reduces the seventeen actions to those that matter:
most only pass an entry over, or give up with an error that stays.

*The measures.* `PrintedAsMeasured` needs the hypothesis that a file has the order of the format: what it says globally
comes before the characters, `WX` right behind `C` and `N` right behind `WX`, the pairs behind the characters (`InTurn`), since the parser
lets a later entry overwrite an earlier one wherever it stands; and that widths fit a field (`ArgumentsFit`). `MCAddAll` assumes
it of its files, too-short, miscounted and cut-off ones among them, which TLC evaluates. `MeasureInv` says that at every entry
the parser has exactly what the file says up to there: the name and the pitch are those said last
(`GlobalsInv`), each character has a name and the width that stands before it in the file (`GlyphsInv`), the first has the first
width (`FirstWidthInv`), each pair is a pair of the file (`PairsFromInv`), and if the counts are right nothing that was
passed is missing (`AllCharsInv`, `AllPairsInv`). `DirInv` follows the tables through the directory: by the phase it says which of them are
there and that they are this font's. What remains is that a table can be read: the place of a character, `IndexOf`, is that
behind the joined rows of the sets before its own, so a cell has the width or character of its position; the list of other glyphs has each
position once; and the pairs of the kerning table, which `TableReadsBack` gives, decode to the pairs of the file.

**Of MacTool.** `MacInv`: if nothing was written since the newline (`lastc`), all that is before the current
character on its line is a name, a character that is not ASCII, or stripped (`LineInv`), so that a `#` found then starts a comment in the
sense of `DropsOnlyComments`. `StripInv`: what was written is the joined remains of the characters read, and `inquote` is the parity
of the marks. `TripInv`: the text is the joined spellings of the words, and the loop stands at the beginning of the
spelling of the next word with the words before it written; `NextWord` says what stands there, `WordIsRead` that the loop takes exactly that
word; a last newline, if the text went through `stdout`, is one word more. It assumes of the words what `RoundTrip` has as
its condition, `ReadsBack`: without it the text is not the macro's (see below).

**Model-checked only.** Liveness (`SizeSettles`, `AllIsTaken`, `ListingEnds`, `ScriptEnds`, `DriversEnd`).
The properties of `Window` and `SizeIsFinal`: the decoder's correctness is that of its tables, byte by byte, and its
model is recursive. `CharmapIsRead` takes the meaning of each text as given (`CharmapFiles`,
`BrokenFiles`), so that there is nothing to say of all texts.

## What disagrees

Each of these is a run in which TLC finds the counterexample.

- `hook_page`: only the page of the first byte is made writable; a head
  across two pages faults.
- `patch_sane`: the minimum for columns is applied with that of rows: 80x24 is
  reported as 80x80.
- `patch_errno`: a handler that changes `errno` after `nanosleep` has returned, or
  between two interruptions, ends the delay early.
- `readdir_end`: a name of 245 bytes or more ends the listing.
- `disasm_offset`: `libdis.h:670` promises the relative offset "as a sign-extended int32_t"; a
  displacement of two bytes is stored into a zeroed field of four, so that `E8 00 80` in 16-bit
  mode has the offset 32768. (One byte is extended, which `RelativeTargets` checks.)

Observations on the way that have no run of their own:

- `redirect_call_within_function` searches 2048 bytes and so runs on into the
  functions that follow (`IsFirstCall` has that limit).
- `redirect_call_within_function` calls no `mprotect`: a call can be redirected only
  in a page that an insertion has made writable before (`fault = "call"` in `Hook`,
  reached in the run `hook`). `patch.c` redirects no calls at present.
- Redirecting a call back by switching the parameters finds an earlier call to the
  redirect first, if the function has one.
- `insert_function_redirect` makes the page of a fixup's first byte executable (`hook.c:134`), not
  the one its end may lie in. A redirect that calls its callback and then runs the function
  faults there, unless another fixup has had that page enabled. `patch.c` only replaces functions, for which the first
  five bytes are enough.
- The result of `calloc` is used unchecked (`hook.c:125`).
- A resize between `wp8.sh`'s questions, or between them and `sigaction`, is lost until the next one: wp may start with the columns of
  one size and the lines of another. With `COLUMNS` or `LINES` exported (shells set them, few
  export them) wp starts with their values, whatever the terminal has, until it is resized (`wp8.sh:2`).
- Of the macros that `macro/README.md:5` says can be decompiled to plain text and then recompiled, some do not
  come back: `decompile.c:58` writes `{`, `#` and names with a `}` as they are, and of two words with the same character
  the compiler finds the first. Decompiled to the default, `stdout`, the text has a newline more (`decompile.c:79`), which is
  compiled to a word.
- A `#` after `{Tab}` or after a character that is not ASCII at the beginning of a
  line starts a comment, since `lastc` is set by plain ASCII only.
- A proportional font without kerning pairs is refused as a graphic font.
- `parseFile` forgets a parse error, and a wrong count, of a list that `EndFontMetrics`
  ends (it returns `normalEOF` instead); `CleanIsComplete` is for lists that have
  their own ends. A second list of characters, or one of pairs, replaces the first without an
  error, and a list in one that is skipped is skipped; a character that has no name is kept without
  one. So `CleanIsComplete` asks for lists that come once (`IsList`). `afm2add` ignores the result in any case.
- Some glyphs of the real `charmap.ini` have several positions; a kerning pair
  is written for the first of them only, widths for all.
- The decoder: a SIB byte that is cut off by the end of the window is taken for 0
  (`8B 04` at the end is two bytes long); `66 9A` and `66 EA` size their pointer by the address
  size; a 16-bit address with a 16-bit displacement and no base is two bytes short; `prefetch`
  with a memory operand loses its SIB and displacement. These are the four exceptions of `LengthIsArchitectural`.
- The decoder: `libdis.h:77` says that `opt_ignore_nulls` refuses "> 4 NULL bytes", the code
  refuses four, and takes the first two for an instruction where the buffer ends before the fourth.
- The decoder: `x86_get_raw_imm` of `enter` pairs the value of one operand with the place of the other; rows of
  the group `0F 73` cannot be reached since its mask is 0; `[BX+DI]` falls through to
  `BP+SI`; the implied operand of `MUL` is counted as explicit; two segment prefixes
  combine to a third; the sign of an operand and `stack_mod` are never passed on.
- `x86_disasm_forward` started inside a buffer runs up to that many bytes past its
  end (`x86_disasm` refuses them); an absolute target is resolved as its segment. With
  a resolver that refuses only what was *successfully* disassembled it may go on forever,
  though `libdis.h` suggests that this prevents loops.
- A key of a set numbered E0 goes through `e0_tab`, so that the character n,224 cannot be entered
  by number; codes of one byte that `findwp` refuses, and 0,0, return 0 without
  clearing `scnbuf`.
- Coordinates of the mouse above 222 do not fit the byte that encodes them.
- An indented entry of an ini file continues the one before it. A line that is longer than
  the buffer is read in parts, the second as a line of its own.
- A settings file that announces no drivers compares an uninitialised name.
- The wrappers of `stat` copy an uninitialised buffer over the caller's when the call
  fails, and do not copy nanoseconds.
- `util/charset.c` accepts a limit equal to the size of a set.
- A font without a full name is merged as "(null)", where the next one of that kind replaces it.

## Plan

Done, in this order: `Hook` with `HookAbs`, `HookRun` and `HookProofs`; `Patch`; `Readdir` with `DirAbs`; `MacTool`; `KernTable`; `GrsUtil`; `Afm`,
`FontTables` and `AddAll`; `Opcodes`, `Decoder`, `Window` and `Disasm` with
`DisasmProofs`; `KernTable` composed into `AddAll`; `GrsUtil`'s search; `Ini`, composed into
`AddAll`; `MapKey` and `Session` with `SessionProofs`; `GrsProofs` and `AddAllProofs`; `Sums` and `ReaddirProofs`;
`MacToolProofs`; the measures in `AddAllProofs`.

Next, by what matters most to a user:

1. *Proofs*: that `_init` and `Use` of `Session` are clients of `Hook` as `HookAbs` has it.
2. *The other wrappers* of `compat.c`: `stat` and `times` with their widths.
3. *The macro compiler*: the header of the file and the aliases of names.
4. *Metrics*: the typeface's heights and the fixed prefixes of the tables.

## Not modelled

- `src/util/charset.c`, `src/fonts/afmclient.c`: print tables; a sample program.
- `src/fonts/gseval.c`, which nothing calls.
- `src/intercept/libdisasm`: `x86_format.c` (text in five syntaxes) and `ia32_invariant.c`
  (signatures of code, and the query of a size by them, which reads prefixes that
  nobody has set), neither used by wpunix; reports of errors.
- `src/compat.c`: the wrappers of `stat`, `geteuid`/`getuid` and `times`.
- `src/macro/mactool.c`: the header of a macro file.
- The inside of wp: `win_resize`, `frewrt`, `msqot` and the rest are modelled by
  how `patch.c` uses them. In particular, what happens when the handler redraws while wp
  itself is drawing cannot be known from this code.
- Makefiles, packaging, sample macros, the PostScript sources, terminal
  and printer descriptions, debugging aids: no behaviour to check.
