# libTE in TLA+

libTE is a terminal emulation library (`libte/`) with an FLTK widget on top of
it (`flte/`) and a small terminal application (`flterm/`). This directory holds
TLA+ modules of the library's core, TLC configurations that check them on small
instances, and theorems about them that TLAPS checks for every value of the
constants. Paths below are relative to `src/`.

## The system

One process, one thread. FLTK's event loop calls in when the child has written
(`PtyIO::_fromSlave`), when a key or mouse event arrives, when the window is
resized, when the scroll bar moves, when a timer ends, and when the window must
be drawn. Nothing runs in parallel; what makes the code hard is that the calls
come in any order, that each keeps part of a state others read (cursor against
margins, offset against scroll-back, dirty rows against what is on the window),
and that some re-enter (`?3h` asks for a size, which resizes the window, which
calls `te_resize` inside `te_process_input`). The other process is the child: it
writes, reads and ends whenever it likes, behind a pseudo terminal that cuts
output anywhere and refuses input when it is full.

| component | code | state | operations | correct when | module |
|---|---|---|---|---|---|
| terminal control | `libte/actions.c`, `libte/libte.c` | size, cursor, margins, modes, DECSC slot, tab stops, selected buffer, palette | one handler per control function, `be_input`, `te_resize` | cursor on the page and in the region in origin mode; buffer called inside its asserted ranges; reports agree with addressing | `Terminal` |
| rendition, character sets | `libte/actions.c:611-687,790-829`, `libte/charsets.c`, `libte/symbol.h` | colours, attributes, G0, G1, shift, their saved copies, reverse screen | SGR, SCS, SI/SO, DECSC/DECRC, DECSCNM, drawing | SGR means what it says; DECRC restores; colours are in the palette | `Rendition` |
| scroll-back | `libte/history.c` | ring of entries, size, position | store, fetch, peek, clear | a stack of its most recent lines | `History` |
| row buffers and viewport | `libte/buffer.c`, `libte/viewport.c` | rows of two buffers, scroll-back offset, scroll lock, dirty rows | region scroll, buffer switch, reset, reshape, set offset, redraw | a redraw of the dirty rows makes the window right; offset inside the scroll-back; scroll bar told | `Viewport` |
| row cells and dirty columns | `libte/bufferrow.c`, `libte/viewport_dirty.c` | used cells, erase cell, dirty interval | replace, insert, fill, remove, clear; taint, cleanse | every cell that looks different is dirty; ICH and DCH move cells as asked | `Row` |
| parser | `libte/parser.c`, `libte/parser_states.c` | state table, parameters, intermediate, OSC buffer | one step per code point | how output is cut into reads makes no difference; all of it is consumed; the OSC buffer is owned | `Parser` |
| keys and paste | `libte/libte.c:20-131,580-656,737-745` | key modes | a string for each key, brackets around a paste | keys follow the modes; a paste can be told from keys | `Input` |
| mouse | `libte/libte.c:658-735` | position, buttons, tracking mode | a report for a press, a release, the wheel, a motion | the program knows the buttons | `Mouse` |
| slave I/O | `flte/Flx_SlaveIO.cxx`, `flte/strutil.c` | pty, fill of the read buffer | read, convert, hand on; write; exit | exit reported once; no text lost, torn or moved, either way | `Frontend`, `Input` |
| pseudo terminal | `libte/pty.c` | child, descriptors | spawn, resize, restore | nothing leaked; child waited for | `Frontend` |
| terminal widget | `flte/Flxi_BasicTerm.cxx` | columns and rows, area, redraw timer | keys, mouse, resize, draw, deferred update | an update is drawn eventually; window, widget, terminal and child agree on the size | `Frontend`, `Widget`, `Mouse` |
| scrolled widget | `flte/Flx_ScrolledTerm.cxx` | scroll bar | scroll, page, lock | paging skips nothing | `Widget` |
| application | `flterm/flterm.cxx` | window, what it holds for it | open, close, size limits | failures leak nothing | `Frontend`, `Widget` |
| fonts, C++ wrapper, test scripts | `flte/fontrender.c`, `libte/LibTE.hpp`, `test/` | | | outside the models | |

`PROJECT.json` lists all of them with their status, and under "hazards" each
place where the code could go wrong in a way a test would hardly reach, with
the properties that cover it.

## Modules

**`Terminal`** - the control state of `struct TE_Backend_` and one action per
handler: `ac_lf`, `ac_insert_line`, `te_resize` and so on keep their names.
Handlers are chosen by `Next` with any parameter list `parser.c` can hand them.
A handler's calls to the row buffer are recorded in `touched` (rows fetched
with `buffer_get_row`) and `scrolled` (regions given to `be_scroll_region`)
instead of being performed. Sums of parameters wrap at `IntMax`. `?3h`
(`SetColumns`) includes the re-entrant resize. `MCTerminal` gives the
constants for TLC and the search bound.

**`HistoryStack`** - the abstract specification of the scroll-back: a sequence,
newest line first, cut at the capacity.
**`History`** - `history.c`: slots, `size`, and `pos`, an unsigned counter
modulo `Modulus` (2^32), for any capacity; the code's 1000 does not divide 2^32.
`depth` (how many of the youngest lines have an entry each) and `torn` (a line
has lost its entry) are kept by no code. `IsStack` is the refinement, through
`Kept`, the entries by age. Two steps are not the stack's, and the property says
what they do instead: a store that takes the counter over the wrap
(`StoreOverWrap`), after which only as many lines are sure as the remainder of
`Modulus` by the capacity (`Rest`, 296 of 1000), and a fetch from an emptied
history that gives back a line so lost (`FetchTorn`).

**`Viewport`** - both row buffers, the scroll-back (as the stack
`HistoryStack`, which `History` is shown to implement), `viewport.c`, the rows
taken to be dirty, and `shown`, what the frontend last drew, which no code
keeps (nor `everLocked`). A row is one value: what it would be drawn as. `be_scroll_region` moves
the rows, stores or fetches lines, moves the offset and taints, in the code's
order (the taints use the new offset). `Output` has what the child's output
does, `Frontend` what the window does.

**`Row`** - the cells of one row and its dirty columns, in the release build:
typing with and without autowrap and insert mode, erasing, ICH, DCH, cursor
moves, and the redraw with the cursor drawn over it; cells that are cleared look
as `fe_draw_clear` draws them, without their inverse. `stale` is the window's
side: the columns that look different from what was drawn last. `MCRow` gives the
renditions.

**`Parser`** - the state tables of `parser_states.c` and the functions of
`parser.c` they call, one code point a step: a table's entries are `Quiet` (a
parser function or none) or `Perform` (a handler), `_parser_normal_input` takes
a run of text. Code points are named by character or mnemonic. `input` is what
is left of the chunk `te_process_input` was given, and the loop over it is fair.
The call a step makes is recorded in `called`, and `body` is the open control
sequence as a text, which no code keeps and only the properties read.
`SequenceParams` reads the parameters off that text as a whole: where its digits
are, which field each is in and how many of that field follow it.

**`Rendition`** - what a character is printed as: `ac_char_attrs` over a list of
parameters (a recursive function, one parameter after another), the two
character sets and which is shifted in, what DECSC saves of them, reverse screen
with the swapped palette, and the palette entries `fe_draw_text` takes for a cell
and for the cursor on it. `Says` and `Firsts` define the meaning of SGR a second
time, by what the last item about each attribute says.

**`Input`** - from the user to the child: keys through the tables of `libte.c`,
characters, pastes and the answers to the child's requests, all of which end in
`PtyIO::toSlave`. A handler's `toSlave` calls are in `sending` until they are
written; a write takes any part of what fits into the pseudo terminal, and a full
one refuses, which drops the rest of that call. The conversion that comes first
(`str_cps_to_mbs_n`) may meet a character without an encoding: in a build with
NDEBUG it then writes an arbitrary number of bytes, those it had converted and
then what the stack holds (`"stray"`). A paste is any text over the characters
and the bytes of the closing bracket; `te_paste_text` filters nothing. The child
asks for modes and reads whenever it likes. `given` and `refused` are kept by no
code. FLTK's events wait while the thread is in a handler (`Event`).

**`Mouse`** - `BasicTerm::handle` and `te_handle_mouse`: the user presses,
releases, moves in and out of the terminal and turns the wheel; the child sets the
tracking modes. `told` is what a program that follows the reports takes to be
down, and `unsure` why it may be wrong; the code keeps neither.

**`Widget`** - pixels and cells: window, group, scroll bar, frame and terminal on
the way to a size and back, resizes by the user and by DECCOLM, a child that
cannot be told its size; and the scroll bar with the keys that page and lock. Of
the scroll-back only the number of lines is kept. FLTK is modelled as the code
uses it: `size` takes effect at once, the user's sizes are those of `size_range`.

**`Frontend`** - a terminal window from its opening to its end: `_spawnTerm_cb`
and `te_pty_spawn`, each of whose steps may fail, the child's descriptors, the
pseudo terminal's bytes, `PtyIO::_fromSlave` with `str_mbs_to_cps_n`, the exit
that closes the window and deletes PtyIO, `te_pty_restore`, and `BasicTerm`'s
deferred redraw. The child and the user act at any time, a read returns any number
of the bytes there are. `held` is what flterm has of memory and descriptors for
the window; `written`, `delivered`, `restored` and `undrawn` are kept by no code.
What `te_process_input` does with the text is `Parser`'s; here it is an update.

**`TerminalProofs`, `HistoryProofs`, `ViewportProofs`, `RowProofs`,
`StreamProofs`, `RenditionProofs`, `FrontendProofs`, `WidgetProofs`** - the
theorems. `WidgetProofs` has those of `Mouse` too, and `StreamProofs` those of
`Parser` and `Input`, the two streams between terminal and child; the
specifications of the second ones are called `MouseSpec` and `InputSpec` for that.

`Terminal` and `Viewport` meet in the region scrolls: `Viewport` assumes a
region of two rows or more of the page and a count below its height, which is
`BufferCallsInBounds`, proved of `Terminal`. `Viewport` and `Row` split the
dirty state: rows there, columns here. `Parser` and `Terminal` meet in the
parameter list: any ints of the width, as `ParserTyped` shows and `Terminal`
assumes (it keeps the first two, which are all a handler it models reads). The margins' rows that a scroll leaves
blank appear in `Row` as `bufrow_clear` followed by a taint of the row.
`Widget` and `Terminal` meet in the size: `LimitsKept`, proved of `Widget`, is
what `Terminal`'s `SizesAssumption` takes for granted, and `Terminal`'s
`SetColumns` is the inside of `Widget`'s `DECCOLM`. `Widget` and `Viewport` meet in
the scroll bar: `Viewport` shows that the frontend is told every change
(`ReportCurrent`), `Widget` what the bar makes of it. `Input` and `Mouse` meet in
`toSlave`, where a mouse report is a call like a key's. `Input` and `Frontend`
are the two directions of one pseudo terminal; a full one in `Input` never blocks
the thread (`NeverHangs`), which `Frontend` takes for granted by being fair to
FLTK's callbacks.

Definitions whose comment calls them a mutant (`ac_delete_line_Anywhere`,
`TaintedByInc_Nothing`, ...) are deliberate mistakes of the kind one could make
in that code. `PROJECT.json` says which definition each replaces and which
property then fails; they are in no specification.

## Runs

| run | instance | shows |
|---|---|---|
| `terminal` | 2x3 and 3x2 pages, tab width 2, parameters 0, 2, 7 and none, `IntMax` 7 | types, `BufferCallsInBounds`, `ReportRoundTrips`, `ChunksCompose`, `OriginConfines`, `ScrollsStayInside` |
| `rendition` | 16 colours, 11 parameter values, lists of up to 4 of them from every rendition reached | `LastWins`, `ColoursInPalette`, `SaveRestores` |
| `history` | capacities 0, 3 and 6, counter modulo 16 | `IsStack`, `Window`: the ring is a stack but for what the wrap of the counter loses |
| `viewport` | 2 and 3 rows, 2 lines kept, 2 contents, offset up to 3 | `NothingStale`, `WithinHistory` (never locked), `ReportCurrent`, `LockHolds` |
| `row` | 3 columns, 2 renditions (one inverse), up to 4 used cells | `StaysCovered`, `RedrawRestores`, `EditsMove` |
| `parser` | 18 code points, chunks of one to three of them, sequences and OSC strings of up to 3, `IntMax` 127 | `SequenceParams`, `OscOwned`, `TerminatorRecovers`, `InputConsumed` |
| `frontend` | characters of one, two and three bytes and invalid ones, 3 written, a buffer of 4 bytes, a timer of 2 ticks | `TextInOrder`, `EofMeansAll`, `RestoredOnce`, `HeldWhileOpen`, `ExitSeen`, `UpdateDrawn` |
| `input` | a cursor, a keypad and the Enter key, a character with and one without an encoding, a paste of both and one with a closing bracket, all modes, 3 bytes of pseudo terminal, up to 4 requests and events | `ArrivesInOrder`, `KeysFollowModes`, `PasteApart`, `NeverHangs` |
| `mouse` | 3 buttons, 2 cells and outside, Shift alone and with Ctrl | `ButtonsKnown` |
| `widget` | cells of 2x2 pixels, terminals of 2 to 4 columns and rows, 4 lines of scroll-back | `SizesAgree`, `CellsInside`, `LimitsKept`, `AskedIsGiven`, `PagingSkipsNothing` |

Two runs expect a violation, each on the instance of the passing run of its
module; `PROJECT.json` tells them in full under "findings":

| run | violated | trace |
|---|---|---|
| `frontend_exit` | `ToldOnlyAtExit` | a read that ends after the first byte of a character gives no character, and length 0 means exit (`Flx_SlaveIO.cxx:125`) |
| `rendition_reset` | `ReverseAsSet` | reverse screen is set, reset, and set again: the mode is set, the palette is not reversed (`actions.c:168`) |

### Known deviations

Places where the code does something a reader would not expect. The models do as
the code does. Of the first kind each is an exception that a property names, or
makes a property fail in a run that expects it.

Named by a property:

- `ac_reset` clears the mode flags before the call that would swap the palette
  back (`actions.c:168`): after a reset in reverse-screen mode the colours stay
  swapped, and setting the mode again swaps them back (`ReverseAsSet` fails).
- `history_fetch` on an empty history makes the 32-bit counter wrap, and the
  capacity of 1000 (`libte.c:329`) does not divide 2^32: lines stored after the
  wrap take the entries of kept ones (`history.c:86`; `StoreOverWrap` and
  `FetchTorn` of `IsStack`, and `Window`).
- ICH and DCH with the cursor right of the used cells pad the row up to it in the
  current rendition (`bufferrow.c:87-109`, `EditsMove`).
- A character without an encoding makes `toSlave` write an undefined number of
  bytes, as the conversion's error is only asserted not to come
  (`Flx_SlaveIO.cxx:69-70`; `"stray"` in `Input`, which `PasteApart` allows for);
  a paste that holds the closing bracket ends its brackets early
  (`libte.c:737-745`), so that `PasteApart` holds up to the next closing bracket
  and not for the whole paste.
- Text that fills its line leaves the cursor on the last column, so that the next
  read's first character overwrites the last one, where in one read it would have
  wrapped (`libte.c:180`, the exception of `ChunksCompose`).
- IL above the top margin scrolls lines outside of the region (`actions.c:606`,
  `ScrollsStayInside`); a sum near `INT_MAX` takes CUD out of it (`actions.c:226`,
  `OriginConfines`).
- An unlisted C1 control is an empty run of text for which the parser steps back
  by one, for ever and against its comment (`parser.c:228-229`, `InputConsumed`);
  an empty first parameter is lost (`parser.c:199`, `SequenceParams`).
- Text right of the used cells, the last column without autowrap, and hiding the
  cursor change cells that are not made dirty (`StaysCovered`).
- The end of a multi-click is reported as a release, one report stands for the
  change of several buttons, and changes taken for a selection are not reported
  (`ButtonsKnown`).

Outside of what a property covers:

- With scroll lock on, a scroll by several lines, or of a region below the first
  row, leaves rows that changed clean (`viewport.c:77-78`), and the offset grows
  for ever. `NothingStale` is about viewports that were never locked.
- The key of the scroll lock only ever locks, as nothing stores what
  `getScrollLock` returns (`Flx_ScrolledTerm.cxx:262`).
- A seventeenth parameter is written past `params[16]` (`parser.c:201`); an SGR
  colour that overflowed below zero reads before the palette (`actions.c:633`); a
  key no table has reads past the tables (`libte.c:611`). Named assumptions exclude
  the three.
- A reset leaves character sets and the DECSC slot as they are; `case 100` of
  SGR is never reached; the size limit is 225 where its comment says 233
  (`Flxi_BasicTerm.cxx:127-129`).
- `_env_find_value` compares a prefix (`pty.c:107`): TERM in the additions hides a
  variable TE of the environment. `term_set_utf8` is called for a descriptor the
  child has closed (`pty.c:345`).
- `bufrow_fill` is called right of the used cells, which it asserts against in
  Debug builds (`bufferrow.c:132`; `Row` is the release build).

### Bounds, and why they are enough

`Terminal`: a page of three rows has a region smaller than the page with a row
outside it above or below (both, as the margins move), and of two rows the
smallest the code allows; 2 and 3 columns give a tab stop before and at the
margin. Parameter 0 is clamped up, 2 is inside the page, 7 is past it and makes
sums overflow; a missing parameter takes the default. `MaxChunk` 5 wraps more
than twice a line of two columns. `Bound` keeps tab stops, newline mode and the
palette from being combined with each other; no handler but the reset, which is
reached from each, reads two of them.
`History`: two distinct lines tell an entry apart from its neighbour; capacities 3
and 6 leave 1 and 4 of modulus 16, less and more than half of the ring, as 1000
leaves 296 of 2^32, and the counter goes round. `Viewport`: two contents, one of
them blank; the capacity is below and equal to the height, so that lines fall
off and the window can be all history. `MaxOffset` bounds a locked offset, which
the code lets grow for ever, one past the capacity. `Row`: three columns
have a first, a middle and a last one; `MaxUsed` is one cell past the width,
enough to see what insert mode pushes past the margin.

`Parser`: the code points reach every entry that does something of its own
(one of each group of entries that only differ in the handler), and in each
state one that the state does not list. Three code points hold a number, a
separator and a number, two digits and an intermediate, or three digits, which
overflow an `IntMax` of 127. `MaxHeld` bounds the open sequence and string; when
it is reached only the terminator can come. `BoundsAssumption` keeps it at 16 or
below, where `params` has room.
`Frontend`: with 4 bytes a read ends inside a character of each length and the
buffer would fill up if anything but an incomplete character stayed in it; three
characters put one before and one after the one that is cut or invalid.

`Rendition`: lists of four parameters hold an extended colour and an item before
or after it, or one that is cut short; the values have one of each kind, and the
colours at and past the end of the palette. SGR depends on the rendition only, so
`LastWins` compares each rendition once.
`Input`: the longest string of a key is of two bytes, the longest handler has
three calls, so that a pseudo terminal of three bytes is full inside a string,
between two calls and not at all; the bound of four, two of them the user's,
leaves room to set a mode, ask, press a key and paste, in any order. A failed
conversion may have any length; with `MaxStray` 1 it writes nothing, what it had
converted, or a byte of the stack.
`Mouse`: three buttons make one report stand for a press and a release at once;
two cells and one place outside have every kind of motion.
`Widget`: cells of two pixels leave windows that show a part of one, in both
directions; sizes of 2 to 4 have a least, a greatest and one between, with 3 and 4
for the narrow and the wide page; the scroll-back is more than a page, and
`MaxOffset` lets a locked offset pass it.

Deadlock is checked in every run but those of `Frontend`, which ends (the window
is closed and the child waited for), and of `Input`, whose bounds end it.

### Fairness

`Parser` assumes weak fairness of `parser_input` and nothing of the child: once
a chunk is handed over, `te_process_input` runs its loop to the end in the one
thread there is; `InputConsumed` rests on it. `Frontend` assumes it of what
FLTK's loop calls: the descriptor's callback, the timer, its ticks and the draw;
not of the child nor of the user. `ExitSeen` rests on the first alone, and
`UpdateDrawn` has the premise that updates pause, without which each one puts
the redraw off again. `Frontend` also assumes that `te_pty_spawn` and what it
starts in the child run on: `ExitSeen` holds for a child that ends before its
window is made. `Input` assumes it of `toSlave`, whose loop nothing interrupts,
and of neither user nor child: `NeverHangs` holds although the child may never
read. The other modules state no liveness: what they model is done inside one
call.

## What is proved

For every value of the constants that satisfies the named assumptions
(`SizesAssumption`: pages of at least one column and two rows, as
`Flxi_BasicTerm.cxx:124` asks for; capacities natural numbers, and so on). The
assumptions called `NullAssumption` only say that `NULL`, which stands for "none"
(of a timer, a reason, a character set, a string), is none of the values it is
told apart from.

- `TerminalProofs`. `TypeOK /\ BufferCallsInBounds` is inductive: the recorded
  calls are of one step, and that they are in bounds follows from the types,
  whose essential part is `margins.top < margins.bot` and both on the page
  (`TypeCorrect`, `CallsCorrect`). `OriginConfinesCursor` and `ScrollsConfined`
  are action properties that follow handler by handler; the overflow of CUD is
  exempt because a sum past `INT_MAX` does leave the region, so the proof needs
  that no other sum does. `ReportCorrect` follows from the types, and so does
  `ChunksAlwaysCompose`: where a run of characters ends is a quotient and a
  remainder by the width, for which the proof has lemmas of its own.
- `HistoryProofs`. For every capacity up to the number of values of `pos`, the
  code's 1000 among them, and with no hypothesis on wraps. `Window` is not
  inductive: a store counts right only if it is known which entries are in use.
  The invariant (`IInv`) adds that `depth` is at most `Room(pos)`, the number of
  ages that have slots of their own at this `pos` (`AgesApart`: fewer than
  `capacity` just after a wrap, because the `Rest` values of the counter that are
  left over of whole rings come together with those after the wrap), and that as
  long as nothing was torn no other entry is in use. `RingIsStack` shows the
  refinement of `HistoryStack`, but for the two steps `IsStack` names.
- `ViewportProofs`. `ScrollBarCurrent` and `AltAtFirstRow` hold with scroll
  lock too (one invariant, `Told`). `RedrawsSuffice` and
  `ScrolledWithinHistory` hold of viewports that were never locked: the
  invariant (`NeverLocked`) adds `~locked`, and each needs the other, since a row is looked up in the scroll-back by the
  offset. `LockedViewHolds` looks at each way in which the scroll-back grows or
  is cut while the viewport is locked.
- `RowProofs`. `ChangesAreDirty` goes handler by handler: each keeps the types and
  what looks different dirty, but for the exceptions `StaysCovered` names
  (`Fine`). Most of it is about one cell: what `Look` gives before and after a
  write, a removal or a fill, left of it, in it, right of it and right of the used
  cells. `EditsAlwaysMove` has no invariant but the types: ICH and DCH are computed
  from any row, the columns that are padded up to the cursor included
  (`ReplacePads`, `FillPads`).
- `StreamProofs`, of `Parser`. `TypeOK /\ OscOwned` is inductive, and neither is
  alone: appending to the OSC buffer is typed because it is there. It gives
  `ParserTyped` and `OscBufferOwned`. `TerminatorBringsBack` goes over the
  tables. `ParamsAlwaysMeant` relates the parser, which multiplies by ten and adds, to the
  definition by positions: a digit more makes every digit of its field worth ten
  times as much and none of another (`WorthGrows`, `NumberGrows`), a semicolon
  begins a field worth nothing (`SemicolonAdds`), and a parameter that has wrapped
  goes on as the number it stands for (`WrapsOnce`).
- `StreamProofs`, of `Input`. The invariant (`InputInv`) has three parts, each
  about all bytes that `toSlave` ever had to write (`given`), not about those
  that have arrived. `Ordered`: what has passed and what is still to be written
  are together all of `given`, or a part of it in its order once a write was
  refused; it gives `ArrivesAlwaysInOrder`. `Fit`: every byte says what was true
  after some of the requests, of which at least as many were questions as there
  are answers before the byte. That a part in the order of the whole has no more
  answers before a byte (`AnswersEmbed`) carries it over to what was read, also
  when writes were refused (`KeysAlwaysFollow`). What each key sends goes over the
  tables (`KeyStringKeyed`). `Apart`: every opening bracket has a closing one
  behind it, with only pasted bytes up to it; a prefix of such a sequence has what
  `PastesStayApart` says. What the conversion gives for a text it can encode is
  the text (`ConvertedIs`), so that what the program itself sends is as it was
  composed (`FixedEncode`); for others it is any bytes of the text or none.
  `CharsAssumption`, `UnencodableAssumption` and `PastesAssumption` keep the names
  of the bytes apart: a paste may hold the bytes of the closing bracket, but no
  other sequence a property looks for.
- `RenditionProofs`. The types (`RInv`) need that `ac_char_attrs` keeps them over
  a list of any length: a pass of its loop does (`PassLooks`), and the passes are
  the values of a recursive function (`SgrPasses`). `PaletteSuffices` follows.
  `LastAlwaysWins` is the correctness of that loop: a pass is at the first
  parameter of an item or skips the rest of one (`StartsUnskipped`), an item sets
  what it says and leaves the other attributes alone (`ItemSets`), and by
  induction over the passes an attribute is what the last item about it says.
- `FrontendProofs`. `PtyRestoredOnce`: the invariant adds to `RestoredOnce` that
  PtyIO owns the pseudo terminal as long as the window exists. `NothingLeaked`
  rests on it, and adds what is held at each step of `_spawnTerm_cb` (`HeldAt`).
  `TextAlwaysInOrder`: the property speaks of bytes and is not inductive; the
  invariant (`TextInv`) says that what was delivered is the beginning of the
  text, and that what the buffer keeps is the beginning of one character. A read
  keeps it because decoding any beginning of a text gives its whole characters and
  leaves the rest of one (`DecodesText`, by induction from the end of the bytes, as
  the decoder is written). From it follow the two bytes at most that wait in the
  buffer, so that a read always has room, which `EofAlwaysMeansAll` needs
  (`EndInv`), and the types (`FrontendTyped`).
- `WidgetProofs`. The sizes are one invariant, in which the window is within its
  limits; that a window's pixels divided by the font are within the limits in
  cells is a lemma about division (`DivWithin`). `PagingNeverSkips` needs that an
  active scroll bar shows the offset, and that an inactive one has no scroll-back.
  `ButtonsAlwaysKnown`: the invariant relates the program's idea to the buttons the
  terminal has seen, and these to those held only while the mouse is over the
  terminal (`MInv`); the cases of a report are lemmas.

What a recursive function gives is proved by induction over the set of the
numbers at which the claim holds (lemma `UpTo`, from well-foundedness of the
natural numbers), as the library's induction theorems have an operator for a
parameter, which the provers cannot instantiate. For that, `BytesOf` and the
passes of SGR are recursive functions, not folds.

Every safety property of a passing run is the statement of a theorem. Only
model-checked is what needs fairness (`InputConsumed`, `ExitSeen`, `UpdateDrawn`,
`NeverHangs`): liveness is out of the prover's reach.

## What is left out

- The title that OSC sets, the layout of a symbol's bits, glyphs and pixels of
  cells, the clipboard functions and `te_alter_palette`, which nothing calls.
- Memory: allocation of rows and dirty arrays, and what an index out of range
  would overwrite. The properties that calls are in range stand in for it where
  they hold; where the code does leave the range it is a hazard in
  `PROJECT.json`.
- `Row` does not follow the row through scrolls (they are `Viewport`'s), and
  shows it with the window not scrolled back.
- `Mouse` leaves out the modifiers and the coordinates in a report, `Input` the
  text of answers: nothing reads them.
- `Frontend` leaves out what a timer that outlives its widget does, what a read
  that deletes PtyIO inside its own callback does with the freed buffer, and a
  window the window manager only hides. Environment, utmp and terminal attributes
  of the child are system calls' business.
- `Viewport` takes the scroll-back as the stack of `HistoryStack`, which `IsStack`
  shows it is until the counter wraps. Past the wrap of a capacity that does not
  divide `2^32` the ring forgets lines early, which `Viewport` does not show.
- `Input` leaves out sequences in a paste other than the closing bracket's, and
  has the release build, in which the assertion after the conversion is not
  evaluated.
- `Parser` leaves out its deletion, which frees the parser and not the buffer of an
  OSC string that is open (`parser.c:49-51`).
- The Freetype renderer, which the build leaves out (`Flxi_BasicTerm.hpp:17`), the
  C++ wrapper, which forwards each call, and the scripts that print test screens.

## Plan

The lines of IL and of insert mode in `Viewport`'s rows, for the two hazards that
are left without a property.
