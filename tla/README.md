# PhantomOS in TLA+

A verification project for PhantomOS, a 32-bit hobby kernel in C: a boot loader,
a VGA terminal, a PS/2 keyboard driver, an in-memory file system, a shell and a
vim-like editor, all of it run from the keyboard interrupt. Paths below are
relative to the repository's root.

## The system

| Component | State | Operations | Hard parts |
|---|---|---|---|
| File system (`src/kernel/filesystem.c`) | `memory_pool`, `memory_offset`, the node tree, `total_files`, `current_dir`, `current_path` | create, find, add and remove a child, resolve a path, change directory, write, read, delete, copy, move | nothing is ever freed; five limits; unsigned counter; error paths that leave half a result; paths through removed directories |
| Shell (`process_command`, `parse_command_args` in `kernel.c`) | none of its own but the input line | mkdir, touch, rm, rmdir, cd, cp, mv, write, and commands that only print | combinations of file-system calls that fail in the middle |
| Editor (`editor.c`, `run_editor`) | 50 rows of 76 bytes, cursor, view, mode, `modified`, command line | one per key and mode, open, save, draw | rows and the save buffer filled without checks; `modified` decides whether text may be dropped |
| Keyboard (`keyboard_handler`, `kernel.c`) | shift, caps lock, layout, input line, `editor_active` | one per scancode | shared flags, tables of different sizes |
| Start-up (`kernel_main`, `init_idt`, `keyboard_init`) | the controller's output buffer, interrupt flag | polling loops, port commands | interrupts are on while `keyboard_init` polls the port the handler reads |
| Terminal (`terminal_*`) | row, column, colour, screen | putchar, scroll, clear | written by `kernel_main` and by the handler |
| Boot loader (`src/bootloader/boot_simple.asm`) | registers | disk read with three tries, A20, protected mode | hardware set-up |

The interrupt handler runs a whole command, or a whole editor key, with
interrupts off. So a command is one step of `Shell` and a key is one step of
`Editor`; the only concurrency in the system is between `kernel_main` and the
handler while the kernel starts. There are two places where it bites, the
keyboard's data port (`Boot`) and the terminal's cursor (`Console`).

What makes each part correct: the file system stays a tree whose counters and
allocator agree with it, a failed command changes nothing that existed, a move
loses nothing, a path keeps its meaning; the editor's cursor stays in its text,
the text in its buffers, no change is dropped unasked, and what was saved is
what is opened; start-up ends, takes no answer for a key and loses no byte; the
terminal's cursor stays on the screen and shows the line that Enter executes.

## Modules

| Module | What it is |
|---|---|
| `FileSystem` | Every function of `filesystem.c` as an operator from a state to a state and a result. No variable. |
| `Shell` | EXTENDS `FileSystem`; the variable `fs`; one action per command and one for the editor's save; what ls, cat, stat and tree show; the properties. |
| `MCShell` | Operands and texts for TLC. |
| `Editor` | `editor.c` as a state machine, one action per key; what `editor_draw` paints; the properties. |
| `MCEditor` | Files to open, for TLC. |
| `Session` | INSTANCEs `Shell` and `Editor`: the two with one file system between them. |
| `MCSession` | Its operands and texts for TLC. |
| `Boot` | The boot loader's disk reads and `kernel_main` up to the prompt, the interrupt handler, the controller, the keyboard and the user, with fairness. |
| `Terminal` | Every `terminal_` function as an operator. No variable. |
| `Paper` | Abstract specification of a terminal: a roll of paper and a pen. |
| `Screen` | EXTENDS `Terminal`; one writer; shown to implement `Paper`. |
| `Console` | EXTENDS `Terminal`; keyboard, command line, parser and prompt, with `kernel_main` and the handler both writing to the terminal. |
| `MCConsole` | A small keyboard and command set for TLC. |
| `Loops` | Lemmas for loops written as recursive functions: a step function has a path, what every step keeps holds to the end, and `FlattenSeq` puts sequences together one by one. |
| `FileSystemProofs` | EXTENDS `FileSystem` and `Loops`; what each operator does to the tree, the pool and the buffers. |
| `ShellProofs` | The theorems about `Shell`'s specification. |
| `EditorProofs` | EXTENDS `Editor` and `Loops`; the theorems about its specification. |
| `SessionProofs` | EXTENDS `Session`; INSTANCEs `ShellProofs` and `EditorProofs`; the theorems about the three together. |
| `ScreenProofs` | EXTENDS `Screen`; its invariants, and that it implements `Paper`. |
| `BootProofs` | EXTENDS `Boot`; its safety properties. |
| `ConsoleProofs` | EXTENDS `Console` and `Loops`; its invariants, and that the parser gives of every line what its declarative definition says. |

An operator whose comment begins with "Faulty:" is a plausible mistake in the
operator below it. Nothing uses it; putting it in the other's place must break
the property it is listed for, which shows that the property depends on that
line of the code.

### FileSystem and Shell

A state is a record: `heap`, the nodes in allocation order (node 1 is the root,
0 is the null pointer; `kfree` does nothing, so a place is never reused),
`total_files`, `memory_offset`, `current_dir` and `current_path`. `child_count`
is the length of `children`. A string is the sequence of its slash-separated
segments, which keeps every case the path loop distinguishes (leading and
trailing slashes, `.`, `..`, a slash inside a *name*). `Truncate`, a parameter,
is what `strncpy` keeps of a name. `SegmentLength`, another, is the length of a
segment; `strlen` adds up the segments and the slashes of a path. A file's data is its full buffer, so what a
shorter write leaves behind is there, and `fs_read_file` returns what a reader
of the C string sees. `total_files` counts modulo `SIZE_RANGE`.

`fs_update_current_path` builds the path of the current directory in the 256 bytes
of `current_path` without asking whether it fits; five nested names of 62
characters do not. `PathFits` says that it does. A `cd` that overruns is the last
step of a behaviour (`Next` is `PathFits(fs) /\ Command`), so all statements about
the shell are about behaviours up to that point; `MCShell_doc_path.cfg` shows that it
is reached. `fs_resolve_path` copies a path into as many bytes: an operand, of at most
63 characters, always fits (`PathAssumption`), and so does a path that fits
`current_path`, since its leading slash is not copied.

`cmd_ls`, `cmd_cat`, `cmd_stat` and `cmd_tree` change nothing: they are operators
that return what is listed, and the invariants `ReadersAgree` and
`TreePrintsTree` say that they agree with each other and with the tree in every
reachable state. `ReadersAgree` looks at directories typed without a slash at
the end: with one, the name appended for stat would stand behind an empty
segment.

Left out: time stamps and the list through `node->next` (written, never read),
and messages, except that each command's result says whether it printed an
error.

### Editor and Session

`ed` is `editor_state_t`, with the rows in use as a sequence of lines; `stored`
is a history variable, the text as opened or last stored in the file. `Edit` is
the shell's `edit`; the file's text is any member of `Files`, and a save asks
the environment whether a writable file was there (`writable`).
`TypeCommand` admits any character at any time, since with the US layout the
arrow keys carry one, read past the end of the table.

`editor_draw` paints the rows in view and the cursor. A row's text starts in column
`TEXT_COLUMN`, behind the number of its line, and the cursor is painted at that
column plus `cursor_x`. Five columns and a full row of 75 are exactly the screen's 80
(`EditorAssumption`), so after the last character of a full row the cursor is painted
in the first column of the next screen row (`Cell`); `MoveShowsCursor` names that case.

Joining two lines that do not fit in a row writes into the row below; the model
sets `overrun` and stops there, because every later step would read rows without
an end. All statements about the editor are about behaviours up to that point,
and `MCEditor_doc_row.cfg` shows the point is reached.

`Session` has no rules of its own for editing or for files: it takes the keys
from `Editor` and the commands from `Shell`, opens what `fs_read_file` returns
(up to the first `'\0'`), and answers a save with what `fs_write_file` returned.
`edit` with an operand reads the file; without one the name is `untitled.txt`
and nothing is read. Its shell stays in the root directory (`Command` has no `cd`), so
its path never overruns.

### Boot

A step of `kernel_main` is one port access, or a sequence of writes the handler
cannot observe half-way; `pc` names the place. The handler is two steps, its read
of port 0x60 and the rest of it, and `kernel_main` stands still meanwhile. What a
key does beyond entering the input is left to `Console`.

The controller and the keyboard are external, taken from how the code uses them:
the controller has one output byte, which stays in its latch after it has been
read; it answers its command 0x20 within the `io_wait()` that follows; it
requests an interrupt when a byte arrives and bit 0 of its configuration is set
(for its own answers it may or may not: both are allowed); the interrupt
controller keeps a request until it is delivered, even when a poll has read the
byte; the keyboard answers 0xFF with ACK and BAT, 0xF4 with ACK, and either
empties its own buffer. The BIOS leaves translation on and the clock running,
with the interrupt on or off and the second port off or not (the configurations
0x45, 0x64 and 0x65).

Two of these are assumptions a run cannot question. `keyboard_init` reads the
configuration byte without looking whether it is there; `AskConfig` puts it there
before the read. And the first wait, for the controller's input buffer
(kernel.c:129), is taken as over: nothing has been written to the controller yet.

`DisablePorts` sets the bits of the configuration for both ports, as the commands
0xAD and 0xA7 do. With translation on, an answer to 0x20 is therefore at least
64 + 32 + 16 = 112, and no table of that size or less (`TABLE_SIZE` is 90 here)
takes it for a key; `NoGhostKey` rests on this and `BootAssumption` says it.

### Terminal, Screen and Paper

A terminal is its row, its column and its cells. `terminal_write` is a loop of
`terminal_putchar`, the recursive function `AfterChars`. `terminal_putentryat` past the
end of a row is the start of the next, and past the last row it goes to memory
that is not shown. `Screen` lets one writer print any character at any time, and
keeps in `gone` the rows that have scrolled off. `Paper` knows no screen: a full
line or a newline starts another line, and no line above the last changes. The
refinement mapping is

    paper <- gone \o SubSeq(term.cells, 1, term.row + 1)
    pen   <- term.column

### Console

A key is one step. `kernel_main`'s `terminal_putchar` is cut where an interrupt
can fall between two accesses that count in `terminal_row` and `terminal_column`. That
a character is painted where the two were read is one step (`StartChar`): a key in
between could misplace that one character of `kernel_main`, which no property is
about. The build
does not optimise (`CFLAGS` has no `-O`), so `++terminal_row == VGA_HEIGHT`
loads, adds, stores, and loads again for the comparison: the steps `Load`,
`Store` and `Test`. A command is what it does to the screen, the layout and the
keyboard's owner; the tables, and which word is which command, are parameters.
`quiet` and `torn` are history variables: the line was typed while `kernel_main`
was idle; a key came while the cursor was off the screen. `EchoTrue` compares
each cell before the cursor, counted back through the rows above it, with the
character that far from the end of the line. `parse_command_args` is the loop
`ParseTurns`, one turn per character; `Split` says what that gives without
a loop: where the words begin and end, and the rest, from which the spaces are lost.
That is the code, not its documentation: `write file.txt "Hello World"` stores
`"HelloWorld"`, and `MCConsole_doc_text.cfg` refutes that the text is kept.

The two shift keys set and clear one flag. Scancodes behind the prefix 0xE0 that look
like a shift key (Print Screen sends E0 2A), which set it too, and a release that is
lost while `keyboard_init` resets the keyboard, are left out; `ShiftReleased` claims
nothing of them.

## Runs

Passing runs:

| Run | Bounds | What it shows |
|---|---|---|
| `shell_tree` | 8 operands (`a`, `b`, `.`, `..`, `/a`, `a/b`, `../a`, and one with a character more than names keep, cut to `a`), paths of at most 7 characters (`a` has 3), 4 files, 2 per directory, a pool of 15 units for nodes of 3 and buffers of 2, `size_t` of 6 values, depth 2 | types, the tree's shape, the prompt as long as the path fits, exact memory accounting; ls, stat, cat and tree show the tree as it is; no single command hides an entry, drops a subtree or counts too far down |
| `shell_data` | plain names, one of them cut by `strncpy`; three texts; buffers of 3 bytes | buffers always end in `'\0'`, failures change nothing old, a move keeps the text |
| `editor_text` | 4 rows of 2 characters, one character, commands of 2 characters, a 2-row view, one column before the text | types, the cursor, the save buffer's size, no change dropped but by `q!`, over any number of editing sessions |
| `editor_order` | the same rows, two characters, no commands | save and reopen, Backspace undoes, a move key brings the cursor back into the view, and it is painted where its line is shown |
| `session` | two names, one entry per directory, a pool for one file and a few lost nodes, 3 rows of 1 character, files of 6 bytes | the editor changes no file but its own, what was saved is what opens, `q` drops nothing that is not in the file |
| `boot` | two keys, each pressed once at any moment; both settings of the BIOS's interrupt bit; three disk reads | the controller is left configured, no answer is taken for a key, each wait ends with its answer when nobody interferes; liveness: no byte stays in the controller, every key typed after start-up arrives, the prompt comes unless the handler reads an answer |
| `screen` | 4 columns, 3 rows, tab stops of 2, one row scrolled off since a clear | the cursor stays on the screen, nothing is below it, and the terminal implements `Paper` |
| `console` | 2 by 2 cells, a line of 3 characters, words of 2, lines of 6 for the parser, counters followed one past the screen | the cursor is back on the screen after each character unless a key came in the window where it was not; the line shown is the line in the buffer; the parser returns what its declarative definition says; shift is off with no shift key down |

The bounds are the constants of the configurations; there is no state constraint
and no symmetry, so each run visits every reachable state of its instance. They
are small enough that each limit (pool, files, entries of a directory, counter,
depth, rows, row length, line, screen edge) is hit in few steps and every error
path is taken, and large enough for the sequences that matter: a removed current
directory whose name is taken again, a move onto and from the same directory, a
name cut to an existing one, a text in which all rows are full, a save into a
full directory, a stale request delivered after two more bytes, a scroll with
the cursor at the right edge. The named bounds that are not the code's are
`MAX_GONE` (a clear sets it back, and the next row scrolls the same way),
`MAX_LINE` and `OFF_SCREEN`; `Boot` bounds the user to one press of each key.
The shell may stop (after a path that overruns, in `shell_tree`), the editor may (after
a row that does), the machine may (after `exit`, after a
disk error, and when `keyboard_init` hangs), so those runs do not check for
deadlock; the others do.

### Fairness

Only `Boot` has something that must happen. Weak fairness of `kernel_main`, of
the delivery of an interrupt and of the handler says that the processor executes
instructions, takes a request when interrupts are on, and runs the handler to
its `iret`, which has no loop that waits. Weak fairness of `SendKeyboard` says
that the controller and the keyboard pass on what they hold. The disk read
may fail each time. The user owes nothing. Of the polling loops only the first,
for the input buffer, is assumed to end.

Runs that refute a statement of the repository (each is a finding):

| Run | Statement | What the code does |
|---|---|---|
| `doc_prompt` | after building and running there is a shell prompt | the handler reads the ACK that `keyboard_init` waits for, and start-up hangs, all fairness granted |
| `doc_screen` | an 80x25 terminal | a newline from the handler between the store and the test of `terminal_row` takes the row past 25; nothing is shown any more until `clear` |
| `doc_saved` | after `wq`, `cat` shows the saved file | an emptied or shortened text comes back with the old bytes |
| `doc_mv` | mv moves a file | with the pool full it deletes the text and reports success |

Eight more configurations, each with one property, refute smaller statements and
can be run the same way:

| Configuration | Statement | What the code does |
|---|---|---|
| `MCShell_doc_mkdir.cfg` | `mkdir projects/test` creates a subdirectory | creates an entry named `projects/test` that no path reaches |
| `MCShell_doc_rmdir.cfg` | rmdir removes an empty directory | `rmdir .` again can unlink a file of that name |
| `MCShell_doc_limit.cfg` | 128 files | `rmdir .` again counts below zero and ends all creation |
| `MCShell_doc_path.cfg` | paths of 256 characters at most | `cd` into nested directories with long names writes past `current_path` |
| `MCConsole_doc_text.cfg` | `write file.txt "Hello World"` writes that text | it writes the text without its spaces |
| `MCEditor_doc_wq.cfg` | `wq` saves and quits | it saves and stays |
| `MCEditor_doc_row.cfg` | rows of 76 characters | a join writes past its row |
| `MCEditor_doc_view.cfg` | the editor shows line numbers on the left | after d the view can lie below the text: no line is shown at all |

What `MCShell_doc_path.cfg` and `MCConsole_doc_text.cfg` refute is a finding as well. It
is listed with the passing run whose property says what the code does instead:
`PromptIsTrue` of `shell_tree`, `ParserSplits` of `console`.

Met while modelling, in the operators, without a run of their own:

* `write` and the editor print an error after storing a non-empty text, because
  they compare a byte count with 0 (`cmd_write`, `editor_save_file`); `cp` and
  `mv` to a plain name use the root directory (`fs_get_parent_path`); a
  63-character name is cut to 62 and is not found as typed (`Truncate`).
* A file with a line too long for the editor's row is opened cut, unmodified,
  and `w` writes the cut text over its start. In a full directory each `w` leaves
  a node behind. At the end of a full row the cursor is painted at the start of the
  next (`Cell`).
* A key between 0xAE and 0xFF is taken for the keyboard's ACK, and each later
  answer for the one before (`Take`). A request left behind by a poll makes the
  handler read the port again: it can type a key twice (`NoGhostKey` says which
  keys cannot be). The configuration byte is read without waiting for it.
* Backspace in the shell does nothing: its branch is for scancodes beyond the
  table (kernel.c:433). With the US layout the arrow keys read the memory behind
  the table. The prompt is printed over the editor's first line until the next
  key. Releasing one shift key while the other is held turns shift off.

## Proofs

All theorems are for every value of the constants that satisfies the named
assumptions, and TLC evaluates those on every run. Each inductive invariant was
checked by TLC on the instances of the runs before it was proved.

### Shell and file system

The assumptions are positive sizes, a root that fits the pool, names that are not
`""`, `"."` or `".."`, and operands and texts that the parser can produce. An
operand is not empty (`OperandAssumption`): with an empty one every command only
prints a message, and it fits the copy of a path (`PathAssumption`).

| Theorem of `ShellProofs` | Statement |
|---|---|
| `AlwaysSound` | `Spec => []Inv`, the inductive invariant |
| `TypeCorrect` | `Spec => []TypeOK` |
| `TreeKept` | `Spec => []TreeShape` |
| `PoolAccounted` | `Spec => []MemoryExact` |
| `ReadStopsInBuffer` | `Spec => []ReadEndsInBuffer` |
| `FailureHarmless` | `Spec => []FailureLeavesTree` |
| `MoveMovesText` | `Spec => []MoveKeepsText` |
| `ReadersTellTheSame` | `Spec => []ReadersAgree` |
| `PathsStay` | `Spec => ResolutionStable` |
| `CountNotBehind` | `Spec => CountKeepsUp` |
| `LosesLeaf` | `Spec => LosesOneLeaf` |
| `PromptTrue` | `Spec => []PromptIsTrue` |
| `TreePrintsIt` | `Spec => []TreePrintsTree` |

`Inv` is `Sound(fs)`, that is `Good(fs)` and `Filed(fs)`.

`Good`: well-typed, and the four parts of the tree's shape together. Neither half
is inductive alone. Types need the shape: `..` yields a node only because every
directory that can be reached has a parent, which is what `AnchoredDirs` and
`ParentsOlder` say of removed directories as well. The shape needs the types, and
uniqueness of names needs `ChildrenLinked`, since removing by name removes the
right entry only if names are unique, and renumbering `children` keeps names
unique only if each entry's parent is its directory.

`Filed`: the pool is accounted for (`Exact`), every buffer belongs to a regular
file, ends in `'\0'` and holds no `'\0'` before `size` (`Ended`), and what has no
buffer has no size (`NoSize`). The last is what makes a copy of such a file, and
so `mv`, harmless.

`FileSystemProofs` has one lemma per operator: resolving a path ends at a node
with a parent or nowhere (`ResolveAttached`), creating, adding, removing,
deleting, writing, copying, moving and changing directory preserve `Good` and
`Filed`. `ShellProofs` then brings every command to one of a few forms: nothing
changed, a node was made and abandoned (`Abandoned`), made and entered (`Grown`),
an entry was dropped (`Dropped`), a buffer was written (`Written`), the current
directory changed (`Moved`). The action properties follow from the form alone. A
path resolves as before after `Grown` because the look-up returns the first entry
of a name and names are unique; after `Dropped` one entry of a directory is gone
and the set of nodes that can be reached loses nothing that was not below it.

`LosesOneLeaf` needs one invariant more. The shell may stand in a directory that
has been removed, and `rmdir .` goes by the name: it takes out whatever has that
name in the former parent. That this cannot be a directory with entries is
`Standing`: the current directory and all directories above it are in their
parents, or nothing but files have taken their names (`AlwaysStanding`). A
directory cannot have taken the name: only `mkdir` makes one, in the current
directory, so the shell has to go to the parent first, and from there no path
leads back into the removed directory.

`PromptIsTrue` needs another, `Addressed` (`AlwaysAddressed`), which holds whether
or not the current directory has been removed. The path is what going up from the
current directory gathers, although only `cd` writes it: no other command touches
`current_dir` or `current_path` (`NextStill`), and none changes a node's name or
parent (`StepKept`). The names are single segments other than `.` and `..`:
`mkdir a/b` and `mkdir ..` make directories with other names, but no path leads
into those (`NamedWalkable`). And no directory has the empty name, which a path
would lose at its end. If the current directory can be reached, the entries on the
way are then found one by one, names being unique (`WalkDown`). The names are what `cd`
wrote only while they fit `current_path`: without that last condition the property is
false of the code.

`TreePrintsTree` follows from `Sound` alone. `tree_print_node` calls itself on the
entries of a node; that this defines a printout at all is shown from the youngest
node to the oldest, since an entry is younger than its directory (`Prints`,
`NodePrints`). `Printout` says what the printout of a node is: the node, then lines
that each name an entry of an earlier line, one step further in, with nothing
shallower between; it names everything `Under` the node and nothing twice. The
printouts of two entries have no node in common, because a node has one parent
(`UnderApart`), so a directory's is one again (`Turns`), and what is under the root
is what can be reached (`UnderRoot`).

### Editor

For every buffer of at least two rows of at least two bytes, every alphabet
without the newline, every set of files and every screen as wide as a full row
behind the margin:

| Theorem of `EditorProofs` | Statement |
|---|---|
| `EditorTypeCorrect` | `Spec => []TypeOK` |
| `CursorKept` | `Spec => []CursorInText` |
| `ChangesKept` | `Spec => QuitKeepsWork` |
| `CursorShown` | `Spec => []MoveShowsCursor` |
| `TypingUndone` | `Spec => []BackspaceUndoes` |
| `SavedComesBack` | `Spec => []SavedTextOpens` |
| `SaveHolds` | `Spec => []SaveFits` |

The inductive invariant, also called `Inv`, is `EdOK(ed)` (types and cursor),
`stored \in Texts` and `Honest`: an unmodified text is the stored one. Types
need the cursor, because a split, a join and a deletion cut the text where the
cursor is; the cursor needs the types, because it is clipped against the lines.
`Honest` is what makes leaving on `q` safe, and it needs that every editing key
sets `modified`. One lemma per key function shows that the key `Keeps` all
three; `OpenText`, over the loop of `editor_open`, shows that any file becomes a
text that fits the buffer, and `CommandResult` says what a command may change.
The other four follow from `Inv`. `SavedComesBack` is an induction over lines
within which there is one over characters: `ReadLine` says what the loop of
`editor_open` has read after one more line of `content`.

### Shell, editor and file system together

The assumptions are those of `Shell` and `Editor`, for an alphabet that has the
newline and for file names that are operands or `untitled.txt`, and two more. A
file has room for the editor's text (`FitAssumption`: 50 rows of 76 bytes in 4096).
A name keeps all segments of its operand but one that is empty and last
(`NamesAssumption`): a name is cut to 62 characters, and the parser cuts a first
operand to 63, so at most its last character is lost. If a name could lose more,
saving as `a/../b` could make an entry `a`, and the path, which led nowhere, would
then lead to an older file `b` that does not hold the text.

| Theorem of `SessionProofs` | Statement |
|---|---|
| `AlwaysFaithful` | `Spec => []Inv`, the inductive invariant |
| `SessionTypeCorrect` | `Spec => []TypeOK` |
| `TouchesItsFile` | `Spec => OnlyItsFile` |
| `ReopenFaithful` | `Spec => ReopenShows` |
| `QuitFaithful` | `Spec => QuitKeepsFile` |

`Inv` is `Sound` of the file system, `EdOK` of the editor and `Faithful`: a text that
is not marked modified is what opening its file shows, or what the file starts
with. The disjunction is needed. The first part is true when a file has been
opened, also of one too long for the editor's rows, which does not start with what
is shown. Only the second is true after a save that reports success: it is one of
an empty text, which leaves the old bytes in the buffer. And a save that reports an
error, of an unmodified text, turns the first into the second, or changes nothing.

`ShellProofs` and `EditorProofs` are instances here, with Session's values in place
of their constants; their operators are shown to be those of `Sh` and `Ed`
(`SameNames` to `SamePrefix`), and their assumptions to follow (`FileAssumptions`,
`EditorAssumptions`). Four lemmas carry the argument. `SaveKeeps` of `ShellProofs`:
after a save the path leads to the node written, or to none, and a reader of that
node finds the text first. Its hard case is the file that did not exist: the path
that found nothing then finds the new entry only if the cut name is one segment
that the path ends in (`NewFound`). `ContentFits` says that the text is not cut on
the way. `PrefixOpens` of `EditorProofs`: opening a file that starts with a text
shows all its lines but the last, and something that starts with the last.
`KeyKeeps` says that a key changes the text only with `modified` set.

### Terminal

For every width, every height of at least two rows, every tab stop and every set
of characters:

| Theorem of `ScreenProofs` | Statement |
|---|---|
| `ScreenTypeCorrect` | `Spec => []TypeOK` |
| `NothingBelow` | `Spec => []BelowBlank` |
| `ScreenImplementsPaper` | `Spec => ImplementsPaper`, the refinement |

The inductive invariant is the two invariants together. A step down the screen
appends a *blank* line to the roll only because nothing was below the cursor,
and that is true after a scroll only because the cursor is in the last row. The
argument has two halves. `PutNewline` to `PutGlyph` bring each kind of character
to one form, `Writes(t, l, x)`: the cursor's row becomes `l` and the cursor goes
to column `x`, or to the next row if `x` is beyond the edge. `Written` shows that
this form does to `gone \o SubSeq(term.cells, 1, term.row + 1)` what `WriteLine` of
`Paper` does to the paper, in three cases: the same row, the next row, a scroll.

### Start-up

For every set of character keys, every configuration of the BIOS with translation
on and the clock running, every table of at most 112 entries and every number of
disk reads:

| Theorem of `BootProofs` | Statement |
|---|---|
| `TypeCorrect` | `Spec => []TypeOK` |
| `ConfigurationKept` | `Spec => []TranslationKept` |
| `AnswersInOrder` | `Spec => []AnswersRead` |
| `KeysAsPressed` | `Spec => []NoGhostKey` |

`Inv` is `TypeOK` with four parts. `Translating`: which byte is in the latch while
`keyboard_init` asks for the configuration, for no key can come between the
disabling of the port and the read, though the handler may read the answer first.
`Answering`: which answers are still to come in each of the waits, if nothing
interfered. `InOrder`: keys typed, in the handler, in the latch and in the
keyboard's buffer are in the order in which they were pressed. `NoRepeat`: a key
pressed after start-up is in only one of these places, because no poll is left
that could take a byte and leave its request behind.

### Console

For every size of the screen, every keyboard, table, set of commands, prompt and
output:

| Theorem of `ConsoleProofs` | Statement |
|---|---|
| `TypeCorrect` | `Spec => []TypeOK` |
| `CursorComesBack` | `Spec => []CursorSettles` |
| `EchoIsInput` | `Spec => []EchoTrue` |
| `ShiftComesOff` | `Spec => []ShiftReleased` |
| `ParserIsSplit` | for *every* line, `parse_command_args` returns `Split` |
| `ParserKeepsWords` | `Spec => []ParserSplits` |

The invariant says, for each place at which `kernel_main` can be inside
`terminal_putchar`, how far the row, the column and the register may be off the
screen as long as no key came there. `EchoIsInput` needs that a character printed
moves every cell before the cursor one further back, through a wrap and a scroll.
`ParserIsSplit` is the loop's invariant, `Stage`: after `i` characters the parser
has what `Split` gives of them, and is in the state that the ends of the words
(`WordBounds`) prescribe.

### Loops

The installed provers cannot instantiate an induction theorem, so the loops of the
model (`fs_resolve_path`, `fs_update_current_path`, `editor_open`, `content`,
`terminal_write`, `parse_command_args`, and `FlattenSeq` of the library) are
recursive functions, and what they compute is proved by a least counterexample:
the set of indices at which the claim fails has a least element (`LeastNat`), it
is not the first, and the turn before it has kept the claim (`UpTo`, `StepByStep`).
That such a function exists at all is shown the same way.

### Only model-checked

The liveness properties of `Boot`, under fairness, which is out of the prover's
reach, and every refuted statement.

## Not modelled

* The editor after a join has overrun its row. From there on rows have no end,
  and what the next key reads depends on the layout of `editor_state_t`.
* The contents of the interrupt descriptor table and the register save of the
  stub; A20, the descriptor table and the mode switch of the boot loader:
  straight-line hardware set-up without state a property could relate.
* The shell after a `cd` has overrun `current_path`: what lies behind it depends on
  the layout of the kernel's data.
* Colours and wording. The four keyboard tables are a parameter.
* What the boot loader prints, on the screen and on the serial line.

## Plan

1. `Tree`: an abstract specification, a partial function from paths to
   directories and texts, and `Shell` shown to implement it as long as no
   directory is removed from under the shell.
2. Editor rows as flat memory, to say what an overrun really does.
