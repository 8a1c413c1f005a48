-------------------------------- MODULE Console --------------------------------
(***************************************************************************)
(* Keyboard, command line and screen: keyboard_handler and what it calls   *)
(* (parse_command_args, process_command, shell_prompt), interrupting       *)
(* kernel_main while that still prints its last lines and the prompt.      *)
(*                                                                         *)
(* A key is one step: the handler runs to its end with interrupts off.     *)
(* kernel_main's terminal_putchar is cut where an interrupt can fall       *)
(* between two accesses that count in terminal_row and terminal_column;    *)
(* the build (gcc without optimisation) loads, adds, stores and loads      *)
(* again for `++terminal_row == VGA_HEIGHT`.  Reading where a character    *)
(* goes and painting it is one step: a key in between could only misplace  *)
(* that one character, and no property is about characters of kernel_main  *)
(* that a key has interrupted.                                             *)
(*                                                                         *)
(* What commands print is any text of Output; what they do to files is     *)
(* module Shell.  The editor is module Editor: here a key either leaves it *)
(* or not.                                                                 *)
(***************************************************************************)
EXTENDS Terminal

CONSTANTS
    Key,                    \* keys other than shift and caps lock
    Ascii(_, _, _),         \* the tables: layout is German, shift, key
    Upper(_),               \* the capital of a letter a-z, else the same
    Meaning(_, _),          \* what process_command does for cmd and arg1
    Output,                 \* what a command may print
    Prompt,                 \* what shell_prompt prints
    Banner,                 \* what kernel_main prints before it
    EDITOR,                 \* the glyph that stands for the editor's screen
    MAX_INPUT,              \* sizeof(input_buffer) - 1
    MAX_WORD,               \* 63
    MAX_LINE,               \* bound: the length of the lines parsed as a test
    OFF_SCREEN              \* bound: rows and columns followed past the screen

NUL == "NUL"                \* '\0', a key without a character
Shift == {"SCANCODE_LEFT_SHIFT", "SCANCODE_RIGHT_SHIFT"}

ASSUME ConsoleAssumption ==
    /\ NUL \notin Glyph
    /\ \A g, s \in BOOLEAN, k \in Key : Ascii(g, s, k) \in Glyph \cup {NL, NUL}
    /\ \A c \in Glyph : Upper(c) \in Glyph
    /\ Prompt \in Seq(Glyph) /\ Banner \in Seq(Glyph \cup {NL})
    /\ \A o \in Output : o \in Seq(Glyph \cup {NL})
    /\ EDITOR \in Glyph
    /\ MAX_INPUT \in Nat \ {0} /\ MAX_WORD \in Nat \ {0}
    /\ MAX_LINE \in Nat /\ OFF_SCREEN \in Nat

VARIABLES
    term,           \* the terminal
    kpc,            \* where kernel_main is in terminal_putchar
    ktext,          \* what it has still to print
    reg,            \* the register it counts in, between load and store
    shift_pressed,
    caps_lock,
    use_german_layout,
    input,          \* input_buffer up to input_length
    editor_active,
    halted,         \* after exit
    held,           \* the shift keys that are down
    quiet,          \* history: the line was typed while kernel_main was idle
    torn            \* history: a key came while the cursor was off the screen

kernel == <<kpc, ktext, reg>>
keys   == <<shift_pressed, caps_lock, held>>
line   == <<input, editor_active, use_german_layout, halted>>
hist   == <<quiet, torn>>
vars   == <<term, kernel, keys, line, hist>>

-------------------------------------------------------------------------------
(* parse_command_args: one turn of its loop, on what it has read so far.   *)
(* The operand after the first gets every character but the spaces.        *)

(* Faulty: the space between two words goes into the second. *)
ParseChar_keeps_space(p, c) ==
    LET Add(s) == IF Len(s) < MAX_WORD THEN Append(s, c) ELSE s
    IN  CASE p.state = 0 /\ c = SPACE -> [p EXCEPT !.state = 1]
          [] p.state = 0 /\ c # SPACE -> [p EXCEPT !.cmd = Add(@)]
          [] p.state = 1 -> [p EXCEPT !.arg1 = <<c>>, !.state = 2]
          [] p.state = 2 /\ c = SPACE -> [p EXCEPT !.state = 3]
          [] p.state = 2 /\ c # SPACE -> [p EXCEPT !.arg1 = Add(@)]
          [] p.state = 3 /\ c # SPACE -> [p EXCEPT !.arg2 = <<c>>, !.state = 4]
          [] p.state = 4 /\ c # SPACE -> [p EXCEPT !.arg2 = Add(@)]
          [] OTHER -> p

ParseChar(p, c) ==
    LET Add(s) == IF Len(s) < MAX_WORD THEN Append(s, c) ELSE s
    IN  CASE p.state = 0 /\ c = SPACE -> [p EXCEPT !.state = 1]
          [] p.state = 0 /\ c # SPACE -> [p EXCEPT !.cmd = Add(@)]
          [] p.state = 1 /\ c # SPACE -> [p EXCEPT !.arg1 = <<c>>, !.state = 2]
          [] p.state = 2 /\ c = SPACE -> [p EXCEPT !.state = 3]
          [] p.state = 2 /\ c # SPACE -> [p EXCEPT !.arg1 = Add(@)]
          [] p.state = 3 /\ c # SPACE -> [p EXCEPT !.arg2 = <<c>>, !.state = 4]
          [] p.state = 4 /\ c # SPACE -> [p EXCEPT !.arg2 = Add(@)]
          [] OTHER -> p

(* What it has read after each turn. *)
ParseTurns(command) ==
    LET after[i \in 0..Len(command)] ==
            IF i = 0 THEN [state |-> 0, cmd |-> << >>, arg1 |-> << >>, arg2 |-> << >>]
            ELSE ParseChar(after[i - 1], command[i])
    IN  after

parse_command_args(command) == ParseTurns(command)[Len(command)]

-------------------------------------------------------------------------------
(* The handler.  It runs only between two steps of kernel_main.            *)

(* kernel_main has printed all it prints and waits for interrupts. *)
Idle == kpc = "char" /\ ktext = << >>

(* Once a counter has passed the end of the screen unnoticed, nothing but  *)
(* a clear brings it back; it is followed for OFF_SCREEN more.             *)
Interrupt ==
    /\ ~halted
    /\ term.row < VGA_HEIGHT + OFF_SCREEN /\ term.column < VGA_WIDTH + OFF_SCREEN
    /\ torn' = (torn \/ ~OnScreen(term))
    /\ UNCHANGED kernel

(* Faulty: only the left shift key is looked for when a key is released. *)
ShiftKey_left(k, released) ==
    /\ Interrupt
    /\ (k \in held) = released
    /\ held' = IF released THEN held \ {k} ELSE held \cup {k}
    /\ shift_pressed' = IF released /\ k # "SCANCODE_LEFT_SHIFT"
                        THEN shift_pressed ELSE ~released
    /\ UNCHANGED <<term, caps_lock, line, quiet>>

(* Either shift key sets the flag, its release clears it.  Every release   *)
(* reaches the handler here, and no scancode but those of the two keys     *)
(* masks to theirs; see ShiftReleased.                                     *)
ShiftKey(k, released) ==
    /\ Interrupt
    /\ (k \in held) = released
    /\ held' = IF released THEN held \ {k} ELSE held \cup {k}
    /\ shift_pressed' = ~released
    /\ UNCHANGED <<term, caps_lock, line, quiet>>

CapsLock ==
    /\ Interrupt
    /\ caps_lock' = ~caps_lock
    /\ UNCHANGED <<term, shift_pressed, held, line, quiet>>

(* The character of a key: shift chooses the table, caps lock turns the    *)
(* lower-case letters that come out of it into capitals.                   *)
CharOf(k) ==
    LET ascii == Ascii(use_german_layout, shift_pressed, k)
    IN  IF caps_lock /\ ascii \in Glyph THEN Upper(ascii) ELSE ascii

shell_prompt(t) == terminal_write(t, Prompt)

EditorScreen == [y \in 1..VGA_HEIGHT |-> [x \in 1..VGA_WIDTH |-> EDITOR]]

(* editor_draw clears the terminal, cursor included, and paints over it. *)
editor_draw(t) == [terminal_clear(t) EXCEPT !.cells = EditorScreen]

(* A key in the editor; the one that leaves it brings the prompt back. *)
EditorKey(exits) ==
    /\ Interrupt
    /\ editor_active
    /\ editor_active' = ~exits
    /\ term' = IF exits THEN shell_prompt(terminal_clear(term))
                        ELSE editor_draw(term)
    /\ UNCHANGED <<keys, input, use_german_layout, halted, quiet>>

(* Faulty: the character is shown although the buffer has no room for it. *)
TypeChar_shown(k) ==
    LET c == CharOf(k)
    IN  /\ Interrupt
        /\ ~editor_active /\ c \in Glyph
        /\ input' = IF Len(input) < MAX_INPUT THEN Append(input, c) ELSE input
        /\ term' = terminal_putchar(term, c)
        /\ quiet' = (Idle /\ (input = << >> \/ quiet))
        /\ UNCHANGED <<keys, editor_active, use_german_layout, halted>>

(* Faulty: one character too many fits, over the terminating '\0'. *)
TypeChar_one_more(k) ==
    LET c == CharOf(k)
    IN  /\ Interrupt
        /\ ~editor_active /\ c \in Glyph /\ Len(input) <= MAX_INPUT
        /\ input' = Append(input, c)
        /\ term' = terminal_putchar(term, c)
        /\ quiet' = (Idle /\ (input = << >> \/ quiet))
        /\ UNCHANGED <<keys, editor_active, use_german_layout, halted>>

(* A character of the shell's line, as long as the buffer has room.  The   *)
(* keys without a character, Backspace among them, do nothing.             *)
TypeChar(k) ==
    LET c == CharOf(k)
    IN  /\ Interrupt
        /\ ~editor_active /\ c \in Glyph /\ Len(input) < MAX_INPUT
        /\ input' = Append(input, c)
        /\ term' = terminal_putchar(term, c)
        /\ quiet' = (Idle /\ (input = << >> \/ quiet))
        /\ UNCHANGED <<keys, editor_active, use_german_layout, halted>>

(* What is on the screen when process_command returns to the handler. *)
AfterCommand(t, effect, out) ==
    CASE effect = "clear" -> terminal_clear(t)
      [] effect = "edit"  -> editor_draw(t)
      [] OTHER            -> terminal_write(t, out)

(* The layout after kbd de, kbd us or anything else. *)
cmd_kbd(effect) ==
    CASE effect = "de" -> TRUE [] effect = "us" -> FALSE
      [] OTHER -> use_german_layout

(* Enter: the command, then a prompt, the editor's first screen included.  *)
(* An empty line is no command; exit stops the processor in the handler.   *)
Enter(k, out) ==
    LET p      == parse_command_args(input)
        effect == IF input = << >> THEN "print" ELSE Meaning(p.cmd, p.arg1)
        shown  == AfterCommand(terminal_putchar(term, NL), effect, out)
    IN  /\ Interrupt
        /\ ~editor_active /\ CharOf(k) = NL
        /\ input = << >> => out = << >>
        /\ term' = IF effect = "exit" THEN shown ELSE shell_prompt(shown)
        /\ input' = IF effect = "exit" THEN input ELSE << >>
        /\ halted' = (effect = "exit")
        /\ editor_active' = (effect = "edit")
        /\ use_german_layout' = cmd_kbd(effect)
        /\ quiet' = TRUE
        /\ UNCHANGED keys

-------------------------------------------------------------------------------
(* kernel_main from the end of keyboard_init: Banner and Prompt through    *)
(* terminal_putchar, one access to the shared counters at a time.          *)

Kernel(from, to) ==
    /\ ~halted
    /\ kpc = from
    /\ kpc' = to
    /\ UNCHANGED <<keys, line, hist>>

(* Without '\n' a character is painted, at the place that was read in the  *)
(* same step, before the column is counted.                                *)
StartChar ==
    /\ ktext # << >>
    /\ Kernel("char", IF Head(ktext) = NL THEN "load row" ELSE "load column")
    /\ ktext' = Tail(ktext)
    /\ term' = IF Head(ktext) = NL THEN [term EXCEPT !.column = 0]
               ELSE [term EXCEPT !.cells =
                        terminal_putentryat(@, Head(ktext), term.column, term.row)]
    /\ UNCHANGED reg

Load ==
    \/ Kernel("load column", "store column") /\ reg' = term.column /\ UNCHANGED <<ktext, term>>
    \/ Kernel("load row", "store row") /\ reg' = term.row /\ UNCHANGED <<ktext, term>>

Store ==
    \/ /\ Kernel("store column", "test column")
       /\ term' = [term EXCEPT !.column = reg + 1]
       /\ reg' = 0 /\ UNCHANGED ktext
    \/ /\ Kernel("store row", "test row")
       /\ term' = [term EXCEPT !.row = reg + 1]
       /\ reg' = 0 /\ UNCHANGED ktext

(* The test loads the counter again. *)
TestColumn ==
    /\ Kernel("test column", IF term.column = VGA_WIDTH THEN "wrap" ELSE "char")
    /\ UNCHANGED <<ktext, reg, term>>

Wrap ==
    /\ Kernel("wrap", "load row")
    /\ term' = [term EXCEPT !.column = 0]
    /\ UNCHANGED <<ktext, reg>>

(* Faulty: the row after the last is taken for one of the screen. *)
TestRow_late ==
    /\ Kernel("test row", IF term.row > VGA_HEIGHT THEN "scroll" ELSE "char")
    /\ UNCHANGED <<ktext, reg, term>>

TestRow ==
    /\ Kernel("test row", IF term.row = VGA_HEIGHT THEN "scroll" ELSE "char")
    /\ UNCHANGED <<ktext, reg, term>>

Scroll ==
    /\ Kernel("scroll", "char")
    /\ term' = terminal_scroll(term)
    /\ UNCHANGED <<ktext, reg>>

-------------------------------------------------------------------------------
(* kernel_main has printed its first lines: the cursor may be anywhere.    *)
Init ==
    /\ \E y \in 0..(VGA_HEIGHT - 1) : term = [terminal_initialize EXCEPT !.row = y]
    /\ kpc = "char" /\ ktext = Banner \o Prompt /\ reg = 0
    /\ shift_pressed = FALSE /\ caps_lock = FALSE /\ held = {}
    /\ input = << >> /\ editor_active = FALSE /\ use_german_layout = TRUE
    /\ halted = FALSE
    /\ quiet = TRUE /\ torn = FALSE

Next ==
    \/ \E k \in Shift, released \in BOOLEAN : ShiftKey(k, released)
    \/ CapsLock
    \/ \E exits \in BOOLEAN : EditorKey(exits)
    \/ \E k \in Key : TypeChar(k) \/ \E out \in Output : Enter(k, out)
    \/ StartChar \/ Load \/ Store \/ TestColumn \/ Wrap \/ TestRow \/ Scroll

Spec == Init /\ [][Next]_vars

-------------------------------------------------------------------------------
(* Properties. *)

(* The type invariant.  While torn, the counters have no bound the code    *)
(* knows of.                                                               *)
TypeOK ==
    /\ term.row \in Nat /\ term.column \in Nat
    /\ term.cells \in [1..VGA_HEIGHT -> Row]
    /\ kpc \in {"char", "load column", "store column", "test column", "wrap",
                "load row", "store row", "test row", "scroll"}
    /\ ktext \in Seq(Glyph \cup {NL}) /\ reg \in Nat
    /\ {shift_pressed, caps_lock, use_german_layout, editor_active, halted,
        quiet, torn} \subseteq BOOLEAN
    /\ input \in Seq(Glyph) /\ Len(input) <= MAX_INPUT
    /\ held \subseteq Shift

(* The counters that kernel_main and the handler share without a lock are  *)
(* on the screen whenever kernel_main is not inside terminal_putchar,      *)
(* unless a key came in the moment they were not.                          *)
CursorSettles == kpc = "char" /\ ~torn => OnScreen(term)

(* How many cells the one in column x of row y is before the cursor. *)
Back(t, y, x) == (t.row - y) * VGA_WIDTH + t.column - x

(* The cells before the cursor show the last characters of s, as many as   *)
(* are on the screen.                                                      *)
Shows(t, s) ==
    \A y \in 0..(VGA_HEIGHT - 1), x \in 0..(VGA_WIDTH - 1) :
        Back(t, y, x) \in 1..Len(s) =>
            t.cells[y + 1][x + 1] = s[Len(s) - Back(t, y, x) + 1]

(* What the user reads is what Enter will execute: the line on the screen, *)
(* up to the cursor, is the line in input_buffer, through wrapping,        *)
(* scrolling, commands, clear, the editor and a full buffer.               *)
EchoTrue ==
    kpc = "char" /\ quiet /\ ~torn /\ ~editor_active /\ ~halted => Shows(term, input)

(* The characters the keys give. *)
Typed == Glyph \cap {Ascii(g, s, k) : g, s \in BOOLEAN, k \in Key}

(* What the code's parser gives of a line: the first word, the second and  *)
(* the rest of the line, from which the spaces are lost, each cut to       *)
(* MAX_WORD characters.  That is not what the documentation says of        *)
(* `write file.txt "Hello World"`: see TextKept.                           *)
Split(command) ==
    LET end   == Len(command) + 1
        e1    == Min({i \in 1..Len(command) : command[i] = SPACE} \cup {end})
        b2    == Min({i \in e1..Len(command) : command[i] # SPACE} \cup {end})
        e2    == Min({i \in b2..Len(command) : command[i] = SPACE} \cup {end})
        tail  == SubSeq(command, e2, Len(command))
        rest  == FlattenSeq([i \in DOMAIN tail |->
                               IF tail[i] = SPACE THEN << >> ELSE <<tail[i]>>])
        Cut(s) == SubSeq(s, 1, Min({Len(s), MAX_WORD}))
    IN  <<Cut(SubSeq(command, 1, e1 - 1)), Cut(SubSeq(command, b2, e2 - 1)), Cut(rest)>>

(* The five states of parse_command_args compute exactly that, for every   *)
(* line the keys can type up to MAX_LINE characters: no character but a    *)
(* space is lost before a word is full, none goes to another word.  The    *)
(* parser reads nothing but the line: it is enough to look while the       *)
(* screen is still blank.                                                  *)
ParserSplits ==
    term = terminal_initialize =>
        \A command \in BoundedSeq(Typed, MAX_LINE) :
            \A p \in {parse_command_args(command)} :
                <<p.cmd, p.arg1, p.arg2>> = Split(command)

(* No capital without a shift key: with neither shift key down the flag is *)
(* off, in the shell and in the editor, whatever order the two keys go     *)
(* down and up in.  Two ways to set it are outside the model: a scancode   *)
(* behind the prefix 0xE0 that looks like a shift key (Print Screen sends  *)
(* E0 2A), and a release that is lost while keyboard_init resets the       *)
(* keyboard.                                                               *)
ShiftReleased == held = {} => ~shift_pressed

-------------------------------------------------------------------------------
(* What the documentation promises and the code does not keep. *)

(* "80x25 color terminal display": when kernel_main is not printing, the   *)
(* cursor is on the screen.                                                *)
TerminalHolds == kpc = "char" => OnScreen(term)

(* "Write text to file", as in `write file.txt "Hello World"`: the text    *)
(* that write stores stands in the line as it was typed.                   *)
TextKept ==
    term = terminal_initialize =>
        \A command \in BoundedSeq(Typed, MAX_LINE) :
            parse_command_args(command).arg2 \in SubSeqs(command)

===============================================================================
