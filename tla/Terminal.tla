------------------------------- MODULE Terminal -------------------------------
(***************************************************************************)
(* The VGA text terminal of src/kernel/kernel.c.                           *)
(*                                                                         *)
(* Every terminal_ function is an operator on a terminal t: terminal_row   *)
(* and terminal_column, counted from 0, and the cells of terminal_buffer   *)
(* as rows, counted from 1.  Colours are left out: they are written with   *)
(* every cell and never read.  The module has no variable of its own;      *)
(* module Screen is the terminal with one writer, module Console the one   *)
(* that kernel_main and the interrupt handler share.                       *)
(***************************************************************************)
EXTENDS Integers, SequencesExt

CONSTANTS
    VGA_WIDTH,
    VGA_HEIGHT,
    TAB_STOP,       \* 4
    Glyph,          \* the characters that are painted
    SPACE           \* one of them, ' '

NL == "NL"
CR == "CR"
TAB == "TAB"
BS == "BS"
Control == {NL, CR, TAB, BS}

ASSUME TerminalAssumption ==
    /\ VGA_WIDTH \in Nat \ {0}
    /\ VGA_HEIGHT \in Nat /\ VGA_HEIGHT > 1
    /\ TAB_STOP \in Nat \ {0}
    /\ SPACE \in Glyph
    /\ Glyph \cap Control = {}

Row == [1..VGA_WIDTH -> Glyph]

(* A terminal whose cursor is on the screen. *)
OnScreen(t) == t.row \in 0..(VGA_HEIGHT - 1) /\ t.column \in 0..(VGA_WIDTH - 1)

BlankRow == [x \in 1..VGA_WIDTH |-> SPACE]

BlankCells == [y \in 1..VGA_HEIGHT |-> BlankRow]

terminal_initialize == [row |-> 0, column |-> 0, cells |-> BlankCells]

(* Faulty: the last row is forgotten. *)
terminal_clear_short(t) ==
    [t EXCEPT !.row = 0, !.column = 0,
              !.cells = [y \in 1..VGA_HEIGHT |-> IF y < VGA_HEIGHT THEN BlankRow ELSE @[y]]]

terminal_clear(t) == [t EXCEPT !.row = 0, !.column = 0, !.cells = BlankCells]

(* Outside the screen the entry goes to video memory that is not shown,    *)
(* but a column past the right end is the start of the next row.           *)
terminal_putentryat(cells, c, x, y) ==
    LET row == y + (x \div VGA_WIDTH)
    IN  IF row < VGA_HEIGHT
        THEN [cells EXCEPT ![row + 1][(x % VGA_WIDTH) + 1] = c]
        ELSE cells

(* Faulty: the bottom row is not cleared. *)
terminal_scroll_copy(t) ==
    [t EXCEPT !.cells = [y \in 1..VGA_HEIGHT |->
                            t.cells[IF y < VGA_HEIGHT THEN y + 1 ELSE y]],
              !.row = VGA_HEIGHT - 1]

terminal_scroll(t) ==
    [t EXCEPT !.cells = [y \in 1..VGA_HEIGHT |->
                            IF y < VGA_HEIGHT THEN t.cells[y + 1] ELSE BlankRow],
              !.row = VGA_HEIGHT - 1]

(* ++terminal_row, and a scroll when that is exactly VGA_HEIGHT. *)
NextRow(t) ==
    LET down == [t EXCEPT !.row = @ + 1]
    IN  IF down.row = VGA_HEIGHT THEN terminal_scroll(down) ELSE down

(* The column a tab leads to, (column + 4) & ~3. *)
TabColumn(column) == ((column \div TAB_STOP) + 1) * TAB_STOP

(* Faulty: a tab in the last stop does not go to the next row. *)
terminal_putchar_tab(t, c) ==
    CASE c = NL  -> NextRow([t EXCEPT !.column = 0])
      [] c = CR  -> [t EXCEPT !.column = 0]
      [] c = TAB -> [t EXCEPT !.column = TabColumn(@)]
      [] c = BS  -> IF t.column = 0 THEN t
                    ELSE [t EXCEPT !.column = @ - 1,
                                   !.cells = terminal_putentryat(@, SPACE, t.column - 1, t.row)]
      [] OTHER   -> LET put == [t EXCEPT !.column = @ + 1,
                                         !.cells = terminal_putentryat(@, c, t.column, t.row)]
                    IN  IF put.column = VGA_WIDTH
                        THEN NextRow([put EXCEPT !.column = 0]) ELSE put

terminal_putchar(t, c) ==
    CASE c = NL  -> NextRow([t EXCEPT !.column = 0])
      [] c = CR  -> [t EXCEPT !.column = 0]
      [] c = TAB -> IF TabColumn(t.column) >= VGA_WIDTH
                    THEN NextRow([t EXCEPT !.column = 0])
                    ELSE [t EXCEPT !.column = TabColumn(@)]
      [] c = BS  -> IF t.column = 0 THEN t
                    ELSE [t EXCEPT !.column = @ - 1,
                                   !.cells = terminal_putentryat(@, SPACE, t.column - 1, t.row)]
      [] OTHER   -> LET put == [t EXCEPT !.column = @ + 1,
                                         !.cells = terminal_putentryat(@, c, t.column, t.row)]
                    IN  IF put.column = VGA_WIDTH
                        THEN NextRow([put EXCEPT !.column = 0]) ELSE put

(* terminal_write and terminal_writestring: one character after the other, *)
(* the terminal after i of them.                                           *)
AfterChars(t, data) ==
    LET after[i \in 0..Len(data)] ==
            IF i = 0 THEN t ELSE terminal_putchar(after[i - 1], data[i])
    IN  after

terminal_write(t, data) == AfterChars(t, data)[Len(data)]

===============================================================================
