-------------------------------- MODULE Screen --------------------------------
(***************************************************************************)
(* The terminal with one writer: any sequence of characters and clears, as *)
(* commands print them inside the interrupt handler.  Its screen is shown  *)
(* to be the end of an endless roll of paper (module Paper).               *)
(***************************************************************************)
EXTENDS Terminal

CONSTANT MAX_GONE       \* bound: rows that may scroll off the screen

VARIABLES
    term,       \* the terminal
    gone        \* history: the rows that have scrolled off since the last clear

vars == <<term, gone>>

Init == term = terminal_initialize /\ gone = << >>

(* The character takes the cursor from the bottom row to another. *)
Scrolls(t, c) ==
    /\ t.row = VGA_HEIGHT - 1
    /\ \/ c = NL
       \/ c = TAB /\ TabColumn(t.column) >= VGA_WIDTH
       \/ c \in Glyph /\ t.column = VGA_WIDTH - 1

(* terminal_putchar; a scroll takes the top row, as the character leaves   *)
(* it, off the screen.                                                     *)
Put(c) ==
    /\ Scrolls(term, c) => Len(gone) < MAX_GONE
    /\ term' = terminal_putchar(term, c)
    /\ gone' = IF Scrolls(term, c) THEN Append(gone, term.cells[1]) ELSE gone

Clear == term' = terminal_clear(term) /\ gone' = << >>

Next == (\E c \in Glyph \cup Control : Put(c)) \/ Clear

Spec == Init /\ [][Next]_vars

-------------------------------------------------------------------------------
(* Properties. *)

(* The type invariant: after every character the cursor is on the screen,  *)
(* at a column where the next one can be painted.                          *)
TypeOK ==
    /\ term \in [row : 0..(VGA_HEIGHT - 1), column : 0..(VGA_WIDTH - 1),
                 cells : [1..VGA_HEIGHT -> Row]]
    /\ gone \in Seq(Row)

(* Nothing is shown below the cursor's row: a scroll clears the row it     *)
(* frees, and Backspace does not go back a row.                            *)
BelowBlank == \A y \in (term.row + 2)..VGA_HEIGHT : term.cells[y] = BlankRow

Roll == INSTANCE Paper WITH
            Width <- VGA_WIDTH, Tab <- TAB_STOP, Ink <- Glyph, Blank <- SPACE,
            paper <- gone \o SubSeq(term.cells, 1, term.row + 1),
            pen   <- term.column

(* The terminal is a window on a roll of paper: wrapping, tabs, Backspace  *)
(* and scrolling lose and repeat nothing, and no row above the cursor's    *)
(* ever changes.                                                           *)
ImplementsPaper == Roll!Spec

===============================================================================
