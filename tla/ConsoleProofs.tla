---------------------------- MODULE ConsoleProofs -----------------------------
(***************************************************************************)
(* Proofs about Console: for every size of the screen, every keyboard, set *)
(* of commands, prompt and output, the cursor that kernel_main and the     *)
(* keyboard handler share is back on the screen whenever kernel_main is    *)
(* not inside terminal_putchar, unless a key came while it was off it; the *)
(* line on the screen is the line in input_buffer; the shift flag is off   *)
(* when both shift keys are up; and parse_command_args gives of every line *)
(* what Split says.                                                        *)
(***************************************************************************)
EXTENDS Console, Loops, SequenceTheorems

-------------------------------------------------------------------------------
(* The inductive invariant. *)

Cells == [1..VGA_HEIGHT -> Row]

(* A terminal, with its cursor anywhere. *)
Anywhere == [row : Nat, column : Nat, cells : Cells]

(* Where kernel_main leaves the counters between two of its accesses, if   *)
(* no key came while they were off the screen.                             *)
Settling ==
    ~torn =>
      /\ kpc \in {"char", "load column", "store column", "load row", "store row"} => OnScreen(term)
      /\ kpc = "store column" => reg < VGA_WIDTH
      /\ kpc = "store row" => reg < VGA_HEIGHT
      /\ kpc = "test column" => term.row < VGA_HEIGHT /\ term.column <= VGA_WIDTH
      /\ kpc = "wrap" => term.row < VGA_HEIGHT /\ term.column = VGA_WIDTH
      /\ kpc = "test row" => term.row <= VGA_HEIGHT /\ term.column < VGA_WIDTH
      /\ kpc = "scroll" => term.row = VGA_HEIGHT /\ term.column < VGA_WIDTH

(* A line that was typed quietly has been typed since kernel_main stopped  *)
(* printing; there is none in the editor.                                  *)
Echoing ==
    input # << >> =>
      /\ ~editor_active
      /\ quiet /\ ~halted => Idle
      /\ quiet /\ ~halted /\ ~torn => Shows(term, input)

Inv == TypeOK /\ term \in Anywhere /\ Settling /\ Echoing /\ ShiftReleased

-------------------------------------------------------------------------------
(* The terminal's operators, with the cursor anywhere. *)

(* The rows one up, with a blank one at the bottom. *)
Shifted(m) ==
    [y \in 1..VGA_HEIGHT |-> IF y < VGA_HEIGHT THEN m[y + 1] ELSE BlankRow]

(* A terminal is its three fields. *)
LEMMA Fields ==
    ASSUME NEW t \in Anywhere
    PROVE  /\ t = [row |-> t.row, column |-> t.column, cells |-> t.cells]
           /\ t.row \in Nat /\ t.column \in Nat /\ t.cells \in Cells
BY DEF Anywhere

(* A blank row is a row, and a scrolled screen a screen. *)
LEMMA Scrolled ==
    ASSUME NEW m \in Cells PROVE Shifted(m) \in Cells
<1>1. BlankRow \in Row  BY TerminalAssumption DEF BlankRow, Row
<1>2. VGA_HEIGHT \in Nat  BY TerminalAssumption
<1>3. \A y \in 1..VGA_HEIGHT : y < VGA_HEIGHT => m[y + 1] \in Row  BY <1>2 DEF Cells
<1> QED  BY <1>1, <1>3 DEF Shifted, Cells

(* terminal_putentryat writes one cell of the screen, or none. *)
LEMMA PaintedCells ==
    ASSUME NEW m \in Cells, NEW c \in Glyph, NEW x \in Nat, NEW y \in Nat
    PROVE  terminal_putentryat(m, c, x, y) \in Cells
<1> DEFINE row == y + (x \div VGA_WIDTH)
           col == (x % VGA_WIDTH) + 1
<1>1. row \in Nat /\ col \in 1..VGA_WIDTH  BY TerminalAssumption
<1>2. row < VGA_HEIGHT => row + 1 \in 1..VGA_HEIGHT  BY <1>1, TerminalAssumption
<1>3. terminal_putentryat(m, c, x, y) =
        IF row < VGA_HEIGHT THEN [m EXCEPT ![row + 1] = [m[row + 1] EXCEPT ![col] = c]] ELSE m
  BY DEF terminal_putentryat
<1> HIDE DEF row, col
<1>4. row < VGA_HEIGHT => [m[row + 1] EXCEPT ![col] = c] \in Row
  BY <1>1, <1>2 DEF Cells, Row
<1> QED  BY <1>2, <1>3, <1>4 DEF Cells

(* What terminal_scroll makes of a terminal, field by field. *)
LEMMA ScrollIs ==
    ASSUME NEW t \in Anywhere
    PROVE  terminal_scroll(t) =
             [row |-> VGA_HEIGHT - 1, column |-> t.column, cells |-> Shifted(t.cells)]
<1>1. terminal_scroll(t) = [t EXCEPT !.cells = Shifted(t.cells), !.row = VGA_HEIGHT - 1]
  BY DEF terminal_scroll, Shifted
<1> QED  BY <1>1, Fields DEF Anywhere

(* The next row, with a scroll below the last. *)
LEMMA NextRowIs ==
    ASSUME NEW t \in Anywhere
    PROVE  NextRow(t) =
             IF t.row + 1 = VGA_HEIGHT
             THEN [row |-> VGA_HEIGHT - 1, column |-> t.column, cells |-> Shifted(t.cells)]
             ELSE [row |-> t.row + 1, column |-> t.column, cells |-> t.cells]
<1> DEFINE down == [t EXCEPT !.row = @ + 1]
<1>1. /\ down \in Anywhere
      /\ down = [row |-> t.row + 1, column |-> t.column, cells |-> t.cells]
  BY Fields DEF Anywhere
<1>2. NextRow(t) = IF down.row = VGA_HEIGHT THEN terminal_scroll(down) ELSE down
  BY DEF NextRow
<1> HIDE DEF down
<1>3. down.row = t.row + 1 /\ down.column = t.column /\ down.cells = t.cells  BY <1>1
<1> QED  BY <1>1, <1>2, <1>3, ScrollIs

(* A terminal with another column and other cells. *)
LEMMA Moved ==
    ASSUME NEW t \in Anywhere, NEW a, NEW k
    PROVE  [t EXCEPT !.column = a, !.cells = k] = [row |-> t.row, column |-> a, cells |-> k]
<1>1. t = [row |-> t.row, column |-> t.column, cells |-> t.cells]  BY Fields
<1>2. [t EXCEPT !.column = a] = [row |-> t.row, column |-> a, cells |-> t.cells]  BY <1>1
<1>3. [t EXCEPT !.column = a, !.cells = k] = [[t EXCEPT !.column = a] EXCEPT !.cells = k]
  BY <1>1
<1>4. [[row |-> t.row, column |-> a, cells |-> t.cells] EXCEPT !.cells = k] =
        [row |-> t.row, column |-> a, cells |-> k]
  OBVIOUS
<1> QED  BY <1>2, <1>3, <1>4, Zenon

(* A newline. *)
LEMMA PutNewline ==
    ASSUME NEW t \in Anywhere
    PROVE  terminal_putchar(t, NL) = NextRow([row |-> t.row, column |-> 0, cells |-> t.cells])
<1>1. [t EXCEPT !.column = 0] = [row |-> t.row, column |-> 0, cells |-> t.cells]
  BY Fields
<1> QED  BY <1>1 DEF terminal_putchar, NL, CR, TAB, BS

(* The cells after a character is painted at the cursor. *)
Paint(t, c) == terminal_putentryat(t.cells, c, t.column, t.row)

(* A character: painted, and the next column or the next row. *)
LEMMA PutGlyph ==
    ASSUME NEW t \in Anywhere, NEW c \in Glyph
    PROVE  terminal_putchar(t, c) =
             IF t.column + 1 = VGA_WIDTH
             THEN NextRow([row |-> t.row, column |-> 0, cells |-> Paint(t, c)])
             ELSE [row |-> t.row, column |-> t.column + 1, cells |-> Paint(t, c)]
<1> DEFINE put == [t EXCEPT !.column = @ + 1, !.cells = terminal_putentryat(@, c, t.column, t.row)]
           p == [row |-> t.row, column |-> t.column + 1, cells |-> Paint(t, c)]
<1>1. c # NL /\ c # CR /\ c # TAB /\ c # BS  BY TerminalAssumption DEF Control
<1>2. terminal_putchar(t, c) =
        IF put.column = VGA_WIDTH THEN NextRow([put EXCEPT !.column = 0]) ELSE put
  BY <1>1 DEF terminal_putchar
<1>3. put = p
  <2>1. put = [t EXCEPT !.column = t.column + 1, !.cells = Paint(t, c)]  BY DEF Paint
  <2> HIDE DEF put
  <2> QED  BY <2>1, Moved
<1>4. p.column = t.column + 1 /\ [p EXCEPT !.column = 0] = [row |-> t.row, column |-> 0, cells |-> Paint(t, c)]
  OBVIOUS
<1> HIDE DEF put, p
<1> QED  BY <1>2, <1>3, <1>4 DEF p

-------------------------------------------------------------------------------
(* What the operators keep. *)

(* A terminal with its cursor on the screen. *)
Onscreen == {t \in Anywhere : OnScreen(t)}

(* Made of its fields, a terminal is one. *)
LEMMA Made ==
    ASSUME NEW r \in Nat, NEW x \in Nat, NEW m \in Cells,
           NEW t, t = [row |-> r, column |-> x, cells |-> m]
    PROVE  /\ t \in Anywhere
           /\ t.row = r /\ t.column = x /\ t.cells = m
           /\ r < VGA_HEIGHT /\ x < VGA_WIDTH => t \in Onscreen
<1>1. VGA_HEIGHT \in Nat /\ VGA_WIDTH \in Nat  BY TerminalAssumption
<1> QED  BY <1>1 DEF Anywhere, Onscreen, OnScreen

(* The bounds of a cursor on the screen. *)
LEMMA Bounds ==
    ASSUME NEW t \in Anywhere
    PROVE  OnScreen(t) <=> t.row < VGA_HEIGHT /\ t.column < VGA_WIDTH
<1>1. VGA_HEIGHT \in Nat /\ VGA_WIDTH \in Nat  BY TerminalAssumption
<1> QED  BY <1>1, Fields DEF OnScreen

(* NextRow keeps a terminal one, and its cursor on the screen. *)
LEMMA NextRowKeeps ==
    ASSUME NEW t \in Anywhere
    PROVE  NextRow(t) \in Anywhere /\ (OnScreen(t) => NextRow(t) \in Onscreen)
<1>1. /\ t.row \in Nat /\ t.column \in Nat /\ t.cells \in Cells
      /\ Shifted(t.cells) \in Cells
      /\ VGA_HEIGHT \in Nat /\ VGA_HEIGHT - 1 \in Nat /\ VGA_HEIGHT - 1 < VGA_HEIGHT
      /\ t.row + 1 \in Nat
  BY Fields, Scrolled, TerminalAssumption
<1>2. CASE t.row + 1 = VGA_HEIGHT
  <2>1. NextRow(t) = [row |-> VGA_HEIGHT - 1, column |-> t.column, cells |-> Shifted(t.cells)]
    BY <1>2, NextRowIs
  <2> QED  BY <1>1, <2>1, Made, Bounds
<1>3. CASE t.row + 1 # VGA_HEIGHT
  <2>1. NextRow(t) = [row |-> t.row + 1, column |-> t.column, cells |-> t.cells]
    BY <1>3, NextRowIs
  <2>2. OnScreen(t) => t.row + 1 < VGA_HEIGHT /\ t.column < VGA_WIDTH
    BY <1>1, <1>3, Bounds
  <2> QED  BY <1>1, <2>1, <2>2, Made
<1> QED  BY <1>2, <1>3

(* So does terminal_putchar. *)
LEMMA PutKeeps ==
    ASSUME NEW t \in Anywhere, NEW c \in Glyph \cup {NL}
    PROVE  /\ terminal_putchar(t, c) \in Anywhere
           /\ OnScreen(t) => terminal_putchar(t, c) \in Onscreen
<1>1. /\ t.row \in Nat /\ t.column \in Nat /\ t.cells \in Cells
      /\ VGA_WIDTH \in Nat /\ 0 < VGA_WIDTH /\ t.column + 1 \in Nat /\ 0 \in Nat
  BY Fields, TerminalAssumption
<1>2. ASSUME NEW m \in Cells, NEW n, n = [row |-> t.row, column |-> 0, cells |-> m]
      PROVE  NextRow(n) \in Anywhere /\ (OnScreen(t) => NextRow(n) \in Onscreen)
  <2>1. n \in Anywhere /\ n.row = t.row /\ n.column = 0  BY <1>1, <1>2, Made
  <2>2. OnScreen(t) => OnScreen(n)  BY <1>1, <2>1, Bounds
  <2> QED  BY <2>1, <2>2, NextRowKeeps
<1>3. CASE c = NL
  BY <1>1, <1>2, <1>3, PutNewline
<1>4. CASE c \in Glyph
  <2>1. Paint(t, c) \in Cells  BY <1>1, <1>4, PaintedCells DEF Paint
  <2>2. CASE t.column + 1 = VGA_WIDTH
    BY <1>2, <1>4, <2>1, <2>2, PutGlyph
  <2>3. CASE t.column + 1 # VGA_WIDTH
    <3>1. terminal_putchar(t, c) = [row |-> t.row, column |-> t.column + 1, cells |-> Paint(t, c)]
      BY <1>4, <2>3, PutGlyph
    <3>2. OnScreen(t) => t.row < VGA_HEIGHT /\ t.column + 1 < VGA_WIDTH
      BY <1>1, <2>3, Bounds
    <3> QED  BY <1>1, <2>1, <3>1, <3>2, Made
  <2> QED  BY <2>2, <2>3
<1> QED  BY <1>3, <1>4

(* What every character keeps, a text keeps. *)
LEMMA WriteKeeps ==
    ASSUME NEW S, NEW t \in S, NEW data \in Seq(Glyph \cup {NL}),
           \A u \in S, c \in Glyph \cup {NL} : terminal_putchar(u, c) \in S
    PROVE  terminal_write(t, data) \in S
<1> DEFINE n == Len(data)
           Eq(f) == f = [i \in 0..n |->
                           IF i = 0 THEN t ELSE terminal_putchar(f[i - 1], data[i])]
           g == [i \in 1..n |-> [u \in S |-> terminal_putchar(u, data[i])]]
<1>1. n \in Nat /\ \A i \in 1..n : data[i] \in Glyph \cup {NL}
  OBVIOUS
<1>2. g \in Steps(n, S)
  BY <1>1 DEF Steps
<1>3. \E f : Eq(f)
  <2>1. PICK f : Path(n, S, t, g, f)
    <3> HIDE DEF g, n
    <3> QED  BY <1>1, <1>2, StepByStep
  <2>2. ASSUME NEW i \in 1..n PROVE f[i] = terminal_putchar(f[i - 1], data[i])
    <3>1. f[i - 1] \in S  BY <1>1, <2>1, <2>2 DEF Path
    <3> QED  BY <2>1, <3>1 DEF Path
  <2>3. Eq(f)
    <3> HIDE DEF g
    <3> QED  BY <2>1, <2>2 DEF Path
  <2> QED  BY <2>3
<1>4. AfterChars(t, data) = CHOOSE f : Eq(f)
  BY DEF AfterChars
<1> DEFINE w == AfterChars(t, data)
<1>5. Eq(w)
  <2> HIDE DEF Eq
  <2> QED  BY <1>3, <1>4
<1> DEFINE P == {i \in 0..n : w[i] \in S}
<1> HIDE DEF w
<1>6. 0 \in P
  BY <1>1, <1>5
<1>7. ASSUME NEW i \in Nat, i < n, i \in P PROVE i + 1 \in P
  <2>1. w[i + 1] = terminal_putchar(w[i], data[i + 1])
    BY <1>1, <1>5, <1>7
  <2>2. w[i] \in S /\ i + 1 \in 1..n
    BY <1>1, <1>7
  <2> QED  BY <1>1, <2>1, <2>2
<1>8. \A i \in 0..n : i \in P
  <2> HIDE DEF P, n
  <2>1. \A i \in Nat : i < n /\ i \in P => i + 1 \in P
    BY <1>7
  <2> QED  BY <1>1, <1>6, <2>1, UpTo
<1> QED  BY <1>1, <1>8 DEF w, terminal_write

(* So terminal_write keeps a terminal one, and its cursor on the screen. *)
LEMMA WriteOn ==
    ASSUME NEW t \in Anywhere, NEW data \in Seq(Glyph \cup {NL})
    PROVE  /\ terminal_write(t, data) \in Anywhere
           /\ OnScreen(t) => terminal_write(t, data) \in Onscreen
<1>1. terminal_write(t, data) \in Anywhere
  <2>1. \A u \in Anywhere, c \in Glyph \cup {NL} : terminal_putchar(u, c) \in Anywhere
    BY PutKeeps
  <2> QED  BY <2>1, WriteKeeps
<1>2. ASSUME OnScreen(t) PROVE terminal_write(t, data) \in Onscreen
  <2>1. \A u \in Onscreen, c \in Glyph \cup {NL} : terminal_putchar(u, c) \in Onscreen
    BY PutKeeps DEF Onscreen
  <2>2. t \in Onscreen  BY <1>2 DEF Onscreen
  <2> QED  BY <2>1, <2>2, WriteKeeps
<1> QED  BY <1>1, <1>2

(* terminal_clear and editor_draw bring the cursor back from anywhere. *)
LEMMA ClearOn ==
    ASSUME NEW t \in Anywhere
    PROVE  terminal_clear(t) \in Onscreen /\ editor_draw(t) \in Onscreen
<1>1. VGA_HEIGHT \in Nat /\ VGA_WIDTH \in Nat /\ 0 < VGA_HEIGHT /\ 0 < VGA_WIDTH /\ 0 \in Nat
  BY TerminalAssumption
<1>2. BlankCells \in Cells
  BY TerminalAssumption DEF BlankCells, BlankRow, Cells, Row
<1>3. EditorScreen \in Cells
  BY ConsoleAssumption DEF EditorScreen, Cells, Row
<1>4. terminal_clear(t) = [row |-> 0, column |-> 0, cells |-> BlankCells]
  <2> DEFINE k == BlankCells
  <2>1. terminal_clear(t) = [t EXCEPT !.row = 0, !.column = 0, !.cells = k]  BY DEF terminal_clear
  <2> HIDE DEF k
  <2>2. [t EXCEPT !.row = 0, !.column = 0, !.cells = k] = [row |-> 0, column |-> 0, cells |-> k]
    <3>1. t = [row |-> t.row, column |-> t.column, cells |-> t.cells]  BY Fields
    <3>2. [t EXCEPT !.row = 0] = [row |-> 0, column |-> t.column, cells |-> t.cells]  BY <3>1
    <3>3. [[row |-> 0, column |-> t.column, cells |-> t.cells] EXCEPT !.column = 0] =
            [row |-> 0, column |-> 0, cells |-> t.cells]
      OBVIOUS
    <3>4. [[row |-> 0, column |-> 0, cells |-> t.cells] EXCEPT !.cells = k] =
            [row |-> 0, column |-> 0, cells |-> k]
      OBVIOUS
    <3>5. [t EXCEPT !.row = 0, !.column = 0, !.cells = k] =
            [[[t EXCEPT !.row = 0] EXCEPT !.column = 0] EXCEPT !.cells = k]
      BY <3>1
    <3> QED  BY <3>2, <3>3, <3>4, <3>5, Zenon
  <2> QED  BY <2>1, <2>2 DEF k
<1>5. editor_draw(t) = [row |-> 0, column |-> 0, cells |-> EditorScreen]
  BY <1>4 DEF editor_draw
<1> QED  BY <1>1, <1>2, <1>3, <1>4, <1>5, Made

-------------------------------------------------------------------------------
(* The echo. *)

(* Rows are VGA_WIDTH apart. *)
LEMMA RowApart ==
    ASSUME NEW d \in Int, NEW w \in Nat
    PROVE  /\ d * w \in Int
           /\ (d + 1) * w = d * w + w
           /\ d >= 1 => d * w >= w
           /\ d <= -1 => d * w <= -w
<1>1. d * w \in Int /\ (d + 1) * w = d * w + w  OBVIOUS
<1>2. d >= 1 => d * w >= w  OBVIOUS
<1>3. d <= -1 => d * w <= -w  OBVIOUS
<1> QED  BY <1>1, <1>2, <1>3

(* The distance is a number, and none only at the cursor. *)
LEMMA BackIs ==
    ASSUME NEW t \in Onscreen, NEW y \in 0..(VGA_HEIGHT - 1), NEW x \in 0..(VGA_WIDTH - 1)
    PROVE  /\ Back(t, y, x) \in Int
           /\ Back(t, y, x) = 0 <=> y = t.row /\ x = t.column
<1> DEFINE d == t.row - y
           p == d * VGA_WIDTH
<1>1. /\ VGA_WIDTH \in Nat /\ VGA_HEIGHT \in Nat /\ y \in Nat /\ x \in Nat /\ x < VGA_WIDTH
      /\ t.row \in Nat /\ t.column \in Nat /\ t.column < VGA_WIDTH
  BY TerminalAssumption, Fields, Bounds DEF Onscreen
<1>2. d \in Int  BY <1>1
<1>3. /\ p \in Int
      /\ d >= 1 => p >= VGA_WIDTH
      /\ d <= -1 => p <= -VGA_WIDTH
      /\ d = 0 => p = 0
  <2> HIDE DEF d
  <2>1. d = 0 => p = 0  BY <1>1
  <2> QED  BY <1>1, <1>2, <2>1, RowApart
<1>4. Back(t, y, x) = p + t.column - x  BY DEF Back
<1>5. d = 0 <=> y = t.row  BY <1>1
<1> HIDE DEF d, p
<1>6. p = 0 => d = 0  BY <1>1, <1>2, <1>3
<1>7. p + t.column - x = 0 => p = 0 /\ x = t.column  BY <1>1, <1>2, <1>3
<1>8. p = 0 /\ x = t.column => p + t.column - x = 0  BY <1>1, <1>3
<1>9. p + t.column - x \in Int  BY <1>1, <1>3
<1> QED  BY <1>3, <1>4, <1>5, <1>6, <1>7, <1>8, <1>9

(* On the screen the painted cell is the cursor's. *)
LEMMA PaintIs ==
    ASSUME NEW t \in Onscreen, NEW c \in Glyph,
           NEW y \in 0..(VGA_HEIGHT - 1), NEW x \in 0..(VGA_WIDTH - 1)
    PROVE  Paint(t, c)[y + 1][x + 1] =
             IF y = t.row /\ x = t.column THEN c ELSE t.cells[y + 1][x + 1]
<1>1. /\ VGA_WIDTH \in Nat /\ VGA_HEIGHT \in Nat
      /\ t.row \in Nat /\ t.row < VGA_HEIGHT
      /\ t.column \in Nat /\ t.column < VGA_WIDTH /\ t.cells \in Cells
  BY TerminalAssumption, Fields, Bounds DEF Onscreen
<1>2. t.column \div VGA_WIDTH = 0 /\ t.column % VGA_WIDTH = t.column  BY <1>1
<1>3. t.row + 0 = t.row  BY <1>1
<1>4. Paint(t, c) = [t.cells EXCEPT ![t.row + 1] = [t.cells[t.row + 1] EXCEPT ![t.column + 1] = c]]
  BY <1>1, <1>2, <1>3 DEF Paint, terminal_putentryat
<1>5. /\ y + 1 \in 1..VGA_HEIGHT /\ x + 1 \in 1..VGA_WIDTH
      /\ y + 1 = t.row + 1 <=> y = t.row
      /\ x + 1 = t.column + 1 <=> x = t.column
  BY <1>1
<1>6. DOMAIN t.cells = 1..VGA_HEIGHT /\ DOMAIN t.cells[y + 1] = 1..VGA_WIDTH
  BY <1>1, <1>5 DEF Cells, Row
<1> QED  BY <1>4, <1>5, <1>6

(* A character painted at the cursor is the next of the line. *)
LEMMA PaintShows ==
    ASSUME NEW t \in Onscreen, NEW c \in Glyph, NEW s \in Seq(Glyph), Shows(t, s),
           NEW y \in 0..(VGA_HEIGHT - 1), NEW x \in 0..(VGA_WIDTH - 1),
           NEW b \in 1..(Len(s) + 1), b = Back(t, y, x) + 1
    PROVE  Paint(t, c)[y + 1][x + 1] = Append(s, c)[(Len(s) + 1) - b + 1]
<1>1. Len(s) \in Nat /\ Back(t, y, x) \in Int /\ b \in Int  BY BackIs
<1>2. CASE b = 1
  <2>1. y = t.row /\ x = t.column
    <3>1. Back(t, y, x) = 0  BY <1>1, <1>2
    <3> QED  BY <3>1, BackIs
  <2>2. Append(s, c)[Len(s) + 1] = c  OBVIOUS
  <2>3. (Len(s) + 1) - b + 1 = Len(s) + 1  BY <1>1, <1>2
  <2> QED  BY <2>1, <2>2, <2>3, PaintIs
<1>3. CASE b # 1
  <2>1. Back(t, y, x) \in 1..Len(s) /\ Back(t, y, x) # 0  BY <1>1, <1>3
  <2>2. ~(y = t.row /\ x = t.column)  BY <2>1, BackIs
  <2>3. t.cells[y + 1][x + 1] = s[Len(s) - Back(t, y, x) + 1]  BY <2>1 DEF Shows
  <2>4. /\ (Len(s) + 1) - b + 1 = Len(s) - Back(t, y, x) + 1
        /\ Len(s) - Back(t, y, x) + 1 \in 1..Len(s)
    BY <1>1, <2>1
  <2>5. \A i \in 1..Len(s) : Append(s, c)[i] = s[i]  OBVIOUS
  <2>6. Paint(t, c)[y + 1][x + 1] = t.cells[y + 1][x + 1]  BY <2>2, PaintIs
  <2> QED  BY <2>3, <2>4, <2>5, <2>6
<1> QED  BY <1>2, <1>3

(* terminal_putchar shows the line with the character, through the end of  *)
(* a row and the end of the screen.                                        *)
LEMMA PutShows ==
    ASSUME NEW t \in Onscreen, NEW c \in Glyph, NEW s \in Seq(Glyph), Shows(t, s)
    PROVE  Shows(terminal_putchar(t, c), Append(s, c))
<1> DEFINE u == terminal_putchar(t, c)
           X == 0..(VGA_WIDTH - 1)
           Y == 0..(VGA_HEIGHT - 1)
<1>1. /\ VGA_WIDTH \in Nat /\ VGA_HEIGHT \in Nat /\ VGA_HEIGHT > 1
      /\ t \in Anywhere /\ t.row \in Nat /\ t.row < VGA_HEIGHT
      /\ t.column \in Nat /\ t.column < VGA_WIDTH /\ t.cells \in Cells
      /\ Paint(t, c) \in Cells /\ Len(s) \in Nat /\ Len(Append(s, c)) = Len(s) + 1
  BY TerminalAssumption, Fields, Bounds, PaintedCells DEF Onscreen, Paint
<1>2. ASSUME u.cells = Paint(t, c),
             \A y \in Y, x \in X : Back(u, y, x) = Back(t, y, x) + 1
      PROVE  Shows(u, Append(s, c))
  <2> SUFFICES ASSUME NEW y \in Y, NEW x \in X, Back(u, y, x) \in 1..(Len(s) + 1)
               PROVE  u.cells[y + 1][x + 1] = Append(s, c)[(Len(s) + 1) - Back(u, y, x) + 1]
    BY <1>1 DEF Shows
  <2> HIDE DEF u
  <2> QED  BY <1>2, PaintShows
<1>3. CASE t.column + 1 # VGA_WIDTH
  <2>1. u = [row |-> t.row, column |-> t.column + 1, cells |-> Paint(t, c)]
    BY <1>1, <1>3, PutGlyph
  <2> HIDE DEF u
  <2>2. u.row = t.row /\ u.column = t.column + 1 /\ u.cells = Paint(t, c)  BY <2>1
  <2>3. ASSUME NEW y \in Y, NEW x \in X PROVE Back(u, y, x) = Back(t, y, x) + 1
    <3> DEFINE p == (t.row - y) * VGA_WIDTH
    <3>1. p \in Int  BY <1>1
    <3>2. Back(t, y, x) = p + t.column - x /\ Back(u, y, x) = p + (t.column + 1) - x
      BY <2>2 DEF Back
    <3> HIDE DEF p
    <3> QED  BY <1>1, <3>1, <3>2
  <2> QED  BY <1>2, <2>2, <2>3 DEF u
<1> DEFINE n == [row |-> t.row, column |-> 0, cells |-> Paint(t, c)]
<1>4. n \in Anywhere /\ n.row = t.row /\ n.column = 0 /\ n.cells = Paint(t, c)
  <2>1. n \in Anywhere  BY <1>1 DEF Anywhere
  <2> QED  BY <2>1
<1>5. CASE t.column + 1 = VGA_WIDTH /\ t.row + 1 # VGA_HEIGHT
  <2>1. u = NextRow(n)  BY <1>1, <1>5, PutGlyph
  <2> HIDE DEF n
  <2>2. u = [row |-> t.row + 1, column |-> 0, cells |-> Paint(t, c)]
    BY <1>4, <1>5, <2>1, NextRowIs
  <2> HIDE DEF u
  <2>3. u.row = t.row + 1 /\ u.column = 0 /\ u.cells = Paint(t, c)  BY <2>2
  <2>4. ASSUME NEW y \in Y, NEW x \in X PROVE Back(u, y, x) = Back(t, y, x) + 1
    <3> DEFINE d == t.row - y
               p == d * VGA_WIDTH
    <3>1. d \in Int /\ (t.row + 1) - y = d + 1  BY <1>1
    <3>2. Back(t, y, x) = p + t.column - x  BY DEF Back
    <3>3. Back(u, y, x) = (d + 1) * VGA_WIDTH + 0 - x
      BY <2>3, <3>1 DEF Back
    <3> HIDE DEF d
    <3>4. p \in Int /\ (d + 1) * VGA_WIDTH = p + VGA_WIDTH  BY <1>1, <3>1, RowApart
    <3>5. Back(u, y, x) = p + VGA_WIDTH + 0 - x  BY <3>3, <3>4
    <3>6. VGA_WIDTH = t.column + 1 /\ x \in Int  BY <1>5
    <3> HIDE DEF p
    <3> QED  BY <1>1, <3>2, <3>4, <3>5, <3>6
  <2> QED  BY <1>2, <2>3, <2>4 DEF u
<1>6. CASE t.column + 1 = VGA_WIDTH /\ t.row + 1 = VGA_HEIGHT
  <2>1. u = NextRow(n)  BY <1>1, <1>6, PutGlyph
  <2> HIDE DEF n
  <2>2. u = [row |-> VGA_HEIGHT - 1, column |-> 0, cells |-> Shifted(Paint(t, c))]
    BY <1>4, <1>6, <2>1, NextRowIs
  <2> HIDE DEF u
  <2>3. u.row = t.row /\ u.column = 0 /\ u.cells = Shifted(Paint(t, c))  BY <1>1, <1>6, <2>2
  <2> SUFFICES ASSUME NEW y \in Y, NEW x \in X, Back(u, y, x) \in 1..(Len(s) + 1)
               PROVE  u.cells[y + 1][x + 1] = Append(s, c)[(Len(s) + 1) - Back(u, y, x) + 1]
    BY <1>1 DEF Shows, u
  <2> DEFINE d == t.row - y - 1
             p == d * VGA_WIDTH
  <2>4. d \in Int /\ t.row - y = d + 1 /\ t.row - (y + 1) = d  BY <1>1
  <2>5. Back(u, y, x) = (d + 1) * VGA_WIDTH + 0 - x  BY <2>3, <2>4 DEF Back
  <2>6. Back(t, y + 1, x) = p + t.column - x  BY <2>4 DEF Back
  <2> HIDE DEF d
  <2>7. /\ p \in Int /\ (d + 1) * VGA_WIDTH = p + VGA_WIDTH
        /\ d = -1 => p = -VGA_WIDTH
    <3>1. d = -1 => p = -VGA_WIDTH  BY <1>1
    <3> QED  BY <1>1, <2>4, <3>1, RowApart
  <2> HIDE DEF p
  <2>8. Back(u, y, x) = Back(t, y + 1, x) + 1
    <3>1. Back(u, y, x) = p + VGA_WIDTH + 0 - x  BY <2>5, <2>7
    <3>2. VGA_WIDTH = t.column + 1 /\ x \in Int /\ t.column \in Int /\ p \in Int
      BY <1>1, <1>6, <2>7
    <3>3. ASSUME NEW a \in Int, NEW b \in Int, NEW e \in Int
          PROVE  a + (b + 1) + 0 - e = (a + b - e) + 1
      OBVIOUS
    <3> QED  BY <2>6, <3>1, <3>2, <3>3
  <2>9. y # t.row
    <3> SUFFICES ASSUME y = t.row PROVE FALSE  OBVIOUS
    <3>1. d = -1  BY <1>1, <2>4
    <3>2. Back(u, y, x) = p + VGA_WIDTH + 0 - x /\ p = -VGA_WIDTH  BY <2>5, <2>7, <3>1
    <3>3. Back(u, y, x) <= 0  BY <1>1, <3>2
    <3> QED  BY <3>3
  <2>10. y + 1 \in Y /\ y + 1 \in 1..VGA_HEIGHT /\ y + 1 < VGA_HEIGHT  BY <1>1, <1>6, <2>9
  <2>11. u.cells[y + 1] = Paint(t, c)[(y + 1) + 1]  BY <2>3, <2>10 DEF Shifted
  <2> QED  BY <2>8, <2>10, <2>11, PaintShows
<1> QED  BY <1>3, <1>5, <1>6

-------------------------------------------------------------------------------
(* The handler's steps. *)

(* A key that comes while the cursor is off the screen is recorded; one    *)
(* that comes while it is on it leaves it there.                           *)
LEMMA InterruptSettles ==
    ASSUME term \in Anywhere, Settling, Interrupt, torn \in BOOLEAN,
           term' \in Anywhere, OnScreen(term) => OnScreen(term')
    PROVE  Settling'
<1>1. /\ torn' = (torn \/ ~OnScreen(term))
      /\ kpc' = kpc /\ reg' = reg
  BY DEF Interrupt, kernel
<1>2. CASE torn'  BY <1>2 DEF Settling
<1>3. CASE ~torn'
  <2>2. ~torn /\ OnScreen(term) /\ OnScreen(term')  BY <1>1, <1>3
  <2>3. term.row < VGA_HEIGHT /\ term.column < VGA_WIDTH  BY <2>2, Bounds
  <2>4. term'.row < VGA_HEIGHT /\ term'.column < VGA_WIDTH  BY <2>2, Bounds
  <2>5. /\ VGA_HEIGHT \in Nat /\ VGA_WIDTH \in Nat
        /\ term.row \in Nat /\ term.column \in Nat
        /\ term'.row \in Nat /\ term'.column \in Nat
    BY TerminalAssumption, Fields
  <2>6. kpc # "wrap" /\ kpc # "scroll"
    <3>1. /\ kpc = "wrap" => term.column = VGA_WIDTH
          /\ kpc = "scroll" => term.row = VGA_HEIGHT
      BY <2>2, Zenon DEF Settling
    <3>2. term.column # VGA_WIDTH /\ term.row # VGA_HEIGHT  BY <2>3, <2>5
    <3> QED  BY <3>1, <3>2, Zenon
  <2>7. term'.row <= VGA_HEIGHT /\ term'.column <= VGA_WIDTH  BY <2>4, <2>5
  <2>8. /\ kpc = "store column" => reg < VGA_WIDTH
        /\ kpc = "store row" => reg < VGA_HEIGHT
    BY <2>2 DEF Settling
  <2> QED  BY <1>1, <2>2, <2>4, <2>6, <2>7, <2>8 DEF Settling
<1> QED  BY <1>2, <1>3

(* The types of everything but the terminal, the line and the shift keys   *)
(* survive a key.                                                          *)
LEMMA InterruptTypes ==
    ASSUME TypeOK, Interrupt
    PROVE  /\ kpc' = kpc /\ ktext' = ktext /\ reg' = reg
           /\ torn' \in BOOLEAN /\ torn \in BOOLEAN /\ ~halted
           /\ ~torn' => ~torn /\ OnScreen(term)
BY DEF TypeOK, Interrupt, kernel

(* The terminal's part of TypeOK. *)
LEMMA TermTypes ==
    ASSUME NEW t \in Anywhere
    PROVE  t.row \in Nat /\ t.column \in Nat /\ t.cells \in [1..VGA_HEIGHT -> Row]
BY Fields DEF Cells

(* A shift key: the flag is on only while one of them is down. *)
LEMMA ShiftStep ==
    ASSUME Inv, NEW k \in Shift, NEW released \in BOOLEAN, ShiftKey(k, released)
    PROVE  Inv'
<1>1. TypeOK /\ term \in Anywhere /\ Settling /\ Echoing /\ ShiftReleased /\ Interrupt
  BY DEF Inv, ShiftKey
<1>2. /\ UNCHANGED <<term, caps_lock, input, editor_active, use_german_layout, halted, quiet>>
      /\ shift_pressed' = ~released
      /\ held' = IF released THEN held \ {k} ELSE held \cup {k}
  BY DEF ShiftKey, line
<1>3. TypeOK'
  <2>1. shift_pressed' \in BOOLEAN /\ held' \subseteq Shift  BY <1>1, <1>2 DEF TypeOK
  <2> QED  BY <1>1, <1>2, <2>1, InterruptTypes DEF TypeOK
<1>4. Settling'  BY <1>1, <1>2, InterruptTypes, InterruptSettles
<1>5. Echoing'  BY <1>1, <1>2, InterruptTypes DEF Echoing, Idle, Shows, Back
<1>6. ShiftReleased'  BY <1>2 DEF ShiftReleased
<1> QED  BY <1>1, <1>2, <1>3, <1>4, <1>5, <1>6 DEF Inv

(* Caps lock. *)
LEMMA CapsStep ==
    ASSUME Inv, CapsLock
    PROVE  Inv'
<1>1. TypeOK /\ term \in Anywhere /\ Settling /\ Echoing /\ ShiftReleased /\ Interrupt
  BY DEF Inv, CapsLock
<1>2. /\ UNCHANGED <<term, shift_pressed, held, input, editor_active, use_german_layout, halted, quiet>>
      /\ caps_lock' = ~caps_lock
  BY DEF CapsLock, line
<1>3. TypeOK'
  <2>1. caps_lock' \in BOOLEAN  BY <1>1, <1>2 DEF TypeOK
  <2> QED  BY <1>1, <1>2, <2>1, InterruptTypes DEF TypeOK
<1>4. Settling'  BY <1>1, <1>2, InterruptTypes, InterruptSettles
<1>5. Echoing'  BY <1>1, <1>2, InterruptTypes DEF Echoing, Idle, Shows, Back
<1>6. ShiftReleased'  BY <1>1, <1>2 DEF ShiftReleased
<1> QED  BY <1>1, <1>2, <1>3, <1>4, <1>5, <1>6 DEF Inv

(* The prompt is printed as any text. *)
LEMMA PromptOn ==
    ASSUME NEW t \in Anywhere
    PROVE  shell_prompt(t) \in Anywhere /\ (OnScreen(t) => shell_prompt(t) \in Onscreen)
<1>1. Prompt \in Seq(Glyph \cup {NL})
  <2>1. Prompt \in Seq(Glyph)  BY ConsoleAssumption
  <2> QED  BY <2>1, SeqMonotonic
<1> QED  BY <1>1, WriteOn DEF shell_prompt

(* A key in the editor: the line is empty. *)
LEMMA EditorStep ==
    ASSUME Inv, NEW exits \in BOOLEAN, EditorKey(exits)
    PROVE  Inv'
<1>1. TypeOK /\ term \in Anywhere /\ Settling /\ Echoing /\ ShiftReleased /\ Interrupt
  BY DEF Inv, EditorKey
<1>2. /\ UNCHANGED <<shift_pressed, caps_lock, held, input, use_german_layout, halted, quiet>>
      /\ editor_active /\ editor_active' = ~exits
      /\ term' = IF exits THEN shell_prompt(terminal_clear(term)) ELSE editor_draw(term)
  BY DEF EditorKey, keys
<1>3. term' \in Onscreen
  <2>1. terminal_clear(term) \in Onscreen /\ editor_draw(term) \in Onscreen  BY <1>1, ClearOn
  <2>2. shell_prompt(terminal_clear(term)) \in Onscreen  BY <2>1, PromptOn DEF Onscreen
  <2> QED  BY <1>2, <2>1, <2>2
<1>4. term' \in Anywhere /\ OnScreen(term')  BY <1>3 DEF Onscreen
<1>5. TypeOK'
  <2>1. editor_active' \in BOOLEAN  BY <1>2
  <2> QED  BY <1>1, <1>2, <1>4, <2>1, InterruptTypes, TermTypes DEF TypeOK
<1>6. Settling'  BY <1>1, <1>4, InterruptTypes, InterruptSettles
<1>7. Echoing'  BY <1>1, <1>2 DEF Echoing
<1>8. ShiftReleased'  BY <1>1, <1>2 DEF ShiftReleased
<1> QED  BY <1>4, <1>5, <1>6, <1>7, <1>8 DEF Inv

(* A character of the line is painted as it is stored. *)
LEMMA TypeStep ==
    ASSUME Inv, NEW k \in Key, TypeChar(k)
    PROVE  Inv'
<1> DEFINE c == CharOf(k)
<1>1. TypeOK /\ term \in Anywhere /\ Settling /\ Echoing /\ ShiftReleased /\ Interrupt
  BY DEF Inv, TypeChar
<1>2. /\ UNCHANGED <<shift_pressed, caps_lock, held, editor_active, use_german_layout, halted>>
      /\ ~editor_active /\ c \in Glyph /\ Len(input) < MAX_INPUT
      /\ input' = Append(input, c)
      /\ term' = terminal_putchar(term, c)
      /\ quiet' = (Idle /\ (input = << >> \/ quiet))
  BY DEF TypeChar, keys
<1> HIDE DEF c
<1>3. term' \in Anywhere /\ (OnScreen(term) => OnScreen(term'))
  BY <1>1, <1>2, PutKeeps DEF Onscreen
<1>4. input \in Seq(Glyph) /\ Len(input) \in Nat /\ MAX_INPUT \in Nat
  <2>1. input \in Seq(Glyph)  BY <1>1 DEF TypeOK
  <2> QED  BY <2>1, ConsoleAssumption, LenProperties
<1>5. input' \in Seq(Glyph) /\ Len(input') <= MAX_INPUT
  <2>1. input' \in Seq(Glyph) /\ Len(input') = Len(input) + 1  BY <1>2, <1>4, AppendProperties
  <2> QED  BY <1>2, <1>4, <2>1
<1>6. TypeOK'
  <2>1. quiet' \in BOOLEAN  BY <1>2
  <2> QED  BY <1>1, <1>2, <1>3, <1>5, <2>1, InterruptTypes, TermTypes DEF TypeOK
<1>7. Settling'  BY <1>1, <1>3, InterruptTypes, InterruptSettles
<1>8. quiet' => Idle' /\ Idle  BY <1>1, <1>2, InterruptTypes DEF Idle
<1>9. ASSUME quiet', ~torn' PROVE Shows(term', input')
  <2>1. ~torn /\ OnScreen(term) /\ term \in Onscreen
    BY <1>1, <1>9, InterruptTypes DEF Onscreen
  <2>2. Shows(term, input)
    <3>1. CASE input = << >>
      <4>1. Len(input) = 0  BY <3>1
      <4> QED  BY <4>1 DEF Shows
    <3>2. CASE input # << >>
      <4>1. quiet /\ ~halted  BY <1>1, <1>2, <1>9, <3>2, InterruptTypes
      <4> QED  BY <1>1, <2>1, <3>2, <4>1 DEF Echoing
    <3> QED  BY <3>1, <3>2
  <2> QED  BY <1>2, <1>4, <2>1, <2>2, PutShows
<1>10. Echoing'
  <2>1. Shows(term', input') <=> Shows(term, input)'  BY DEF Shows, Back
  <2> QED  BY <1>2, <1>8, <1>9, <2>1 DEF Echoing
<1>11. ShiftReleased'  BY <1>1, <1>2 DEF ShiftReleased
<1> QED  BY <1>3, <1>6, <1>7, <1>10, <1>11 DEF Inv

(* Enter, whatever the command does: the line is empty afterwards, unless  *)
(* it was exit.                                                            *)
LEMMA EnterStep ==
    ASSUME Inv, NEW k \in Key, NEW out \in Output, Enter(k, out)
    PROVE  Inv'
<1> DEFINE effect == IF input = << >> THEN "print"
                     ELSE Meaning(parse_command_args(input).cmd, parse_command_args(input).arg1)
           shown == AfterCommand(terminal_putchar(term, NL), effect, out)
<1>1. TypeOK /\ term \in Anywhere /\ Settling /\ Echoing /\ ShiftReleased /\ Interrupt
  BY DEF Inv, Enter
<1>2. /\ UNCHANGED <<shift_pressed, caps_lock, held>>
      /\ term' = IF effect = "exit" THEN shown ELSE shell_prompt(shown)
      /\ input' = IF effect = "exit" THEN input ELSE << >>
      /\ halted' = (effect = "exit")
      /\ editor_active' = (effect = "edit")
      /\ use_german_layout' = cmd_kbd(effect)
      /\ quiet' = TRUE
  BY DEF Enter, keys
<1> HIDE DEF effect
<1>3. shown \in Anywhere /\ (OnScreen(term) => OnScreen(shown))
  <2> DEFINE t == terminal_putchar(term, NL)
  <2>1. t \in Anywhere /\ (OnScreen(term) => OnScreen(t))
    BY <1>1, PutKeeps DEF Onscreen
  <2> HIDE DEF t
  <2>2. /\ terminal_clear(t) \in Anywhere /\ OnScreen(terminal_clear(t))
        /\ editor_draw(t) \in Anywhere /\ OnScreen(editor_draw(t))
    BY <2>1, ClearOn DEF Onscreen
  <2>3. out \in Seq(Glyph \cup {NL})  BY ConsoleAssumption
  <2>4. terminal_write(t, out) \in Anywhere /\ (OnScreen(t) => OnScreen(terminal_write(t, out)))
    BY <2>1, <2>3, WriteOn DEF Onscreen
  <2>5. shown \in {terminal_clear(t), editor_draw(t), terminal_write(t, out)}
    BY DEF AfterCommand, t
  <2> HIDE DEF shown
  <2> QED  BY <2>1, <2>2, <2>4, <2>5
<1> HIDE DEF shown
<1>4. term' \in Anywhere /\ (OnScreen(term) => OnScreen(term'))
  BY <1>2, <1>3, PromptOn DEF Onscreen
<1>5. TypeOK'
  <2>1. use_german_layout' \in BOOLEAN  BY <1>1, <1>2 DEF cmd_kbd, TypeOK
  <2>2. input' \in Seq(Glyph) /\ Len(input') <= MAX_INPUT
    <3>1. << >> \in Seq(Glyph) /\ Len(<< >>) = 0 /\ 0 <= MAX_INPUT  BY ConsoleAssumption
    <3> QED  BY <1>1, <1>2, <3>1 DEF TypeOK
  <2>3. {halted', editor_active', quiet'} \subseteq BOOLEAN  BY <1>2
  <2> QED  BY <1>1, <1>2, <1>4, <2>1, <2>2, <2>3, InterruptTypes, TermTypes DEF TypeOK
<1>6. Settling'  BY <1>1, <1>4, InterruptTypes, InterruptSettles
<1>7. Echoing'
  <2>1. CASE effect = "exit"  BY <1>2, <2>1 DEF Echoing
  <2>2. CASE effect # "exit"  BY <1>2, <2>2 DEF Echoing
  <2> QED  BY <2>1, <2>2
<1>8. ShiftReleased'  BY <1>1, <1>2 DEF ShiftReleased
<1> QED  BY <1>4, <1>5, <1>6, <1>7, <1>8 DEF Inv

-------------------------------------------------------------------------------
(* The steps of kernel_main. *)

(* They change the terminal, the register and what is left to print; a     *)
(* line typed quietly has none of them.                                    *)
LEMMA KernelKeeps ==
    ASSUME Inv, NEW from, NEW to, Kernel(from, to), ~Idle,
           term' \in Anywhere, reg' \in Nat, ktext' \in Seq(Glyph \cup {NL}),
           to \in {"char", "load column", "store column", "test column", "wrap",
                   "load row", "store row", "test row", "scroll"},
           Settling'
    PROVE  Inv'
<1>1. TypeOK /\ Settling /\ Echoing /\ ShiftReleased  BY DEF Inv
<1>2. /\ kpc' = to /\ ~halted
      /\ UNCHANGED <<shift_pressed, caps_lock, held, input, editor_active,
                     use_german_layout, halted, quiet, torn>>
  BY DEF Kernel, keys, line, hist
<1>3. TypeOK'
  <2>1. term'.row \in Nat /\ term'.column \in Nat /\ term'.cells \in [1..VGA_HEIGHT -> Row]
    BY TermTypes
  <2> QED  BY <1>1, <1>2, <2>1 DEF TypeOK
<1>4. Echoing'  BY <1>1, <1>2 DEF Echoing
<1>5. ShiftReleased'  BY <1>1, <1>2 DEF ShiftReleased
<1> QED  BY <1>3, <1>4, <1>5 DEF Inv

(* What the invariant says of the terminal and of the register. *)
LEMMA TermFacts ==
    ASSUME Inv
    PROVE  /\ term \in Anywhere /\ term.row \in Nat /\ term.column \in Nat /\ term.cells \in Cells
           /\ reg \in Nat /\ ktext \in Seq(Glyph \cup {NL}) /\ torn \in BOOLEAN
           /\ VGA_WIDTH \in Nat /\ VGA_HEIGHT \in Nat /\ VGA_WIDTH > 0 /\ VGA_HEIGHT > 1
<1>1. term \in Anywhere  BY DEF Inv
<1>2. reg \in Nat /\ ktext \in Seq(Glyph \cup {NL}) /\ torn \in BOOLEAN  BY DEF Inv, TypeOK
<1>3. VGA_WIDTH \in Nat /\ VGA_HEIGHT \in Nat /\ VGA_WIDTH > 0 /\ VGA_HEIGHT > 1
  BY TerminalAssumption
<1> QED  BY <1>1, <1>2, <1>3, Fields

(* '\n' takes the column back; another character is painted. *)
LEMMA StartStep ==
    ASSUME Inv, StartChar
    PROVE  Inv'
<1> DEFINE to == IF Head(ktext) = NL THEN "load row" ELSE "load column"
<1>1. Kernel("char", to) /\ ktext # << >>  BY DEF StartChar
<1> USE TermFacts
<1>2. kpc = "char" /\ kpc' = to /\ torn' = torn  BY <1>1 DEF Kernel, hist
<1>3. Head(ktext) \in Glyph \cup {NL} /\ Tail(ktext) \in Seq(Glyph \cup {NL})
  BY <1>1, <1>2, HeadTailProperties
<1>4. reg' = reg /\ ktext' = Tail(ktext)  BY DEF StartChar
<1>5. /\ term' \in Anywhere /\ term'.row = term.row
      /\ term'.column = 0 \/ term'.column = term.column
  <2>1. CASE Head(ktext) = NL
    <3>1. term' = [term EXCEPT !.column = 0]  BY <2>1 DEF StartChar
    <3> QED  BY <1>2, <3>1 DEF Anywhere
  <2>2. CASE Head(ktext) # NL
    <3> DEFINE m == terminal_putentryat(term.cells, Head(ktext), term.column, term.row)
    <3>1. term' = [term EXCEPT !.cells = m]  BY <2>2 DEF StartChar
    <3>2. m \in Cells  BY <1>2, <1>3, <2>2, PaintedCells
    <3> HIDE DEF m
    <3> QED  BY <1>2, <3>1, <3>2 DEF Anywhere
  <2> QED  BY <2>1, <2>2
<1>6. Settling'
  <2>1. ~torn => OnScreen(term)  BY <1>2, Zenon DEF Settling, Inv
  <2>2. OnScreen(term) => OnScreen(term')  BY <1>2, <1>5, Bounds
  <2>3. kpc' \in {"load row", "load column"}  BY <1>2
  <2> QED  BY <1>2, <2>1, <2>2, <2>3 DEF Settling
<1>7. ~Idle  BY <1>1 DEF Idle
<1>8. to \in {"char", "load column", "store column", "test column", "wrap",
              "load row", "store row", "test row", "scroll"}
  OBVIOUS
<1> HIDE DEF to
<1> QED  BY <1>1, <1>2, <1>3, <1>4, <1>5, <1>6, <1>7, <1>8, KernelKeeps

(* The counter is loaded. *)
LEMMA LoadStep ==
    ASSUME Inv, Load
    PROVE  Inv'
<1> USE TermFacts
<1>1. CASE Kernel("load column", "store column") /\ reg' = term.column /\ UNCHANGED <<ktext, term>>
  <2>1. kpc = "load column" /\ kpc' = "store column" /\ torn' = torn  BY <1>1 DEF Kernel, hist
  <2>2. ~torn => OnScreen(term)  BY <2>1, Zenon DEF Settling, Inv
  <2>3. ~torn => reg' < VGA_WIDTH  BY <1>1, <2>2, Bounds
  <2>4. Settling'  BY <1>1, <2>1, <2>2, <2>3 DEF Settling
  <2>5. ~Idle  BY <2>1 DEF Idle
  <2> QED  BY <1>1, <2>4, <2>5, KernelKeeps
<1>2. CASE Kernel("load row", "store row") /\ reg' = term.row /\ UNCHANGED <<ktext, term>>
  <2>1. kpc = "load row" /\ kpc' = "store row" /\ torn' = torn  BY <1>2 DEF Kernel, hist
  <2>2. ~torn => OnScreen(term)  BY <2>1, Zenon DEF Settling, Inv
  <2>3. ~torn => reg' < VGA_HEIGHT  BY <1>2, <2>2, Bounds
  <2>4. Settling'  BY <1>2, <2>1, <2>2, <2>3 DEF Settling
  <2>5. ~Idle  BY <2>1 DEF Idle
  <2> QED  BY <1>2, <2>4, <2>5, KernelKeeps
<1> QED  BY <1>1, <1>2 DEF Load

(* One field of the terminal assigned, as the field by field record. *)
LEMMA Assigned ==
    ASSUME NEW r, NEW x, NEW m, NEW v
    PROVE  LET t == [row |-> r, column |-> x, cells |-> m]
           IN  /\ [t EXCEPT !.row = v] = [row |-> v, column |-> x, cells |-> m]
               /\ [t EXCEPT !.column = v] = [row |-> r, column |-> v, cells |-> m]
OBVIOUS

(* One more is stored: at most the end of the row, or of the screen. *)
LEMMA StoreStep ==
    ASSUME Inv, Store
    PROVE  Inv'
<1> USE TermFacts
<1>1. CASE /\ Kernel("store column", "test column")
           /\ term' = [term EXCEPT !.column = reg + 1]
           /\ reg' = 0 /\ UNCHANGED ktext
  <2>1. kpc = "store column" /\ kpc' = "test column" /\ torn' = torn  BY <1>1 DEF Kernel, hist
  <2>0. reg + 1 \in Nat  OBVIOUS
  <2>7. term' = [row |-> term.row, column |-> reg + 1, cells |-> term.cells]  BY <1>1, Fields, Assigned, Zenon
  <2>2. term' \in Anywhere /\ term'.row = term.row /\ term'.column = reg + 1
    BY <2>0, <2>7, Fields, Made
  <2>3. ~torn => OnScreen(term) /\ reg < VGA_WIDTH  BY <2>1, Zenon DEF Settling, Inv
  <2>4. ~torn => term'.row < VGA_HEIGHT /\ term'.column <= VGA_WIDTH  BY <2>2, <2>3, Bounds
  <2>5. Settling'  BY <2>1, <2>4 DEF Settling
  <2>6. ~Idle  BY <2>1 DEF Idle
  <2> QED  BY <1>1, <2>2, <2>5, <2>6, KernelKeeps
<1>2. CASE /\ Kernel("store row", "test row")
           /\ term' = [term EXCEPT !.row = reg + 1]
           /\ reg' = 0 /\ UNCHANGED ktext
  <2>1. kpc = "store row" /\ kpc' = "test row" /\ torn' = torn  BY <1>2 DEF Kernel, hist
  <2>0. reg + 1 \in Nat  OBVIOUS
  <2>7. term' = [row |-> reg + 1, column |-> term.column, cells |-> term.cells]  BY <1>2, Fields, Assigned, Zenon
  <2>2. term' \in Anywhere /\ term'.row = reg + 1 /\ term'.column = term.column
    BY <2>0, <2>7, Fields, Made
  <2>3. ~torn => OnScreen(term) /\ reg < VGA_HEIGHT  BY <2>1, Zenon DEF Settling, Inv
  <2>4. ~torn => term'.row <= VGA_HEIGHT /\ term'.column < VGA_WIDTH  BY <2>2, <2>3, Bounds
  <2>5. Settling'  BY <2>1, <2>4 DEF Settling
  <2>6. ~Idle  BY <2>1 DEF Idle
  <2> QED  BY <1>2, <2>2, <2>5, <2>6, KernelKeeps
<1> QED  BY <1>1, <1>2 DEF Store

(* The column is tested: on the screen, or one past the row's end. *)
LEMMA TestColumnStep ==
    ASSUME Inv, TestColumn
    PROVE  Inv'
<1> USE TermFacts
<1> DEFINE to == IF term.column = VGA_WIDTH THEN "wrap" ELSE "char"
<1>1. Kernel("test column", to) /\ UNCHANGED <<ktext, reg, term>>  BY DEF TestColumn
<1>2. kpc = "test column" /\ kpc' = to /\ torn' = torn  BY <1>1 DEF Kernel, hist
<1>3. ~torn => term.row < VGA_HEIGHT /\ term.column <= VGA_WIDTH
  BY <1>2, Zenon DEF Settling, Inv
<1>4. ~torn /\ term.column # VGA_WIDTH => OnScreen(term)  BY <1>3, Bounds
<1>5. Settling'  BY <1>1, <1>2, <1>3, <1>4 DEF Settling
<1>6. ~Idle /\ to \in {"wrap", "char"}  BY <1>2 DEF Idle
<1> HIDE DEF to
<1> QED  BY <1>1, <1>5, <1>6, KernelKeeps

(* The row's end: back to the first column. *)
LEMMA WrapStep ==
    ASSUME Inv, Wrap
    PROVE  Inv'
<1> USE TermFacts
<1>1. Kernel("wrap", "load row") /\ UNCHANGED <<ktext, reg>> /\ term' = [term EXCEPT !.column = 0]
  BY DEF Wrap
<1>2. kpc = "wrap" /\ kpc' = "load row" /\ torn' = torn  BY <1>1 DEF Kernel, hist
<1>3. term' \in Anywhere /\ term'.row = term.row /\ term'.column = 0  BY <1>1 DEF Anywhere
<1>4. ~torn => term.row < VGA_HEIGHT  BY <1>2, Zenon DEF Settling, Inv
<1>5. ~torn => OnScreen(term')  BY <1>3, <1>4, Bounds
<1>6. Settling'  BY <1>2, <1>5 DEF Settling
<1>7. ~Idle  BY <1>2 DEF Idle
<1> QED  BY <1>1, <1>3, <1>6, <1>7, KernelKeeps

(* The row is tested: on the screen, or one past its end. *)
LEMMA TestRowStep ==
    ASSUME Inv, TestRow
    PROVE  Inv'
<1> USE TermFacts
<1> DEFINE to == IF term.row = VGA_HEIGHT THEN "scroll" ELSE "char"
<1>1. Kernel("test row", to) /\ UNCHANGED <<ktext, reg, term>>  BY DEF TestRow
<1>2. kpc = "test row" /\ kpc' = to /\ torn' = torn  BY <1>1 DEF Kernel, hist
<1>3. ~torn => term.row <= VGA_HEIGHT /\ term.column < VGA_WIDTH
  BY <1>2, Zenon DEF Settling, Inv
<1>4. ~torn /\ term.row # VGA_HEIGHT => OnScreen(term)  BY <1>3, Bounds
<1>5. Settling'  BY <1>1, <1>2, <1>3, <1>4 DEF Settling
<1>6. ~Idle /\ to \in {"scroll", "char"}  BY <1>2 DEF Idle
<1> HIDE DEF to
<1> QED  BY <1>1, <1>5, <1>6, KernelKeeps

(* terminal_scroll brings the row back. *)
LEMMA ScrollStep ==
    ASSUME Inv, Scroll
    PROVE  Inv'
<1> USE TermFacts
<1>1. Kernel("scroll", "char") /\ UNCHANGED <<ktext, reg>> /\ term' = terminal_scroll(term)
  BY DEF Scroll
<1>2. kpc = "scroll" /\ kpc' = "char" /\ torn' = torn  BY <1>1 DEF Kernel, hist
<1>3. term' = [row |-> VGA_HEIGHT - 1, column |-> term.column, cells |-> Shifted(term.cells)]
  BY <1>1, ScrollIs
<1>4. VGA_HEIGHT - 1 \in Nat /\ VGA_HEIGHT - 1 < VGA_HEIGHT /\ Shifted(term.cells) \in Cells
  BY Scrolled
<1>5. term' \in Anywhere /\ term'.row = VGA_HEIGHT - 1 /\ term'.column = term.column
  BY <1>3, <1>4, Made
<1>6. ~torn => term.column < VGA_WIDTH  BY <1>2, Zenon DEF Settling, Inv
<1>7. ~torn => OnScreen(term')  BY <1>4, <1>5, <1>6, Bounds
<1>8. Settling'  BY <1>2, <1>7 DEF Settling
<1>9. ~Idle  BY <1>2 DEF Idle
<1> QED  BY <1>1, <1>5, <1>8, <1>9, KernelKeeps

-------------------------------------------------------------------------------
(* The theorems. *)

(* The invariant holds when the handler may first run. *)
LEMMA InitInv == Init => Inv
<1> SUFFICES ASSUME Init PROVE Inv  OBVIOUS
<1>1. /\ VGA_HEIGHT \in Nat /\ VGA_WIDTH \in Nat /\ VGA_HEIGHT > 1 /\ VGA_WIDTH > 0
      /\ MAX_INPUT \in Nat
  BY TerminalAssumption, ConsoleAssumption
<1>2. BlankCells \in Cells
  BY TerminalAssumption DEF BlankCells, BlankRow, Cells, Row
<1>3. term \in Onscreen
  <2>1. PICK y \in 0..(VGA_HEIGHT - 1) : term = [terminal_initialize EXCEPT !.row = y]
    BY DEF Init
  <2>2. term = [row |-> y, column |-> 0, cells |-> BlankCells]  BY <2>1 DEF terminal_initialize
  <2>3. y \in Nat /\ y < VGA_HEIGHT /\ 0 \in Nat /\ 0 < VGA_WIDTH  BY <1>1
  <2> QED  BY <1>2, <2>2, <2>3, Made
<1>4. term \in Anywhere /\ OnScreen(term)  BY <1>3 DEF Onscreen
<1>5. ktext \in Seq(Glyph \cup {NL})
  <2>1. Prompt \in Seq(Glyph \cup {NL})
    <3>1. Prompt \in Seq(Glyph)  BY ConsoleAssumption
    <3> QED  BY <3>1, SeqMonotonic
  <2>2. Banner \in Seq(Glyph \cup {NL})  BY ConsoleAssumption
  <2> QED  BY <2>1, <2>2, ConcatProperties DEF Init
<1>6. input \in Seq(Glyph) /\ Len(input) <= MAX_INPUT
  <2>1. << >> \in Seq(Glyph) /\ Len(<< >>) = 0  OBVIOUS
  <2> QED  BY <1>1, <2>1 DEF Init
<1>7. TypeOK
  BY <1>4, <1>5, <1>6, TermTypes DEF Init, TypeOK
<1>8. Settling  BY <1>4 DEF Init, Settling
<1> QED  BY <1>4, <1>7, <1>8 DEF Init, Inv, Echoing, ShiftReleased

(* Every step keeps it. *)
LEMMA StepInv == Inv /\ [Next]_vars => Inv'
<1> SUFFICES ASSUME Inv, [Next]_vars PROVE Inv'  OBVIOUS
<1>1. CASE UNCHANGED vars
  <2>1. UNCHANGED <<term, kpc, ktext, reg, shift_pressed, caps_lock, held, input, editor_active,
                    use_german_layout, halted, quiet, torn>>
    BY <1>1 DEF vars, kernel, keys, line, hist
  <2>2. TypeOK'  BY <2>1 DEF Inv, TypeOK
  <2>3. Settling'  BY <2>1 DEF Inv, Settling
  <2>4. Echoing'  BY <2>1 DEF Inv, Echoing, Idle, Shows, Back
  <2>5. ShiftReleased'  BY <2>1 DEF Inv, ShiftReleased
  <2> QED  BY <2>1, <2>2, <2>3, <2>4, <2>5 DEF Inv
<1> QED
  BY <1>1, ShiftStep, CapsStep, EditorStep, TypeStep, EnterStep, StartStep, LoadStep, StoreStep,
     TestColumnStep, WrapStep, TestRowStep, ScrollStep DEF Next

(* So it always holds. *)
LEMMA AlwaysInv == Spec => []Inv
BY InitInv, StepInv, PTL DEF Spec

(* The variables have their types, whatever is typed: input_buffer never   *)
(* overflows and every write to the screen's memory is a cell of it.       *)
THEOREM TypeCorrect == Spec => []TypeOK
<1>1. Inv => TypeOK  BY DEF Inv
<1> QED  BY <1>1, AlwaysInv, PTL

(* terminal_row and terminal_column, shared without a lock, are on the     *)
(* screen whenever kernel_main is not inside terminal_putchar, unless a    *)
(* key came while they were not.                                           *)
THEOREM CursorComesBack == Spec => []CursorSettles
<1>1. Inv => CursorSettles  BY DEF Inv, Settling, CursorSettles
<1> QED  BY <1>1, AlwaysInv, PTL

(* What the user reads before the cursor is what Enter will execute.       *)
THEOREM EchoIsInput == Spec => []EchoTrue
<1>1. Inv => EchoTrue
  <2> SUFFICES ASSUME Inv, kpc = "char", quiet, ~torn, ~editor_active, ~halted
               PROVE  Shows(term, input)
    BY DEF EchoTrue
  <2>1. CASE input # << >>  BY <2>1 DEF Inv, Echoing
  <2>2. CASE input = << >>
    <3>1. Len(input) = 0  BY <2>2
    <3> QED  BY <3>1 DEF Shows
  <2> QED  BY <2>1, <2>2
<1> QED  BY <1>1, AlwaysInv, PTL

(* With both shift keys up the shift flag is off. *)
THEOREM ShiftComesOff == Spec => []ShiftReleased
<1>1. Inv => ShiftReleased  BY DEF Inv
<1> QED  BY <1>1, AlwaysInv, PTL
-------------------------------------------------------------------------------
(* parse_command_args against Split. *)

(* What parse_command_args has read at any time. *)
Parsed == [state : 0..4, cmd : Seq(Glyph), arg1 : Seq(Glyph), arg2 : Seq(Glyph)]

(* A word, cut as its buffer cuts it. *)
Cut(s) == SubSeq(s, 1, Min({Len(s), MAX_WORD}))

(* A word with one character more, if there is room. *)
Added(s, c) == IF Len(s) < MAX_WORD THEN Append(s, c) ELSE s

(* What has been read: the state, the command and its two operands. *)
At(k, a, b, d) == [state |-> k, cmd |-> a, arg1 |-> b, arg2 |-> d]

(* One turn that reads a character of a word, by the state it is in. *)
LEMMA TurnWord ==
    ASSUME NEW a, NEW b, NEW d, NEW c, c # SPACE
    PROVE  /\ ParseChar(At(0, a, b, d), c) = At(0, Added(a, c), b, d)
           /\ ParseChar(At(2, a, b, d), c) = At(2, a, Added(b, c), d)
           /\ ParseChar(At(4, a, b, d), c) = At(4, a, b, Added(d, c))
<1>1. ParseChar(At(0, a, b, d), c) = At(0, Added(a, c), b, d)
  BY DEF ParseChar, Added, At
<1>2. ParseChar(At(2, a, b, d), c) = At(2, a, Added(b, c), d)
  BY DEF ParseChar, Added, At
<1>3. ParseChar(At(4, a, b, d), c) = At(4, a, b, Added(d, c))
  BY DEF ParseChar, Added, At
<1> QED BY <1>1, <1>2, <1>3

(* One turn that reads the first character of an operand. *)
LEMMA TurnFirst ==
    ASSUME NEW a, NEW b, NEW d, NEW c, c # SPACE
    PROVE  /\ ParseChar(At(1, a, b, d), c) = At(2, a, <<c>>, d)
           /\ ParseChar(At(3, a, b, d), c) = At(4, a, b, <<c>>)
<1> DEFINE one == <<c>>
<1>1. /\ ParseChar(At(1, a, b, d), c) = [At(1, a, b, d) EXCEPT !.arg1 = one, !.state = 2]
      /\ ParseChar(At(3, a, b, d), c) = [At(3, a, b, d) EXCEPT !.arg2 = one, !.state = 4]
  BY DEF ParseChar, At
<1> HIDE DEF one
<1>2. /\ [At(1, a, b, d) EXCEPT !.arg1 = one, !.state = 2] = At(2, a, one, d)
      /\ [At(3, a, b, d) EXCEPT !.arg2 = one, !.state = 4] = At(4, a, b, one)
  <2>1. /\ [At(1, a, b, d) EXCEPT !.arg1 = one] = At(1, a, one, d)
        /\ [At(3, a, b, d) EXCEPT !.arg2 = one] = At(3, a, b, one)
    BY DEF At
  <2>2. /\ [At(1, a, one, d) EXCEPT !.state = 2] = At(2, a, one, d)
        /\ [At(3, a, b, one) EXCEPT !.state = 4] = At(4, a, b, one)
    BY DEF At
  <2>3. /\ [At(1, a, b, d) EXCEPT !.arg1 = one, !.state = 2]
             = [[At(1, a, b, d) EXCEPT !.arg1 = one] EXCEPT !.state = 2]
        /\ [At(3, a, b, d) EXCEPT !.arg2 = one, !.state = 4]
             = [[At(3, a, b, d) EXCEPT !.arg2 = one] EXCEPT !.state = 4]
    BY DEF At
  <2> QED BY <2>1, <2>2, <2>3, Zenon
<1> QED BY <1>1, <1>2, Zenon DEF one

(* One turn that reads a space. *)
LEMMA TurnSpace ==
    ASSUME NEW a, NEW b, NEW d
    PROVE  /\ ParseChar(At(0, a, b, d), SPACE) = At(1, a, b, d)
           /\ ParseChar(At(1, a, b, d), SPACE) = At(1, a, b, d)
           /\ ParseChar(At(2, a, b, d), SPACE) = At(3, a, b, d)
           /\ ParseChar(At(3, a, b, d), SPACE) = At(3, a, b, d)
           /\ ParseChar(At(4, a, b, d), SPACE) = At(4, a, b, d)
<1>1. ParseChar(At(0, a, b, d), SPACE) = At(1, a, b, d)
  BY DEF ParseChar, At
<1>2. ParseChar(At(1, a, b, d), SPACE) = At(1, a, b, d)
  BY DEF ParseChar, At
<1>3. ParseChar(At(2, a, b, d), SPACE) = At(3, a, b, d)
  BY DEF ParseChar, At
<1>4. ParseChar(At(3, a, b, d), SPACE) = At(3, a, b, d)
  BY DEF ParseChar, At
<1>5. ParseChar(At(4, a, b, d), SPACE) = At(4, a, b, d)
  BY DEF ParseChar, At
<1> QED BY <1>1, <1>2, <1>3, <1>4, <1>5

(* A word with a character added is a word. *)
LEMMA AddedWord ==
    ASSUME NEW s \in Seq(Glyph), NEW c \in Glyph
    PROVE  Added(s, c) \in Seq(Glyph) /\ <<c>> \in Seq(Glyph)
<1>1. Append(s, c) \in Seq(Glyph)
  BY AppendProperties
<1> QED BY <1>1 DEF Added

(* A turn leaves four such fields. *)
LEMMA ParseCharParsed ==
    ASSUME NEW p \in Parsed, NEW c \in Glyph
    PROVE  ParseChar(p, c) \in Parsed
<1> DEFINE k == p.state
           a == p.cmd
           b == p.arg1
           d == p.arg2
<1>1. /\ k \in 0..4 /\ a \in Seq(Glyph) /\ b \in Seq(Glyph) /\ d \in Seq(Glyph)
      /\ p = At(k, a, b, d)
  BY DEF Parsed, At
<1> HIDE DEF k, a, b, d
<1>2. /\ Added(a, c) \in Seq(Glyph) /\ Added(b, c) \in Seq(Glyph) /\ Added(d, c) \in Seq(Glyph)
      /\ <<c>> \in Seq(Glyph)
  BY <1>1, AddedWord
<1>3. k \in {0, 1, 2, 3, 4} /\ 0 \in 0..4 /\ 1 \in 0..4 /\ 2 \in 0..4 /\ 3 \in 0..4 /\ 4 \in 0..4
  BY <1>1
<1> DEFINE r == ParseChar(p, c)
<1>4. ASSUME NEW j \in 0..4, NEW x \in Seq(Glyph), NEW y \in Seq(Glyph), NEW z \in Seq(Glyph)
      PROVE  At(j, x, y, z) \in Parsed
  BY DEF Parsed, At
<1>5. CASE k = 0
  <2>1. CASE c # SPACE
    <3>1. r = At(0, Added(a, c), b, d)
      <4>1. ParseChar(At(0, a, b, d), c) = At(0, Added(a, c), b, d)
        BY <2>1, TurnWord
      <4>2. p = At(0, a, b, d)
        BY <1>1, <1>5
      <4> QED BY <4>1, <4>2
    <3> QED BY <1>1, <1>2, <1>3, <1>4, <3>1, Zenon
  <2>2. CASE c = SPACE
    <3>1. r = At(1, a, b, d)
      <4>1. ParseChar(At(0, a, b, d), c) = At(1, a, b, d)
        BY <2>2, TurnSpace
      <4>2. p = At(0, a, b, d)
        BY <1>1, <1>5
      <4> QED BY <4>1, <4>2
    <3> QED BY <1>1, <1>3, <1>4, <3>1, Zenon
  <2> QED BY <2>1, <2>2
<1>6. CASE k = 1
  <2>1. CASE c # SPACE
    <3>1. r = At(2, a, <<c>>, d)
      <4>1. ParseChar(At(1, a, b, d), c) = At(2, a, <<c>>, d)
        BY <2>1, TurnFirst
      <4>2. p = At(1, a, b, d)
        BY <1>1, <1>6
      <4> QED BY <4>1, <4>2
    <3> QED BY <1>1, <1>2, <1>3, <1>4, <3>1, Zenon
  <2>2. CASE c = SPACE
    <3>1. r = At(1, a, b, d)
      <4>1. ParseChar(At(1, a, b, d), c) = At(1, a, b, d)
        BY <2>2, TurnSpace
      <4>2. p = At(1, a, b, d)
        BY <1>1, <1>6
      <4> QED BY <4>1, <4>2
    <3> QED BY <1>1, <1>3, <1>4, <3>1, Zenon
  <2> QED BY <2>1, <2>2
<1>7. CASE k = 2
  <2>1. CASE c # SPACE
    <3>1. r = At(2, a, Added(b, c), d)
      <4>1. ParseChar(At(2, a, b, d), c) = At(2, a, Added(b, c), d)
        BY <2>1, TurnWord
      <4>2. p = At(2, a, b, d)
        BY <1>1, <1>7
      <4> QED BY <4>1, <4>2
    <3> QED BY <1>1, <1>2, <1>3, <1>4, <3>1, Zenon
  <2>2. CASE c = SPACE
    <3>1. r = At(3, a, b, d)
      <4>1. ParseChar(At(2, a, b, d), c) = At(3, a, b, d)
        BY <2>2, TurnSpace
      <4>2. p = At(2, a, b, d)
        BY <1>1, <1>7
      <4> QED BY <4>1, <4>2
    <3> QED BY <1>1, <1>3, <1>4, <3>1, Zenon
  <2> QED BY <2>1, <2>2
<1>8. CASE k = 3
  <2>1. CASE c # SPACE
    <3>1. r = At(4, a, b, <<c>>)
      <4>1. ParseChar(At(3, a, b, d), c) = At(4, a, b, <<c>>)
        BY <2>1, TurnFirst
      <4>2. p = At(3, a, b, d)
        BY <1>1, <1>8
      <4> QED BY <4>1, <4>2
    <3> QED BY <1>1, <1>2, <1>3, <1>4, <3>1, Zenon
  <2>2. CASE c = SPACE
    <3>1. r = At(3, a, b, d)
      <4>1. ParseChar(At(3, a, b, d), c) = At(3, a, b, d)
        BY <2>2, TurnSpace
      <4>2. p = At(3, a, b, d)
        BY <1>1, <1>8
      <4> QED BY <4>1, <4>2
    <3> QED BY <1>1, <1>3, <1>4, <3>1, Zenon
  <2> QED BY <2>1, <2>2
<1>9. CASE k = 4
  <2>1. CASE c # SPACE
    <3>1. r = At(4, a, b, Added(d, c))
      <4>1. ParseChar(At(4, a, b, d), c) = At(4, a, b, Added(d, c))
        BY <2>1, TurnWord
      <4>2. p = At(4, a, b, d)
        BY <1>1, <1>9
      <4> QED BY <4>1, <4>2
    <3> QED BY <1>1, <1>2, <1>3, <1>4, <3>1, Zenon
  <2>2. CASE c = SPACE
    <3>1. r = At(4, a, b, d)
      <4>1. ParseChar(At(4, a, b, d), c) = At(4, a, b, d)
        BY <2>2, TurnSpace
      <4>2. p = At(4, a, b, d)
        BY <1>1, <1>9
      <4> QED BY <4>1, <4>2
    <3> QED BY <1>1, <1>3, <1>4, <3>1, Zenon
  <2> QED BY <2>1, <2>2
<1> QED BY <1>3, <1>5, <1>6, <1>7, <1>8, <1>9

(* The loop has a meaning: each turn reads one character more. *)
LEMMA ParseTurnsSteps ==
    ASSUME NEW command \in Seq(Glyph)
    PROVE  LET w == ParseTurns(command)
           IN  /\ w[0] = [state |-> 0, cmd |-> << >>, arg1 |-> << >>, arg2 |-> << >>]
               /\ \A i \in 1..Len(command) : w[i] = ParseChar(w[i - 1], command[i])
<1> DEFINE n == Len(command)
           start == [state |-> 0, cmd |-> << >>, arg1 |-> << >>, arg2 |-> << >>]
           Eq(f) == f = [i \in 0..n |->
                           IF i = 0 THEN start ELSE ParseChar(f[i - 1], command[i])]
           g == [i \in 1..n |-> [p \in Parsed |-> ParseChar(p, command[i])]]
<1>1. n \in Nat /\ \A i \in 1..n : command[i] \in Glyph
  OBVIOUS
<1>2. start \in Parsed
  BY DEF Parsed
<1>3. ASSUME NEW i \in 1..n, NEW p \in Parsed PROVE ParseChar(p, command[i]) \in Parsed
  BY <1>1, <1>3, ParseCharParsed
<1>4. g \in Steps(n, Parsed)
  BY <1>3 DEF Steps
<1>5. \E f : Eq(f)
  <2>1. PICK f : Path(n, Parsed, start, g, f)
    <3> HIDE DEF g, n, start
    <3> QED BY <1>1, <1>2, <1>4, StepByStep
  <2>2. ASSUME NEW i \in 1..n PROVE f[i] = ParseChar(f[i - 1], command[i])
    <3>1. f[i - 1] \in Parsed
      BY <1>1, <2>1, <2>2 DEF Path
    <3> QED BY <2>1, <3>1 DEF Path
  <2>3. Eq(f)
    <3> HIDE DEF g, start
    <3> QED BY <2>1, <2>2 DEF Path
  <2> QED BY <2>3
<1>6. ParseTurns(command) = CHOOSE f : Eq(f)
  BY DEF ParseTurns
<1> DEFINE w == ParseTurns(command)
<1>7. Eq(w)
  <2> HIDE DEF Eq
  <2> QED BY <1>5, <1>6
<1> HIDE DEF w, start
<1>8. w[0] = start /\ \A i \in 1..n : w[i] = ParseChar(w[i - 1], command[i])
  BY <1>1, <1>7
<1> QED BY <1>8 DEF w, start

(* The smaller of the length and the room. *)
LEMMA CutPlace ==
    ASSUME NEW a \in Nat, NEW b \in Nat
    PROVE  Min({a, b}) = IF a <= b THEN a ELSE b
<1>1. \A x \in {a, b} : (\A y \in {a, b} : x <= y) => x = IF a <= b THEN a ELSE b
  OBVIOUS
<1>2. \E x \in {a, b} : \A y \in {a, b} : x <= y
  OBVIOUS
<1> QED BY <1>1, <1>2 DEF Min

(* Cutting a word that has room, and one that has none. *)
LEMMA CutWord ==
    ASSUME NEW s \in Seq(Glyph)
    PROVE  /\ MAX_WORD \in Nat /\ MAX_WORD > 0 /\ Len(s) \in Nat
           /\ Len(s) <= MAX_WORD => Cut(s) = s
           /\ Len(s) > MAX_WORD => Cut(s) = SubSeq(s, 1, MAX_WORD)
<1>1. MAX_WORD \in Nat /\ MAX_WORD > 0 /\ Len(s) \in Nat
  BY ConsoleAssumption
<1>2. Len(s) <= MAX_WORD => Min({Len(s), MAX_WORD}) = Len(s)
  BY <1>1, CutPlace
<1>3. Len(s) > MAX_WORD => Min({Len(s), MAX_WORD}) = MAX_WORD
  <2>1. Len(s) > MAX_WORD => ~(Len(s) <= MAX_WORD)
    BY <1>1
  <2> QED BY <1>1, <2>1, CutPlace
<1>4. SubSeq(s, 1, Len(s)) = s
  BY SubSeqFull
<1> QED BY <1>1, <1>2, <1>3, <1>4, Zenon DEF Cut

(* Cutting a word with one character more. *)
LEMMA CutAppend ==
    ASSUME NEW s \in Seq(Glyph), NEW c \in Glyph
    PROVE  /\ Append(s, c) \in Seq(Glyph)
           /\ Cut(Append(s, c)) = Added(Cut(s), c)
<1> DEFINE t == Append(s, c)
           m == MAX_WORD
<1>1. /\ t \in Seq(Glyph) /\ Len(t) = Len(s) + 1
      /\ \A i \in 1..Len(s) : t[i] = s[i]
  BY AppendProperties
<1>2. m \in Nat /\ m > 0 /\ Len(s) \in Nat
  BY CutWord
<1> HIDE DEF m
<1>3. CASE Len(s) < m
  <2>1. Len(s) <= m /\ Len(s) + 1 <= m
    BY <1>2, <1>3
  <2>2. Cut(s) = s /\ Cut(t) = t
    <3> HIDE DEF t
    <3> QED BY <1>1, <2>1, CutWord DEF m
  <2> QED BY <1>1, <1>3, <2>2 DEF Added, m
<1>4. CASE ~(Len(s) < m)
  <2>1. Len(s) + 1 > m /\ (Len(s) <= m => Len(s) = m) /\ (~(Len(s) <= m) => Len(s) > m)
    BY <1>2, <1>4
  <2>2. Cut(s) = SubSeq(s, 1, m)
    <3>1. Len(s) = m => Cut(s) = s /\ SubSeq(s, 1, m) = s
      <4>1. Len(s) = m => Len(s) <= m
        BY <1>2
      <4> QED BY <4>1, CutWord, SubSeqFull DEF m
    <3> QED BY <2>1, <3>1, CutWord DEF m
  <2>3. Cut(t) = SubSeq(t, 1, m)
    <3> HIDE DEF t
    <3> QED BY <1>1, <2>1, CutWord DEF m
  <2>4. \A i \in 1..m : s[i] \in Glyph /\ t[i] \in Glyph /\ t[i] = s[i]
    <3>1. \A i \in 1..m : i \in 1..Len(s)
      BY <1>2, <1>4
    <3> QED BY <1>1, <3>1
  <2> HIDE DEF t
  <2>5. /\ SubSeq(s, 1, m) \in Seq(Glyph) /\ Len(SubSeq(s, 1, m)) = m
        /\ \A i \in 1..m : SubSeq(s, 1, m)[i] = s[i]
    <3>1. /\ SubSeq(s, 1, m) \in Seq(Glyph)
          /\ Len(SubSeq(s, 1, m)) = IF 1 <= m THEN m - 1 + 1 ELSE 0
          /\ \A i \in 1..(m - 1 + 1) : SubSeq(s, 1, m)[i] = s[1 + i - 1]
      BY <1>2, <2>4, SubSeqProperties
    <3> QED BY <1>2, <3>1
  <2>6. /\ SubSeq(t, 1, m) \in Seq(Glyph) /\ Len(SubSeq(t, 1, m)) = m
        /\ \A i \in 1..m : SubSeq(t, 1, m)[i] = t[i]
    <3>1. /\ SubSeq(t, 1, m) \in Seq(Glyph)
          /\ Len(SubSeq(t, 1, m)) = IF 1 <= m THEN m - 1 + 1 ELSE 0
          /\ \A i \in 1..(m - 1 + 1) : SubSeq(t, 1, m)[i] = t[1 + i - 1]
      BY <1>2, <2>4, SubSeqProperties
    <3> QED BY <1>2, <3>1
  <2>7. \A i \in 1..m : SubSeq(t, 1, m)[i] = SubSeq(s, 1, m)[i]
    BY <2>4, <2>5, <2>6
  <2>8. SubSeq(t, 1, m) = SubSeq(s, 1, m)
    BY <2>5, <2>6, <2>7, SeqEqual
  <2>9. ~(Len(Cut(s)) < m)
    BY <1>2, <2>2, <2>5
  <2> QED BY <1>1, <2>2, <2>3, <2>8, <2>9, Zenon DEF Added, m, t
<1> QED BY <1>3, <1>4

(* A word is empty when it is, cut or not; one character always fits. *)
LEMMA CutEmpty ==
    /\ Cut(<< >>) = << >>
    /\ \A s \in Seq(Glyph) : Cut(s) = << >> <=> s = << >>
    /\ \A c \in Glyph : Cut(<<c>>) = <<c>>
<1> DEFINE none == << >>
<1>1. none \in Seq(Glyph) /\ Len(none) = 0 /\ MAX_WORD \in Nat /\ MAX_WORD > 0
  BY ConsoleAssumption
<1>2. Cut(none) = none
  <2> HIDE DEF none
  <2>1. Len(none) <= MAX_WORD
    BY <1>1
  <2> QED BY <1>1, <2>1, CutWord
<1>3. ASSUME NEW s \in Seq(Glyph), s # << >> PROVE Cut(s) # << >>
  <2>1. Len(s) \in Nat /\ Len(s) > 0
    BY <1>3
  <2>2. CASE Len(s) <= MAX_WORD
    BY <1>3, <2>2, CutWord
  <2>3. CASE Len(s) > MAX_WORD
    <3>1. \A i \in 1..MAX_WORD : s[i] \in Glyph
      BY <1>1, <2>1, <2>3
    <3>2. Len(SubSeq(s, 1, MAX_WORD)) = MAX_WORD
      BY <1>1, <2>1, <2>3, <3>1, SubSeqProperties
    <3>3. SubSeq(s, 1, MAX_WORD) # << >>
      <4> DEFINE u == SubSeq(s, 1, MAX_WORD)
      <4>1. Len(u) > 0
        BY <1>1, <3>2
      <4> HIDE DEF u
      <4>2. u # << >>
        BY <4>1
      <4> QED BY <4>2 DEF u
    <3> QED BY <2>3, <3>3, CutWord
  <2> QED BY <1>1, <2>1, <2>2, <2>3
<1>4. ASSUME NEW c \in Glyph PROVE Cut(<<c>>) = <<c>>
  <2> DEFINE s == <<c>>
  <2>1. s \in Seq(Glyph) /\ Len(s) = 1
    OBVIOUS
  <2> HIDE DEF s
  <2>2. Len(s) <= MAX_WORD
    BY <1>1, <2>1
  <2>3. Cut(s) = s
    BY <2>1, <2>2, CutWord
  <2> QED BY <2>3 DEF s
<1> QED BY <1>2, <1>3, <1>4

(* A piece of a line, one character longer. *)
LEMMA LongerPiece ==
    ASSUME NEW s \in Seq(Glyph), NEW b \in 1..Len(s), NEW j \in Nat, b - 1 <= j, j < Len(s)
    PROVE  /\ SubSeq(s, b, j) \in Seq(Glyph) /\ s[j + 1] \in Glyph
           /\ SubSeq(s, b, j + 1) = Append(SubSeq(s, b, j), s[j + 1])
<1>1. SubSeq(s, b, j) \in Seq(Glyph) /\ s[j + 1] \in Glyph
  <2>1. \A i \in b..j : i \in 1..Len(s)
    OBVIOUS
  <2>2. \A i \in b..j : s[i] \in Glyph
    BY <2>1
  <2>3. j + 1 \in 1..Len(s)
    OBVIOUS
  <2> QED BY <2>2, <2>3, SubSeqProperties
<1> DEFINE n == j + 1
<1>2. n \in b..Len(s) /\ n - 1 = j
  OBVIOUS
<1> HIDE DEF n
<1>3. SubSeq(s, b, n) = SubSeq(s, b, n - 1) \o <<s[n]>>
  BY <1>2, SubSeqRecursiveSecond
<1>4. Append(SubSeq(s, b, j), s[j + 1]) = SubSeq(s, b, j) \o <<s[j + 1]>>
  BY <1>1, AppendIsConcat
<1> QED BY <1>1, <1>2, <1>3, <1>4 DEF n

(* Where the first word ends, the second begins and the second ends. *)
WordBounds(command, e1, b2, e2) ==
    LET n == Len(command)
    IN  /\ e1 \in 1..(n + 1) /\ b2 \in e1..(n + 1) /\ e2 \in b2..(n + 1)
        /\ \A i \in 1..n : /\ i < e1 => command[i] # SPACE
                           /\ i >= e1 /\ i < b2 => command[i] = SPACE
                           /\ i >= b2 /\ i < e2 => command[i] # SPACE
                           /\ i = e1 => command[i] = SPACE
                           /\ i = b2 => command[i] # SPACE
                           /\ i = e2 => command[i] = SPACE

(* What is behind the second word without its spaces, up to each place. *)
Squeezed(command, e2, h) ==
    LET n == Len(command)
    IN  /\ h \in [(e2 - 1)..n -> Seq(Glyph)]
        /\ h[e2 - 1] = << >>
        /\ \A i \in e2..n : /\ command[i] = SPACE => h[i] = h[i - 1]
                            /\ command[i] # SPACE => h[i] = Append(h[i - 1], command[i])

(* What the parser has read after i characters. *)
Stage(command, e1, b2, e2, h, i) ==
    IF i < e1 THEN At(0, Cut(SubSeq(command, 1, i)), << >>, << >>)
    ELSE IF i < b2 THEN At(1, Cut(SubSeq(command, 1, e1 - 1)), << >>, << >>)
    ELSE IF i < e2 THEN At(2, Cut(SubSeq(command, 1, e1 - 1)), Cut(SubSeq(command, b2, i)), << >>)
    ELSE At(IF h[i] = << >> THEN 3 ELSE 4, Cut(SubSeq(command, 1, e1 - 1)),
            Cut(SubSeq(command, b2, e2 - 1)), Cut(h[i]))

(* Where a place and the next one are. *)
LEMMA Places ==
    ASSUME NEW command \in Seq(Glyph), NEW e1, NEW b2, NEW e2, WordBounds(command, e1, b2, e2),
           NEW i \in Nat, i < Len(command)
    PROVE  LET c == command[i + 1]
           IN  /\ e1 \in Nat /\ b2 \in Nat /\ e2 \in Nat /\ i + 1 \in Nat
               /\ 1 <= e1 /\ e1 <= b2 /\ b2 <= e2 /\ e2 <= Len(command) + 1
               /\ i + 1 < e1 => c # SPACE
               /\ i + 1 = e1 => c = SPACE /\ i + 1 < b2
               /\ i + 1 > e1 /\ i + 1 < b2 => c = SPACE
               /\ i + 1 = b2 => c # SPACE /\ i + 1 < e2 /\ i >= e1
               /\ i + 1 > b2 /\ i + 1 < e2 => c # SPACE
               /\ i + 1 = e2 => c = SPACE /\ i >= b2
<1> DEFINE n == Len(command)
           c == command[i + 1]
<1>1. n \in Nat /\ i + 1 \in 1..n
  OBVIOUS
<1>2. /\ e1 \in Nat /\ b2 \in Nat /\ e2 \in Nat /\ i + 1 \in Nat
      /\ 1 <= e1 /\ e1 <= b2 /\ b2 <= e2 /\ e2 <= n + 1
  BY <1>1 DEF WordBounds
<1>3. /\ i + 1 < e1 => c # SPACE
      /\ i + 1 >= e1 /\ i + 1 < b2 => c = SPACE
      /\ i + 1 >= b2 /\ i + 1 < e2 => c # SPACE
      /\ i + 1 = e1 => c = SPACE
      /\ i + 1 = b2 => c # SPACE
      /\ i + 1 = e2 => c = SPACE
  <2> HIDE DEF n
  <2>1. \A k \in 1..n : /\ k < e1 => command[k] # SPACE
                        /\ k >= e1 /\ k < b2 => command[k] = SPACE
                        /\ k >= b2 /\ k < e2 => command[k] # SPACE
                        /\ k = e1 => command[k] = SPACE
                        /\ k = b2 => command[k] # SPACE
                        /\ k = e2 => command[k] = SPACE
    BY DEF WordBounds, n
  <2> QED BY <1>1, <2>1
<1> HIDE DEF n, c
<1>4. i + 1 = e1 => i + 1 # b2
  BY <1>3
<1>5. i + 1 = b2 => i + 1 # e2 /\ i + 1 # e1
  BY <1>3
<1>6. i + 1 = e2 => i + 1 # b2
  BY <1>3
<1>7. i + 1 = e1 => i + 1 < b2
  BY <1>1, <1>2, <1>4
<1>8. i + 1 = b2 => i + 1 < e2 /\ i >= e1
  BY <1>1, <1>2, <1>5
<1>9. i + 1 = e2 => i >= b2
  BY <1>1, <1>2, <1>6
<1>10. /\ i + 1 > e1 /\ i + 1 < b2 => i + 1 >= e1
       /\ i + 1 > b2 /\ i + 1 < e2 => i + 1 >= b2
  BY <1>1, <1>2
<1>11. /\ i + 1 > e1 /\ i + 1 < b2 => c = SPACE
       /\ i + 1 > b2 /\ i + 1 < e2 => c # SPACE
  BY <1>3, <1>10
<1> QED BY <1>2, <1>3, <1>7, <1>8, <1>9, <1>11 DEF n, c

(* Reading one character more takes one stage to the next. *)
LEMMA StageTurn ==
    ASSUME NEW command \in Seq(Glyph), NEW e1, NEW b2, NEW e2, WordBounds(command, e1, b2, e2),
           NEW h, Squeezed(command, e2, h), NEW i \in Nat, i < Len(command)
    PROVE  Stage(command, e1, b2, e2, h, i + 1)
             = ParseChar(Stage(command, e1, b2, e2, h, i), command[i + 1])
<1> DEFINE n == Len(command)
           j == i + 1
           c == command[j]
           S(k) == Stage(command, e1, b2, e2, h, k)
           pre(k) == SubSeq(command, 1, k)
           mid(k) == SubSeq(command, b2, k)
           w1 == Cut(pre(e1 - 1))
           w2 == Cut(mid(e2 - 1))
           none == << >>
<1>1. /\ e1 \in Nat /\ b2 \in Nat /\ e2 \in Nat /\ j \in Nat /\ n \in Nat
      /\ 1 <= e1 /\ e1 <= b2 /\ b2 <= e2 /\ e2 <= n + 1 /\ j = i + 1 /\ j <= n
  <2>1. /\ e1 \in Nat /\ b2 \in Nat /\ e2 \in Nat /\ i + 1 \in Nat
        /\ 1 <= e1 /\ e1 <= b2 /\ b2 <= e2 /\ e2 <= Len(command) + 1
    BY Places
  <2> QED BY <2>1
<1>2. /\ j < e1 => c # SPACE
      /\ j = e1 => c = SPACE /\ j < b2
      /\ j > e1 /\ j < b2 => c = SPACE
      /\ j = b2 => c # SPACE /\ j < e2 /\ i >= e1
      /\ j > b2 /\ j < e2 => c # SPACE
      /\ j = e2 => c = SPACE /\ i >= b2
  BY Places
<1>3. c \in Glyph
  <2>1. j \in 1..Len(command)
    BY <1>1
  <2> QED BY <2>1
<1>4. /\ pre(i) \in Seq(Glyph)
      /\ Cut(pre(j)) = Added(Cut(pre(i)), c)
  <2>1. 1 \in 1..Len(command) /\ 1 - 1 <= i
    BY <1>1
  <2>2. pre(i) \in Seq(Glyph) /\ pre(i + 1) = Append(pre(i), command[i + 1])
    BY <2>1, LongerPiece
  <2> HIDE DEF pre
  <2> QED BY <1>3, <2>2, CutAppend
<1>5. ASSUME b2 <= j
      PROVE  /\ mid(i) \in Seq(Glyph)
             /\ Cut(mid(j)) = Added(Cut(mid(i)), c)
             /\ b2 = j => mid(i) = << >>
  <2>1. b2 \in 1..Len(command) /\ b2 - 1 <= i
    BY <1>1, <1>5
  <2>2. mid(i) \in Seq(Glyph) /\ mid(i + 1) = Append(mid(i), command[i + 1])
    BY <2>1, LongerPiece
  <2>3. b2 = j => mid(i) = << >>
    <3>1. b2 = j => i < b2
      BY <1>1
    <3> QED BY <1>1, <3>1, SubSeqEmpty
  <2> HIDE DEF mid
  <2> QED BY <1>3, <2>2, <2>3, CutAppend
<1>6. /\ j < e1 => S(j) = At(0, Cut(pre(j)), none, none)
      /\ ~(j < e1) /\ j < b2 => S(j) = At(1, w1, none, none)
      /\ ~(j < e1) /\ ~(j < b2) /\ j < e2 => S(j) = At(2, w1, Cut(mid(j)), none)
      /\ ~(j < e1) /\ ~(j < b2) /\ ~(j < e2)
           => S(j) = At(IF h[j] = << >> THEN 3 ELSE 4, w1, w2, Cut(h[j]))
  BY Zenon DEF Stage
<1>7. /\ i < e1 => S(i) = At(0, Cut(pre(i)), none, none)
      /\ ~(i < e1) /\ i < b2 => S(i) = At(1, w1, none, none)
      /\ ~(i < e1) /\ ~(i < b2) /\ i < e2 => S(i) = At(2, w1, Cut(mid(i)), none)
      /\ ~(i < e1) /\ ~(i < b2) /\ ~(i < e2)
           => S(i) = At(IF h[i] = << >> THEN 3 ELSE 4, w1, w2, Cut(h[i]))
  BY Zenon DEF Stage
<1>8. e1 = j => w1 = Cut(pre(i))
  <2>1. e1 = j => e1 - 1 = i
    BY <1>1
  <2> QED BY <2>1
<1>9. e2 = j => w2 = Cut(mid(i))
  <2>1. e2 = j => e2 - 1 = i
    BY <1>1
  <2> QED BY <2>1
<1>10. ASSUME e2 <= j
       PROVE  /\ h[i] \in Seq(Glyph) /\ (e2 = j => h[i] = << >>)
              /\ c = SPACE => h[j] = h[i]
              /\ c # SPACE => h[j] = Append(h[i], c)
  <2>1. j \in e2..n /\ i \in (e2 - 1)..n /\ (e2 = j => i = e2 - 1) /\ j - 1 = i
    BY <1>1, <1>10
  <2>2. /\ h \in [(e2 - 1)..n -> Seq(Glyph)] /\ h[e2 - 1] = << >>
        /\ \A k \in e2..n : /\ command[k] = SPACE => h[k] = h[k - 1]
                            /\ command[k] # SPACE => h[k] = Append(h[k - 1], command[k])
    BY DEF Squeezed
  <2> HIDE DEF n, j
  <2>3. h[i] \in Seq(Glyph)
    BY <2>1, <2>2
  <2>4. e2 = j => h[i] = << >>
    BY <2>1, <2>2, Zenon
  <2>5. /\ c = SPACE => h[j] = h[j - 1]
        /\ c # SPACE => h[j] = Append(h[j - 1], c)
    BY <2>1, <2>2
  <2> QED BY <2>1, <2>3, <2>4, <2>5
<1> HIDE DEF j, c, S, pre, mid, w1, w2, n
<1> SUFFICES S(j) = ParseChar(S(i), c)
  BY DEF S, j, c
<1>11. CASE j < e1
  <2>1. i < e1
    BY <1>1, <1>11
  <2>2. ParseChar(At(0, Cut(pre(i)), none, none), c) = At(0, Added(Cut(pre(i)), c), none, none)
    BY <1>2, <1>11, TurnWord
  <2> QED BY <1>4, <1>6, <1>7, <1>11, <2>1, <2>2, Zenon
<1>12. CASE j = e1
  <2>1. i < e1 /\ ~(j < e1) /\ j < b2 /\ c = SPACE
    BY <1>1, <1>2, <1>12
  <2>2. ParseChar(At(0, Cut(pre(i)), none, none), SPACE) = At(1, Cut(pre(i)), none, none)
    BY TurnSpace
  <2> QED BY <1>6, <1>7, <1>8, <1>12, <2>1, <2>2, Zenon
<1>13. CASE j > e1 /\ j < b2
  <2>1. ~(i < e1) /\ i < b2 /\ ~(j < e1)
    BY <1>1, <1>13
  <2>2. c = SPACE
    BY <1>2, <1>13
  <2>3. ParseChar(At(1, w1, none, none), SPACE) = At(1, w1, none, none)
    BY TurnSpace
  <2> QED BY <1>6, <1>7, <1>13, <2>1, <2>2, <2>3, Zenon
<1>14. CASE j = b2
  <2>1. c # SPACE /\ j < e2 /\ i >= e1
    BY <1>2, <1>14
  <2>2. ~(i < e1) /\ i < b2 /\ ~(j < e1) /\ ~(j < b2) /\ b2 <= j
    BY <1>1, <1>14, <2>1
  <2>3. ParseChar(At(1, w1, none, none), c) = At(2, w1, <<c>>, none)
    BY <2>1, TurnFirst
  <2>4. Cut(mid(j)) = <<c>>
    <3>1. mid(i) = << >> /\ Cut(mid(j)) = Added(Cut(mid(i)), c)
      BY <1>5, <1>14, <2>2
    <3>2. Cut(<< >>) = << >>
      BY CutEmpty, Zenon
    <3>3. MAX_WORD \in Nat /\ MAX_WORD > 0
      BY ConsoleAssumption
    <3>4. Added(<< >>, c) = <<c>>
      <4>1. Len(<< >>) < MAX_WORD
        BY <3>3
      <4>2. Append(<< >>, c) = <<c>>
        OBVIOUS
      <4> QED BY <4>1, <4>2, Zenon DEF Added
    <3> QED BY <3>1, <3>2, <3>4, Zenon
  <2> QED BY <1>6, <1>7, <1>14, <2>1, <2>2, <2>3, <2>4, Zenon
<1>15. CASE j > b2 /\ j < e2
  <2>1. ~(i < e1) /\ ~(i < b2) /\ i < e2 /\ ~(j < e1) /\ ~(j < b2) /\ b2 <= j
    BY <1>1, <1>15
  <2>2. c # SPACE
    BY <1>2, <1>15
  <2>3. ParseChar(At(2, w1, Cut(mid(i)), none), c) = At(2, w1, Added(Cut(mid(i)), c), none)
    BY <2>2, TurnWord
  <2> QED BY <1>5, <1>6, <1>7, <1>15, <2>1, <2>3, Zenon
<1>16. CASE j = e2
  <2>1. c = SPACE /\ i >= b2
    BY <1>2, <1>16
  <2>2. /\ ~(i < e1) /\ ~(i < b2) /\ i < e2 /\ ~(j < e1) /\ ~(j < b2) /\ ~(j < e2) /\ e2 <= j
    BY <1>1, <1>16, <2>1
  <2>3. ParseChar(At(2, w1, Cut(mid(i)), none), SPACE) = At(3, w1, Cut(mid(i)), none)
    BY TurnSpace
  <2>4. h[j] = << >> /\ Cut(<< >>) = << >>
    BY <1>10, <1>16, <2>1, <2>2, CutEmpty, Zenon
  <2>5. S(j) = At(3, w1, w2, none)
    BY <1>6, <2>2, <2>4, Zenon
  <2> QED BY <1>7, <1>9, <1>16, <2>1, <2>2, <2>3, <2>5, Zenon
<1>17. CASE j > e2
  <2>1. /\ ~(i < e1) /\ ~(i < b2) /\ ~(i < e2) /\ ~(j < e1) /\ ~(j < b2) /\ ~(j < e2) /\ e2 <= j
    BY <1>1, <1>17
  <2>2. /\ h[i] \in Seq(Glyph)
        /\ c = SPACE => h[j] = h[i]
        /\ c # SPACE => h[j] = Append(h[i], c)
    BY <1>10, <2>1
  <2>3. /\ S(j) = At(IF h[j] = << >> THEN 3 ELSE 4, w1, w2, Cut(h[j]))
        /\ S(i) = At(IF h[i] = << >> THEN 3 ELSE 4, w1, w2, Cut(h[i]))
    BY <1>6, <1>7, <2>1, Zenon
  <2>4. CASE c = SPACE
    <3>1. /\ ParseChar(At(3, w1, w2, Cut(h[i])), SPACE) = At(3, w1, w2, Cut(h[i]))
          /\ ParseChar(At(4, w1, w2, Cut(h[i])), SPACE) = At(4, w1, w2, Cut(h[i]))
      BY TurnSpace
    <3> QED BY <2>2, <2>3, <2>4, <3>1, Zenon
  <2>5. CASE c # SPACE
    <3>1. /\ Append(h[i], c) \in Seq(Glyph) /\ Append(h[i], c) # << >>
      BY <1>3, <2>2, AppendProperties
    <3>2. Cut(h[j]) = Added(Cut(h[i]), c)
      BY <1>3, <2>2, <2>5, CutAppend
    <3>3. S(j) = At(4, w1, w2, Added(Cut(h[i]), c))
      BY <2>2, <2>3, <2>5, <3>1, <3>2, Zenon
    <3>4. CASE h[i] = << >>
      <4>1. ParseChar(At(3, w1, w2, none), c) = At(4, w1, w2, <<c>>)
        BY <2>5, TurnFirst
      <4>2. Cut(<< >>) = << >>
        BY CutEmpty, Zenon
      <4>3. Added(<< >>, c) = <<c>>
        <5>1. MAX_WORD \in Nat /\ MAX_WORD > 0
          BY ConsoleAssumption
        <5>2. Len(<< >>) < MAX_WORD
          BY <5>1
        <5>3. Append(<< >>, c) = <<c>>
          OBVIOUS
        <5> QED BY <5>2, <5>3, Zenon DEF Added
      <4> QED BY <2>3, <3>3, <3>4, <4>1, <4>2, <4>3, Zenon
    <3>5. CASE h[i] # << >>
      <4>1. ParseChar(At(4, w1, w2, Cut(h[i])), c) = At(4, w1, w2, Added(Cut(h[i]), c))
        BY <2>5, TurnWord
      <4> QED BY <2>3, <3>3, <3>5, <4>1, Zenon
    <3> QED BY <3>4, <3>5
  <2> QED BY <2>4, <2>5
<1> QED BY <1>1, <1>11, <1>12, <1>13, <1>14, <1>15, <1>16, <1>17

(* The first place of T, or the end. *)
LEMMA FirstIn ==
    ASSUME NEW n \in Nat, NEW b \in 1..(n + 1), NEW T \in SUBSET (b..n)
    PROVE  LET m == Min(T \cup {n + 1})
           IN  /\ m \in b..(n + 1)
               /\ m <= n => m \in T
               /\ \A i \in b..n : i < m => i \notin T
<1> DEFINE U == T \cup {n + 1}
<1>1. U \in SUBSET Nat /\ U # {} /\ \A i \in U : i \in b..(n + 1)
  OBVIOUS
<1>2. \E m \in U : \A k \in U : m <= k
  <2> HIDE DEF U
  <2> QED BY <1>1, LeastNat
<1>3. Min(U) \in U /\ \A k \in U : Min(U) <= k
  <2> HIDE DEF U
  <2> QED BY <1>2 DEF Min
<1> DEFINE m == Min(U)
<1> HIDE DEF m
<1>4. m \in U /\ m \in Nat /\ m \in b..(n + 1)
  BY <1>1, <1>3 DEF m
<1>5. m <= n => m \in T
  BY <1>4
<1>6. ASSUME NEW i \in b..n, i < m PROVE i \notin T
  <2>1. i \in U => m <= i
    BY <1>3 DEF m
  <2>2. ~(m <= i)
    BY <1>4, <1>6
  <2> QED BY <2>1, <2>2
<1> QED BY <1>4, <1>5, <1>6 DEF m

(* The three places Split cuts the line at. *)
LEMMA SplitBounds ==
    ASSUME NEW command \in Seq(Glyph)
    PROVE  LET end == Len(command) + 1
               e1 == Min({i \in 1..Len(command) : command[i] = SPACE} \cup {end})
               b2 == Min({i \in e1..Len(command) : command[i] # SPACE} \cup {end})
               e2 == Min({i \in b2..Len(command) : command[i] = SPACE} \cup {end})
           IN  WordBounds(command, e1, b2, e2)
<1> DEFINE n == Len(command)
           T1 == {i \in 1..n : command[i] = SPACE}
           e1 == Min(T1 \cup {n + 1})
           T2 == {i \in e1..n : command[i] # SPACE}
           b2 == Min(T2 \cup {n + 1})
           T3 == {i \in b2..n : command[i] = SPACE}
           e2 == Min(T3 \cup {n + 1})
<1>1. n \in Nat /\ 1 \in 1..(n + 1)
  OBVIOUS
<1>2. /\ e1 \in 1..(n + 1)
      /\ e1 <= n => e1 \in T1
      /\ \A i \in 1..n : i < e1 => i \notin T1
  <2>1. T1 \in SUBSET (1..n)
    OBVIOUS
  <2> HIDE DEF T1, n
  <2> QED BY <1>1, <2>1, FirstIn
<1> HIDE DEF e1
<1>3. /\ b2 \in e1..(n + 1)
      /\ b2 <= n => b2 \in T2
      /\ \A i \in e1..n : i < b2 => i \notin T2
  <2>1. T2 \in SUBSET (e1..n)
    OBVIOUS
  <2> HIDE DEF T2, n
  <2> QED BY <1>1, <1>2, <2>1, FirstIn
<1> HIDE DEF b2
<1>4. b2 \in 1..(n + 1)
  BY <1>1, <1>2, <1>3
<1>5. /\ e2 \in b2..(n + 1)
      /\ e2 <= n => e2 \in T3
      /\ \A i \in b2..n : i < e2 => i \notin T3
  <2>1. T3 \in SUBSET (b2..n)
    OBVIOUS
  <2> HIDE DEF T3, n
  <2> QED BY <1>1, <1>4, <2>1, FirstIn
<1> HIDE DEF e2
<1>6. ASSUME NEW i \in 1..n
      PROVE  /\ i < e1 => command[i] # SPACE
             /\ i >= e1 /\ i < b2 => command[i] = SPACE
             /\ i >= b2 /\ i < e2 => command[i] # SPACE
             /\ i = e1 => command[i] = SPACE
             /\ i = b2 => command[i] # SPACE
             /\ i = e2 => command[i] = SPACE
  <2>1. /\ e1 \in Nat /\ b2 \in Nat /\ e2 \in Nat
        /\ i >= e1 => i \in e1..n
        /\ i >= b2 => i \in b2..n
        /\ i <= n
    BY <1>1, <1>2, <1>4, <1>5
  <2> HIDE DEF n
  <2>2. i < e1 => command[i] # SPACE
    BY <1>2
  <2>3. i >= e1 /\ i < b2 => command[i] = SPACE
    BY <1>3, <2>1
  <2>4. i >= b2 /\ i < e2 => command[i] # SPACE
    BY <1>5, <2>1
  <2>5. i = e1 => command[i] = SPACE
    BY <1>2, <2>1
  <2>6. i = b2 => command[i] # SPACE
    BY <1>3, <2>1
  <2>7. i = e2 => command[i] = SPACE
    BY <1>5, <2>1
  <2> QED BY <2>2, <2>3, <2>4, <2>5, <2>6, <2>7
<1>7. WordBounds(command, e1, b2, e2)
  BY <1>2, <1>3, <1>5, <1>6 DEF WordBounds
<1> QED BY <1>7 DEF e1, b2, e2

(* What Split takes from behind the second word, built up place by place. *)
LEMMA SplitRest ==
    ASSUME NEW command \in Seq(Glyph), NEW e2 \in 1..(Len(command) + 1)
    PROVE  LET tail == SubSeq(command, e2, Len(command))
           IN  \E h : /\ Squeezed(command, e2, h)
                      /\ h[Len(command)] =
                           FlattenSeq([i \in DOMAIN tail |->
                                         IF tail[i] = SPACE THEN << >> ELSE <<tail[i]>>])
<1> DEFINE n == Len(command)
           tail == SubSeq(command, e2, n)
           m == n - e2 + 1
           ss == [i \in DOMAIN tail |-> IF tail[i] = SPACE THEN << >> ELSE <<tail[i]>>]
<1>1. n \in Nat /\ e2 \in Nat /\ e2 >= 1 /\ m \in Nat /\ e2 - 1 + m = n
  OBVIOUS
<1>2. /\ tail \in Seq(Glyph) /\ Len(tail) = m
      /\ \A i \in 1..m : tail[i] = command[e2 + i - 1]
  <2>1. \A i \in e2..n : command[i] \in Glyph
    BY <1>1
  <2>2. /\ tail \in Seq(Glyph)
        /\ Len(tail) = IF e2 <= n THEN n - e2 + 1 ELSE 0
        /\ \A i \in 1..(n - e2 + 1) : tail[i] = command[e2 + i - 1]
    BY <1>1, <2>1, SubSeqProperties
  <2> HIDE DEF n, tail
  <2> QED BY <1>1, <2>2
<1> HIDE DEF tail
<1>3. DOMAIN tail = 1..m
  <2> HIDE DEF m
  <2> QED BY <1>2
<1>4. \A i \in 1..m : tail[i] \in Glyph
  <2> HIDE DEF m
  <2> QED BY <1>2, <1>3
<1>5. ss \in Seq(Seq(Glyph)) /\ Len(ss) = m
  <2>1. \A i \in 1..m : (IF tail[i] = SPACE THEN << >> ELSE <<tail[i]>>) \in Seq(Glyph)
    <3> HIDE DEF m
    <3>1. ASSUME NEW i \in 1..m PROVE << >> \in Seq(Glyph) /\ <<tail[i]>> \in Seq(Glyph)
      BY <1>4
    <3> QED BY <3>1
  <2> HIDE DEF m
  <2>2. ss \in [1..m -> Seq(Glyph)]
    BY <1>3, <2>1
  <2> HIDE DEF ss
  <2> QED BY <1>1, <2>2
<1>6. /\ \A i \in 1..m : tail[i] = SPACE => ss[i] = << >>
      /\ \A i \in 1..m : tail[i] # SPACE => ss[i] = <<tail[i]>>
  <2> HIDE DEF m
  <2> QED BY <1>3
<1> HIDE DEF ss
<1>7. PICK f : Flattens(ss, Glyph, f)
  BY <1>5, Flattening
<1>8. /\ f \in [0..m -> Seq(Glyph)] /\ f[0] = << >> /\ FlattenSeq(ss) = f[m]
      /\ \A i \in 1..m : f[i] = f[i - 1] \o ss[i]
  <2> HIDE DEF m
  <2> QED BY <1>5, <1>7 DEF Flattens
<1> DEFINE h == [i \in (e2 - 1)..n |-> f[i - (e2 - 1)]]
<1> HIDE DEF m
<1>9. ASSUME NEW i \in (e2 - 1)..n PROVE i - (e2 - 1) \in 0..m /\ h[i] = f[i - (e2 - 1)]
  BY <1>1 DEF m
<1>10. h \in [(e2 - 1)..n -> Seq(Glyph)]
  <2>1. \A i \in (e2 - 1)..n : f[i - (e2 - 1)] \in Seq(Glyph)
    BY <1>8, <1>9
  <2> QED BY <2>1
<1>11. h[e2 - 1] = << >> /\ h[n] = f[m]
  <2>1. e2 - 1 \in (e2 - 1)..n /\ n \in (e2 - 1)..n /\ (e2 - 1) - (e2 - 1) = 0 /\ n - (e2 - 1) = m
    BY <1>1 DEF m
  <2> HIDE DEF h, n
  <2>2. h[e2 - 1] = f[0] /\ h[n] = f[m]
    BY <1>9, <2>1
  <2> QED BY <1>8, <2>2
<1>12. ASSUME NEW i \in e2..n
       PROVE  /\ command[i] = SPACE => h[i] = h[i - 1]
              /\ command[i] # SPACE => h[i] = Append(h[i - 1], command[i])
  <2> DEFINE k == i - (e2 - 1)
  <2>1. /\ k \in 1..m /\ k - 1 \in 0..m /\ i \in (e2 - 1)..n /\ i - 1 \in (e2 - 1)..n
        /\ (i - 1) - (e2 - 1) = k - 1 /\ e2 + k - 1 = i
    BY <1>1 DEF m
  <2>2. h[i] = f[k] /\ h[i - 1] = f[k - 1]
    BY <1>9, <2>1
  <2>3. tail[k] = command[i]
    <3> HIDE DEF k
    <3> QED BY <1>2, <2>1
  <2> HIDE DEF k, h, n
  <2>4. f[k] = f[k - 1] \o ss[k] /\ f[k - 1] \in Seq(Glyph)
    BY <1>8, <2>1
  <2>5. CASE command[i] = SPACE
    <3>1. ss[k] = << >>
      BY <1>6, <2>1, <2>3, <2>5
    <3>2. f[k - 1] \o << >> = f[k - 1]
      BY <2>4, ConcatEmptySeq
    <3> QED BY <2>2, <2>4, <2>5, <3>1, <3>2, Zenon
  <2>6. CASE command[i] # SPACE
    <3>1. ss[k] = <<command[i]>>
      BY <1>6, <2>1, <2>3, <2>6
    <3>2. command[i] \in Glyph
      BY <1>4, <2>1, <2>3
    <3>3. Append(f[k - 1], command[i]) = f[k - 1] \o <<command[i]>>
      BY <2>4, <3>2, AppendIsConcat
    <3> QED BY <2>2, <2>4, <2>6, <3>1, <3>3, Zenon
  <2> QED BY <2>5, <2>6
<1>13. Squeezed(command, e2, h)
  <2> HIDE DEF h
  <2> QED BY <1>10, <1>11, <1>12 DEF Squeezed
<1>14. h[n] = FlattenSeq(ss)
  BY <1>8, <1>11
<1> HIDE DEF h
<1> QED BY <1>13, <1>14 DEF ss, tail

(* The stages are what the loop goes through. *)
LEMMA StagesReached ==
    ASSUME NEW command \in Seq(Glyph), NEW e1, NEW b2, NEW e2, WordBounds(command, e1, b2, e2),
           NEW h, Squeezed(command, e2, h)
    PROVE  parse_command_args(command) = Stage(command, e1, b2, e2, h, Len(command))
<1> DEFINE n == Len(command)
           w == ParseTurns(command)
           S(i) == Stage(command, e1, b2, e2, h, i)
           P == {i \in 0..n : w[i] = S(i)}
<1>1. n \in Nat /\ e1 \in Nat /\ 0 < e1
  <2>1. n \in Nat /\ e1 \in 1..(n + 1)
    BY DEF WordBounds
  <2> HIDE DEF n
  <2> QED BY <2>1
<1>2. w[0] = At(0, << >>, << >>, << >>) /\ \A i \in 1..n : w[i] = ParseChar(w[i - 1], command[i])
  BY ParseTurnsSteps DEF At
<1>3. S(0) = At(0, << >>, << >>, << >>)
  <2>1. SubSeq(command, 1, 0) = << >>
    BY SubSeqEmpty
  <2>2. Cut(<< >>) = << >>
    BY CutEmpty, Zenon
  <2> QED BY <1>1, <2>1, <2>2, Zenon DEF Stage
<1>4. \A i \in Nat : i < n => S(i + 1) = ParseChar(S(i), command[i + 1])
  BY StageTurn
<1> HIDE DEF w, S, n
<1>5. 0 \in P
  <2>1. 0 \in 0..n
    BY <1>1
  <2> QED BY <1>2, <1>3, <2>1, Zenon
<1>6. ASSUME NEW i \in Nat, i < n, i \in P PROVE i + 1 \in P
  <2>1. i + 1 \in 1..n /\ (i + 1) - 1 = i /\ i + 1 \in 0..n
    BY <1>1, <1>6
  <2>2. w[i + 1] = ParseChar(w[i], command[i + 1])
    BY <1>2, <2>1
  <2>3. w[i] = S(i)
    BY <1>6
  <2> QED BY <1>4, <1>6, <2>1, <2>2, <2>3
<1>7. n \in P
  <2> HIDE DEF P
  <2>1. \A i \in 0..n : i \in P
    BY <1>1, <1>5, <1>6, UpTo
  <2> QED BY <1>1, <2>1
<1> QED BY <1>7 DEF w, S, n, parse_command_args

(* At the end of the line the stage holds the three words. *)
LEMMA LastStage ==
    ASSUME NEW command \in Seq(Glyph), NEW e1, NEW b2, NEW e2, WordBounds(command, e1, b2, e2),
           NEW h, Squeezed(command, e2, h)
    PROVE  LET n == Len(command)
           IN  \E k : Stage(command, e1, b2, e2, h, n)
                        = At(k, Cut(SubSeq(command, 1, e1 - 1)),
                             Cut(SubSeq(command, b2, e2 - 1)), Cut(h[n]))
<1> DEFINE n == Len(command)
           w1 == Cut(SubSeq(command, 1, e1 - 1))
           w2 == Cut(SubSeq(command, b2, e2 - 1))
           S == Stage(command, e1, b2, e2, h, n)
           none == << >>
<1>1. /\ n \in Nat /\ e1 \in Nat /\ b2 \in Nat /\ e2 \in Nat
      /\ 1 <= e1 /\ e1 <= b2 /\ b2 <= e2 /\ e2 <= n + 1
  <2>1. n \in Nat /\ e1 \in 1..(n + 1) /\ b2 \in e1..(n + 1) /\ e2 \in b2..(n + 1)
    BY DEF WordBounds
  <2> HIDE DEF n
  <2> QED BY <2>1
<1>2. h[e2 - 1] = << >> /\ Cut(<< >>) = << >>
  BY CutEmpty, Zenon DEF Squeezed
<1>3. /\ n < e1 => S = At(0, Cut(SubSeq(command, 1, n)), none, none)
      /\ ~(n < e1) /\ n < b2 => S = At(1, w1, none, none)
      /\ ~(n < e1) /\ ~(n < b2) /\ n < e2 => S = At(2, w1, Cut(SubSeq(command, b2, n)), none)
      /\ ~(n < e1) /\ ~(n < b2) /\ ~(n < e2)
           => S = At(IF h[n] = << >> THEN 3 ELSE 4, w1, w2, Cut(h[n]))
  BY Zenon DEF Stage
<1>4. n < e2 => Cut(h[n]) = none
  <2>1. n < e2 => e2 - 1 = n
    BY <1>1
  <2> QED BY <1>2, <2>1, Zenon
<1>5. n < b2 => w2 = none
  <2>1. n < b2 => e2 - 1 < b2
    BY <1>1
  <2>2. b2 \in Int /\ e2 - 1 \in Int
    BY <1>1
  <2>3. n < b2 => SubSeq(command, b2, e2 - 1) = << >>
    BY <2>1, <2>2, SubSeqEmpty
  <2> QED BY <1>2, <2>3, Zenon
<1>6. n < e1 => Cut(SubSeq(command, 1, n)) = w1 /\ n < b2 /\ n < e2
  <2>1. n < e1 => e1 - 1 = n /\ n < b2 /\ n < e2
    BY <1>1
  <2> QED BY <2>1, Zenon
<1>7. n < b2 => n < e2
  BY <1>1
<1>8. n < e2 => Cut(SubSeq(command, b2, n)) = w2
  <2>1. n < e2 => e2 - 1 = n
    BY <1>1
  <2> QED BY <2>1, Zenon
<1> HIDE DEF n, w1, w2, S
<1>9. \E k : S = At(k, w1, w2, Cut(h[n]))
  <2>1. CASE n < e1
    <3>1. S = At(0, w1, w2, Cut(h[n]))
      BY <1>3, <1>4, <1>5, <1>6, <2>1, Zenon
    <3> QED BY <3>1
  <2>2. CASE ~(n < e1) /\ n < b2
    <3>1. S = At(1, w1, w2, Cut(h[n]))
      BY <1>3, <1>4, <1>5, <1>7, <2>2, Zenon
    <3> QED BY <3>1
  <2>3. CASE ~(n < e1) /\ ~(n < b2) /\ n < e2
    <3>1. S = At(2, w1, w2, Cut(h[n]))
      BY <1>3, <1>4, <1>8, <2>3, Zenon
    <3> QED BY <3>1
  <2>4. CASE ~(n < e1) /\ ~(n < b2) /\ ~(n < e2)
    <3>1. S = At(IF h[n] = << >> THEN 3 ELSE 4, w1, w2, Cut(h[n]))
      BY <1>3, <2>4, Zenon
    <3> QED BY <3>1
  <2> QED BY <2>1, <2>2, <2>3, <2>4
<1> QED BY <1>9 DEF S, w1, w2, n

(* parse_command_args gives of every line what Split says, the spaces of   *)
(* the text lost.                                                          *)
THEOREM ParserIsSplit ==
    ASSUME NEW command \in Seq(Glyph)
    PROVE  LET p == parse_command_args(command)
           IN  <<p.cmd, p.arg1, p.arg2>> = Split(command)
<1> DEFINE n == Len(command)
           e1 == Min({i \in 1..n : command[i] = SPACE} \cup {n + 1})
           b2 == Min({i \in e1..n : command[i] # SPACE} \cup {n + 1})
           e2 == Min({i \in b2..n : command[i] = SPACE} \cup {n + 1})
           tail == SubSeq(command, e2, n)
           rest == FlattenSeq([i \in DOMAIN tail |->
                                 IF tail[i] = SPACE THEN << >> ELSE <<tail[i]>>])
           p == parse_command_args(command)
<1>1. Split(command) = <<Cut(SubSeq(command, 1, e1 - 1)), Cut(SubSeq(command, b2, e2 - 1)), Cut(rest)>>
  BY Zenon DEF Split, Cut
<1>2. WordBounds(command, e1, b2, e2)
  BY SplitBounds
<1> HIDE DEF e1, b2, e2
<1>3. e2 \in 1..(n + 1)
  <2>1. n \in Nat /\ e1 \in 1..(n + 1) /\ b2 \in e1..(n + 1) /\ e2 \in b2..(n + 1)
    BY <1>2 DEF WordBounds
  <2> HIDE DEF n
  <2> QED BY <2>1
<1>4. PICK h : Squeezed(command, e2, h) /\ h[n] = rest
  BY <1>3, SplitRest
<1> HIDE DEF rest
<1>5. p = Stage(command, e1, b2, e2, h, n)
  BY <1>2, <1>4, StagesReached
<1>6. PICK k : Stage(command, e1, b2, e2, h, n)
                 = At(k, Cut(SubSeq(command, 1, e1 - 1)),
                      Cut(SubSeq(command, b2, e2 - 1)), Cut(h[n]))
  BY <1>2, <1>4, LastStage
<1> DEFINE a == Cut(SubSeq(command, 1, e1 - 1))
           b == Cut(SubSeq(command, b2, e2 - 1))
           d == Cut(rest)
<1>7. p = At(k, a, b, d)
  BY <1>4, <1>5, <1>6, Zenon
<1>8. Split(command) = <<a, b, d>>
  BY <1>1
<1> HIDE DEF a, b, d, p
<1>9. p.cmd = a /\ p.arg1 = b /\ p.arg2 = d
  BY <1>7 DEF At
<1> QED BY <1>8, <1>9, Zenon DEF p

(* The state machine of parse_command_args returns the first word, the     *)
(* second and the rest, its spaces lost, each cut to its buffer, for       *)
(* every line.                                                             *)
THEOREM ParserKeepsWords == Spec => []ParserSplits
<1>1. ParserSplits
  <2> SUFFICES ASSUME NEW command \in BoundedSeq(Typed, MAX_LINE)
               PROVE  LET p == parse_command_args(command)
                      IN  <<p.cmd, p.arg1, p.arg2>> = Split(command)
    BY DEF ParserSplits
  <2>1. PICK m \in 0..MAX_LINE : command \in [1..m -> Typed]
    BY DEF BoundedSeq, SeqOf
  <2>2. m \in Nat /\ Typed \subseteq Glyph
    BY <2>1, ConsoleAssumption DEF Typed
  <2>3. command \in Seq(Glyph)
    BY <2>1, <2>2
  <2> QED BY <2>3, ParserIsSplit
<1> QED BY <1>1, PTL

===============================================================================
