----------------------------- MODULE ScreenProofs -----------------------------
(***************************************************************************)
(* Proofs about Screen, for every width, height, tab stop and set of       *)
(* characters: the cursor stays on the screen, nothing is shown below it,  *)
(* and the terminal implements the roll of paper of module Paper.          *)
(*                                                                         *)
(* Every character either leaves the cursor in its row or takes it to the  *)
(* next, with or without a scroll, and writes no row but the cursor's: the *)
(* lemmas PutNewline to PutGlyph say so of terminal_putchar, one for each  *)
(* kind of character, and the theorems use nothing else of it.             *)
(***************************************************************************)
EXTENDS Screen, SequenceTheorems, TLAPS

Terminals == [row : 0..(VGA_HEIGHT - 1), column : 0..(VGA_WIDTH - 1),
              cells : [1..VGA_HEIGHT -> Row]]

(* The lines written so far. *)
Window(g, t) == g \o SubSeq(t.cells, 1, t.row + 1)

(* The cursor's row becomes l and the cursor goes to column x of it. *)
Stays(t, l, x) ==
    [row |-> t.row, column |-> x, cells |-> [t.cells EXCEPT ![t.row + 1] = l]]

(* The cursor's row becomes l and the cursor goes to the start of the next *)
(* row, which the screen has.                                              *)
StepsDown(t, l) ==
    [row |-> t.row + 1, column |-> 0, cells |-> [t.cells EXCEPT ![t.row + 1] = l]]

(* Every row moves up by one, and a blank one follows. *)
Shifted(m) ==
    [y \in 1..VGA_HEIGHT |-> IF y < VGA_HEIGHT THEN m[y + 1] ELSE BlankRow]

(* The same at the bottom of the screen. *)
RollsUp(t, l) ==
    [row |-> t.row, column |-> 0, cells |-> Shifted([t.cells EXCEPT ![t.row + 1] = l])]

Turns(t, l) == IF t.row = VGA_HEIGHT - 1 THEN RollsUp(t, l) ELSE StepsDown(t, l)

(* What every character does; WriteLine of Paper says the same of a line.  *)
Writes(t, l, x) == IF x < VGA_WIDTH THEN Stays(t, l, x) ELSE Turns(t, l)

(* The row the cursor is in. *)
Current(t) == t.cells[t.row + 1]

Below(t) == \A y \in (t.row + 2)..VGA_HEIGHT : t.cells[y] = BlankRow

-------------------------------------------------------------------------------
(* Helpers. *)

(* A column on the screen is its own remainder in terminal_putentryat. *)
LEMMA OwnColumn ==
    ASSUME NEW x \in 0..(VGA_WIDTH - 1)
    PROVE  x \div VGA_WIDTH = 0 /\ x % VGA_WIDTH = x
  BY TerminalAssumption, SMT

(* A tab of terminal_putchar leads to a column counted from 0. *)
LEMMA TabIsColumn ==
    ASSUME NEW x \in Nat PROVE TabColumn(x) \in Nat
<1>1. x \div TAB_STOP \in Nat
  BY TerminalAssumption, SMT
<1> DEFINE q == (x \div TAB_STOP) + 1
<1>2. q \in Nat
  BY <1>1
<1>3. q * TAB_STOP \in Nat
  <2> HIDE DEF q
  <2> QED BY <1>2, TerminalAssumption, SMT
<1> QED BY <1>3 DEF TabColumn

(* A cell painted by terminal_putentryat is in the cursor's row. *)
LEMMA PaintsRow ==
    ASSUME NEW t \in Terminals, NEW c, NEW x \in 0..(VGA_WIDTH - 1)
    PROVE  terminal_putentryat(t.cells, c, x, t.row) =
             [t.cells EXCEPT ![t.row + 1] = [t.cells[t.row + 1] EXCEPT ![x + 1] = c]]
<1>1. t.row + (x \div VGA_WIDTH) = t.row /\ x % VGA_WIDTH = x
  BY OwnColumn DEF Terminals
<1>2. t.row < VGA_HEIGHT
  BY TerminalAssumption DEF Terminals
<1> QED BY <1>1, <1>2 DEF terminal_putentryat

(* Two rows that differ in a character are both rows. *)
LEMMA RowPainted ==
    ASSUME NEW l \in Row, NEW c \in Glyph, NEW x \in 1..VGA_WIDTH
    PROVE  [l EXCEPT ![x] = c] \in Row
  BY DEF Row

(* The row terminal_scroll clears is a row. *)
LEMMA BlankIsRow == BlankRow \in Row
  BY TerminalAssumption DEF BlankRow, Row

(* A terminal with its cells and its row replaced. *)
LEMMA Replaced ==
    ASSUME NEW r, NEW x, NEW m, NEW h, NEW k
    PROVE  [[row |-> r, column |-> x, cells |-> m] EXCEPT !.cells = k, !.row = h] =
             [row |-> h, column |-> x, cells |-> k]
<1> DEFINE d == [row |-> r, column |-> x, cells |-> m]
<1>1. [d EXCEPT !.cells = k, !.row = h] = [[d EXCEPT !.cells = k] EXCEPT !.row = h]
  OBVIOUS
<1>2. [d EXCEPT !.cells = k] = [row |-> r, column |-> x, cells |-> k]
  OBVIOUS
<1>3. [[row |-> r, column |-> x, cells |-> k] EXCEPT !.row = h] =
        [row |-> h, column |-> x, cells |-> k]
  OBVIOUS
<1> HIDE DEF d
<1> QED BY <1>1, <1>2, <1>3 DEF d

(* What terminal_scroll makes of a terminal, field by field. *)
LEMMA ScrollIs ==
    ASSUME NEW r, NEW x, NEW m
    PROVE  terminal_scroll([row |-> r, column |-> x, cells |-> m]) =
             [row |-> VGA_HEIGHT - 1, column |-> x, cells |-> Shifted(m)]
<1> DEFINE d == [row |-> r, column |-> x, cells |-> m]
<1>1. d.cells = m
  OBVIOUS
<1>2. terminal_scroll(d) = [d EXCEPT !.cells = Shifted(m), !.row = VGA_HEIGHT - 1]
  <2> HIDE DEF d
  <2> QED BY <1>1, Zenon DEF terminal_scroll, Shifted
<1> QED BY <1>2, Replaced

(* NextRow of a terminal whose cursor's row has just been written. *)
LEMMA NextRowTurns ==
    ASSUME NEW t \in Terminals, NEW l \in Row
    PROVE  NextRow(Stays(t, l, 0)) = Turns(t, l)
<1> DEFINE s == Stays(t, l, 0)
           down == [s EXCEPT !.row = @ + 1]
<1>1. down = [row |-> t.row + 1, column |-> 0, cells |-> [t.cells EXCEPT ![t.row + 1] = l]]
  BY DEF Stays
<1>2. NextRow(s) = IF t.row + 1 = VGA_HEIGHT THEN terminal_scroll(down) ELSE down
  BY <1>1 DEF NextRow
<1>3. t.row \in Int /\ VGA_HEIGHT \in Nat
  BY TerminalAssumption DEF Terminals
<1>4. CASE t.row + 1 = VGA_HEIGHT
  <2>1. VGA_HEIGHT - 1 = t.row
    BY <1>3, <1>4
  <2>2. terminal_scroll(down) = RollsUp(t, l)
    <3> HIDE DEF down
    <3> QED BY <1>1, <2>1, ScrollIs DEF RollsUp
  <2> QED BY <2>1, <2>2, <1>2, <1>4 DEF Turns
<1>5. CASE t.row + 1 # VGA_HEIGHT
  BY <1>1, <1>2, <1>3, <1>5 DEF Turns, StepsDown
<1> QED BY <1>4, <1>5

-------------------------------------------------------------------------------
(* What terminal_putchar does, for each kind of character. *)

(* The cursor in another column, nothing written. *)
LEMMA ColumnOnly ==
    ASSUME NEW t \in Terminals, NEW x
    PROVE  [t EXCEPT !.column = x] = Stays(t, Current(t), x)
<1>1. t.cells = [t.cells EXCEPT ![t.row + 1] = t.cells[t.row + 1]]
  BY DEF Terminals
<1>2. [t EXCEPT !.column = x] = [row |-> t.row, column |-> x, cells |-> t.cells]
  BY DEF Terminals
<1> QED BY <1>1, <1>2 DEF Stays, Current

(* The cursor of a terminal is in one of its rows. *)
LEMMA CurrentIsRow ==
    ASSUME NEW t \in Terminals
    PROVE  Current(t) \in Row /\ t.row + 1 \in 1..VGA_HEIGHT
<1>1. t.row + 1 \in 1..VGA_HEIGHT
  BY TerminalAssumption DEF Terminals
<1> QED BY <1>1 DEF Terminals, Current

(* '\n': the row as it is, then the next. *)
LEMMA PutNewline ==
    ASSUME NEW t \in Terminals
    PROVE  terminal_putchar(t, NL) = Writes(t, Current(t), VGA_WIDTH)
<1>1. terminal_putchar(t, NL) = NextRow([t EXCEPT !.column = 0])
  BY DEF terminal_putchar, NL, CR, TAB, BS
<1>2. ~(VGA_WIDTH < VGA_WIDTH)
  BY TerminalAssumption
<1> QED BY <1>1, <1>2, ColumnOnly, CurrentIsRow, NextRowTurns DEF Writes

(* '\r': the row as it is, from its start. *)
LEMMA PutReturn ==
    ASSUME NEW t \in Terminals
    PROVE  terminal_putchar(t, CR) = Writes(t, Current(t), 0)
<1>1. terminal_putchar(t, CR) = [t EXCEPT !.column = 0]
  BY DEF terminal_putchar, NL, CR, TAB, BS
<1>2. 0 < VGA_WIDTH
  BY TerminalAssumption
<1> QED BY <1>1, <1>2, ColumnOnly DEF Writes

(* '\t': the row as it is, from the next stop or in the next row. *)
LEMMA PutTab ==
    ASSUME NEW t \in Terminals
    PROVE  terminal_putchar(t, TAB) = Writes(t, Current(t), TabColumn(t.column))
<1>1. terminal_putchar(t, TAB) = IF TabColumn(t.column) >= VGA_WIDTH
                                 THEN NextRow([t EXCEPT !.column = 0])
                                 ELSE [t EXCEPT !.column = TabColumn(t.column)]
  BY DEF terminal_putchar, NL, CR, TAB, BS
<1>2. TabColumn(t.column) \in Nat /\ VGA_WIDTH \in Nat
  BY TabIsColumn, TerminalAssumption DEF Terminals
<1>3. TabColumn(t.column) >= VGA_WIDTH <=> ~(TabColumn(t.column) < VGA_WIDTH)
  BY <1>2
<1> QED BY <1>1, <1>3, ColumnOnly, CurrentIsRow, NextRowTurns DEF Writes

(* A character painted at column x, the cursor then in column z. *)
Painted(t, c, x, z) ==
    [t EXCEPT !.column = z, !.cells = terminal_putentryat(t.cells, c, x, t.row)]

(* Both in terms of the cursor's row. *)
LEMMA PaintAndMove ==
    ASSUME NEW t \in Terminals, NEW c, NEW x \in 0..(VGA_WIDTH - 1), NEW z
    PROVE  Painted(t, c, x, z) = Stays(t, [Current(t) EXCEPT ![x + 1] = c], z)
<1> DEFINE k == terminal_putentryat(t.cells, c, x, t.row)
<1>1. k = [t.cells EXCEPT ![t.row + 1] = [Current(t) EXCEPT ![x + 1] = c]]
  BY PaintsRow DEF Current
<1> HIDE DEF k
<1>2. [t EXCEPT !.column = z, !.cells = k] = [[t EXCEPT !.column = z] EXCEPT !.cells = k]
  BY DEF Terminals
<1>3. [t EXCEPT !.column = z] = [row |-> t.row, column |-> z, cells |-> t.cells]
  BY DEF Terminals
<1>4. [[row |-> t.row, column |-> z, cells |-> t.cells] EXCEPT !.cells = k] =
        [row |-> t.row, column |-> z, cells |-> k]
  OBVIOUS
<1>5. [t EXCEPT !.column = z, !.cells = k] = [row |-> t.row, column |-> z, cells |-> k]
  BY <1>2, <1>3, <1>4
<1> QED BY <1>1, <1>5 DEF Stays, Painted, k

(* '\b', but at the left edge: a blank in the column before. *)
LEMMA PutBackspace ==
    ASSUME NEW t \in Terminals, t.column > 0
    PROVE  terminal_putchar(t, BS) =
             Writes(t, [Current(t) EXCEPT ![t.column] = SPACE], t.column - 1)
<1>1. t.column \in Nat /\ t.column - 1 \in 0..(VGA_WIDTH - 1) /\ t.column # 0
  BY TerminalAssumption DEF Terminals
<1>2. terminal_putchar(t, BS) = Painted(t, SPACE, t.column - 1, t.column - 1)
  BY <1>1 DEF terminal_putchar, NL, CR, TAB, BS, Painted
<1>3. (t.column - 1) + 1 = t.column /\ t.column - 1 < VGA_WIDTH
  BY <1>1, TerminalAssumption
<1>4. terminal_putchar(t, BS) =
        Stays(t, [Current(t) EXCEPT ![(t.column - 1) + 1] = SPACE], t.column - 1)
  BY <1>1, <1>2, PaintAndMove
<1> QED BY <1>3, <1>4 DEF Writes

(* Any other character: painted, then the next column or the next row. *)
LEMMA PutGlyph ==
    ASSUME NEW t \in Terminals, NEW c \in Glyph
    PROVE  terminal_putchar(t, c) =
             Writes(t, [Current(t) EXCEPT ![t.column + 1] = c], t.column + 1)
<1> DEFINE l == [Current(t) EXCEPT ![t.column + 1] = c]
           put == Painted(t, c, t.column, t.column + 1)
<1>1. c # NL /\ c # CR /\ c # TAB /\ c # BS
  BY TerminalAssumption DEF Control
<1>2. terminal_putchar(t, c) = IF put.column = VGA_WIDTH
                               THEN NextRow([put EXCEPT !.column = 0]) ELSE put
  BY <1>1 DEF terminal_putchar, Painted
<1>3. t.column \in 0..(VGA_WIDTH - 1)
  BY DEF Terminals
<1>4. put = Stays(t, l, t.column + 1)
  BY <1>3, PaintAndMove
<1>5. l \in Row
  BY <1>3, CurrentIsRow, RowPainted, TerminalAssumption
<1> HIDE DEF l, put
<1>6. put.column = t.column + 1 /\ [put EXCEPT !.column = 0] = Stays(t, l, 0)
  BY <1>4 DEF Stays
<1>7. t.column + 1 = VGA_WIDTH <=> ~(t.column + 1 < VGA_WIDTH)
  BY <1>3, TerminalAssumption
<1> QED BY <1>2, <1>4, <1>5, <1>6, <1>7, NextRowTurns DEF Writes, l

-------------------------------------------------------------------------------
(* What a written line does to the screen and to the roll. *)

(* The lines of the roll, one by one. *)
LEMMA WindowIs ==
    ASSUME NEW t \in Terminals, NEW g \in Seq(Row)
    PROVE  /\ Window(g, t) \in Seq(Row)
           /\ Len(Window(g, t)) = Len(g) + t.row + 1
           /\ \A i \in 1..(Len(g) + t.row + 1) :
                Window(g, t)[i] = IF i <= Len(g) THEN g[i] ELSE t.cells[i - Len(g)]
<1> DEFINE top == SubSeq(t.cells, 1, t.row + 1)
<1>1. /\ t.cells \in Seq(Row) /\ Len(t.cells) = VGA_HEIGHT
      /\ t.row + 1 \in 1..VGA_HEIGHT
  BY CurrentIsRow, TerminalAssumption DEF Terminals
<1>2. /\ top \in Seq(Row) /\ Len(top) = t.row + 1
      /\ \A j \in 1..(t.row + 1) : top[j] = t.cells[j]
  BY <1>1
<1> HIDE DEF top
<1>3. t.row \in Nat /\ Len(g) \in Nat
  BY DEF Terminals
<1>4. /\ g \o top \in Seq(Row) /\ Len(g \o top) = Len(g) + t.row + 1
      /\ \A i \in 1..(Len(g) + t.row + 1) :
           (g \o top)[i] = IF i <= Len(g) THEN g[i] ELSE top[i - Len(g)]
  <2>1. Len(g) + Len(top) = Len(g) + t.row + 1
    BY <1>2, <1>3
  <2>2. /\ g \o top \in Seq(Row) /\ Len(g \o top) = Len(g) + Len(top)
        /\ \A i \in 1..(Len(g) + Len(top)) :
             (g \o top)[i] = IF i <= Len(g) THEN g[i] ELSE top[i - Len(g)]
    BY <1>2, ConcatProperties, Zenon
  <2> QED BY <2>1, <2>2, Zenon
<1>5. ASSUME NEW i \in 1..(Len(g) + t.row + 1)
      PROVE  (g \o top)[i] = IF i <= Len(g) THEN g[i] ELSE t.cells[i - Len(g)]
  <2>1. i <= Len(g) \/ i - Len(g) \in 1..(t.row + 1)
    BY <1>3
  <2>2. (g \o top)[i] = IF i <= Len(g) THEN g[i] ELSE top[i - Len(g)]
    BY <1>4, Zenon
  <2>3. i - Len(g) \in 1..(t.row + 1) => top[i - Len(g)] = t.cells[i - Len(g)]
    BY <1>2, Zenon
  <2> QED BY <2>1, <2>2, <2>3, Zenon
<1>6. Window(g, t) = g \o top
  BY Zenon DEF Window, top
<1> QED BY <1>4, <1>5, <1>6, Zenon

(* Two sequences with the same elements are the same. *)
LEMMA SameLines ==
    ASSUME NEW a \in Seq(Row), NEW b \in Seq(Row), Len(a) = Len(b),
           \A i \in 1..Len(a) : a[i] = b[i]
    PROVE  a = b
  BY SeqEqual

(* The cursor stays in its row: the last line of the roll is replaced. *)
LEMMA StaysWrites ==
    ASSUME NEW t \in Terminals, NEW g \in Seq(Row), Below(t),
           NEW l \in Row, NEW x \in 0..(VGA_WIDTH - 1)
    PROVE  LET w == Stays(t, l, x)
               p == Window(g, t)
           IN  /\ w \in Terminals /\ Below(w)
               /\ Window(g, w) = [p EXCEPT ![Len(p)] = l]
<1> DEFINE w == Stays(t, l, x)
           p == Window(g, t)
           q == [p EXCEPT ![Len(p)] = l]
<1>1. t.row + 1 \in 1..VGA_HEIGHT /\ t.row \in Nat /\ t.cells \in [1..VGA_HEIGHT -> Row]
  BY CurrentIsRow DEF Terminals
<1>2. /\ w.row = t.row /\ w.column = x
      /\ w.cells = [t.cells EXCEPT ![t.row + 1] = l]
  BY DEF Stays
<1>3. w \in Terminals
  BY <1>1 DEF Stays, Terminals
<1> HIDE DEF w
<1>4. Below(w)
  BY <1>1, <1>2, TerminalAssumption DEF Below
<1>5. /\ p \in Seq(Row) /\ Len(p) = Len(g) + t.row + 1
      /\ \A i \in 1..(Len(g) + t.row + 1) :
           p[i] = IF i <= Len(g) THEN g[i] ELSE t.cells[i - Len(g)]
  BY WindowIs
<1>6. /\ Window(g, w) \in Seq(Row) /\ Len(Window(g, w)) = Len(g) + t.row + 1
      /\ \A i \in 1..(Len(g) + t.row + 1) :
           Window(g, w)[i] = IF i <= Len(g) THEN g[i] ELSE w.cells[i - Len(g)]
  BY <1>2, <1>3, WindowIs
<1> HIDE DEF p
<1>7. q \in Seq(Row) /\ Len(q) = Len(p) /\ \A i \in 1..Len(p) : q[i] = IF i = Len(p) THEN l ELSE p[i]
  <2>1. Len(g) \in Nat
    OBVIOUS
  <2>2. Len(p) \in 1..Len(p)
    BY <1>1, <1>5, <2>1
  <2> QED BY <1>5, <2>2, ExceptSeq
<1>8. ASSUME NEW i \in 1..Len(p) PROVE Window(g, w)[i] = q[i]
  <2>1. /\ Len(g) \in Nat /\ i \in 1..(Len(g) + t.row + 1)
        /\ Len(p) = Len(g) + t.row + 1
    BY <1>5
  <2>2. CASE i <= Len(g)
    BY <2>1, <2>2, <1>1, <1>5, <1>6, <1>7
  <2>3. CASE i > Len(g)
    <3>1. i - Len(g) \in 1..(t.row + 1) /\ (i - Len(g) = t.row + 1 <=> i = Len(p))
      BY <2>1, <2>3, <1>1
    <3> DEFINE j == i - Len(g)
    <3>2. j \in 1..VGA_HEIGHT
      BY <3>1, <1>1, TerminalAssumption
    <3>3. w.cells[j] = IF j = t.row + 1 THEN l ELSE t.cells[j]
      <4> HIDE DEF j
      <4> QED BY <3>2, <1>1, <1>2
    <3> QED BY <2>1, <2>3, <3>1, <3>3, <1>5, <1>6, <1>7
  <2> QED BY <2>1, <2>2, <2>3
<1> HIDE DEF q
<1>9. Window(g, w) = q
  BY <1>5, <1>6, <1>7, <1>8, SameLines
<1> QED BY <1>3, <1>4, <1>9 DEF w, p, q

(* The cursor goes down a row: the roll gets a blank line. *)
LEMMA LowerRow ==
    ASSUME NEW s \in Terminals, NEW g \in Seq(Row), Below(s), s.row # VGA_HEIGHT - 1
    PROVE  LET d == [row |-> s.row + 1, column |-> 0, cells |-> s.cells]
           IN  /\ d \in Terminals /\ Below(d)
               /\ Window(g, d) = Append(Window(g, s), BlankRow)
<1> DEFINE d == [row |-> s.row + 1, column |-> 0, cells |-> s.cells]
           p == Window(g, s)
<1>1. /\ s.row \in Nat /\ s.row + 1 \in 0..(VGA_HEIGHT - 1)
      /\ VGA_HEIGHT \in Nat /\ 0 \in 0..(VGA_WIDTH - 1)
      /\ s.cells \in [1..VGA_HEIGHT -> Row] /\ Len(g) \in Nat
  BY TerminalAssumption DEF Terminals
<1>2. d \in Terminals /\ d.row = s.row + 1 /\ d.cells = s.cells
  BY <1>1 DEF Terminals
<1> HIDE DEF d
<1>3. Below(d)
  BY <1>1, <1>2 DEF Below
<1>4. s.cells[s.row + 2] = BlankRow
  <2>1. s.row + 2 \in (s.row + 2)..VGA_HEIGHT
    BY <1>1
  <2> QED BY <2>1 DEF Below
<1>5. /\ p \in Seq(Row) /\ Len(p) = Len(g) + s.row + 1
      /\ \A i \in 1..(Len(g) + s.row + 1) :
           p[i] = IF i <= Len(g) THEN g[i] ELSE s.cells[i - Len(g)]
  BY WindowIs
<1>6. /\ Window(g, d) \in Seq(Row) /\ Len(Window(g, d)) = Len(g) + s.row + 2
      /\ \A i \in 1..(Len(g) + s.row + 2) :
           Window(g, d)[i] = IF i <= Len(g) THEN g[i] ELSE s.cells[i - Len(g)]
  <2>1. Len(g) + d.row + 1 = Len(g) + s.row + 2
    BY <1>1, <1>2
  <2>2. /\ Window(g, d) \in Seq(Row) /\ Len(Window(g, d)) = Len(g) + d.row + 1
        /\ \A i \in 1..(Len(g) + d.row + 1) :
             Window(g, d)[i] = IF i <= Len(g) THEN g[i] ELSE d.cells[i - Len(g)]
    BY <1>2, WindowIs
  <2> QED BY <2>1, <2>2, <1>2, Zenon
<1> HIDE DEF p
<1>7. /\ Append(p, BlankRow) \in Seq(Row) /\ Len(Append(p, BlankRow)) = Len(p) + 1
      /\ Append(p, BlankRow)[Len(p) + 1] = BlankRow
      /\ \A i \in 1..Len(p) : Append(p, BlankRow)[i] = p[i]
  BY <1>5, BlankIsRow, AppendProperties
<1>8. ASSUME NEW i \in 1..(Len(g) + s.row + 2)
      PROVE  Window(g, d)[i] = Append(p, BlankRow)[i]
  <2>1. CASE i = Len(g) + s.row + 2
    <3>1. i = Len(p) + 1 /\ ~(i <= Len(g)) /\ i - Len(g) = s.row + 2
      BY <2>1, <1>1, <1>5
    <3> QED BY <3>1, <1>4, <1>6, <1>7
  <2>2. CASE i # Len(g) + s.row + 2
    <3>1. i \in 1..(Len(g) + s.row + 1)
      BY <2>2, <1>1
    <3> QED BY <3>1, <1>5, <1>6, <1>7
  <2> QED BY <2>1, <2>2
<1>9. Len(p) + 1 = Len(g) + s.row + 2
  BY <1>1, <1>5
<1>10. Window(g, d) = Append(p, BlankRow)
  BY <1>6, <1>7, <1>8, <1>9, SameLines
<1> QED BY <1>2, <1>3, <1>10 DEF d, p

(* The screen scrolls: the roll gets a blank line, and what it shows       *)
(* begins one line later.                                                  *)
LEMMA ScrolledRow ==
    ASSUME NEW s \in Terminals, NEW g \in Seq(Row), s.row = VGA_HEIGHT - 1
    PROVE  LET d == [row |-> s.row, column |-> 0, cells |-> Shifted(s.cells)]
           IN  /\ d \in Terminals /\ Below(d)
               /\ Append(g, s.cells[1]) \in Seq(Row)
               /\ Window(Append(g, s.cells[1]), d) = Append(Window(g, s), BlankRow)
<1> DEFINE d == [row |-> s.row, column |-> 0, cells |-> Shifted(s.cells)]
           p == Window(g, s)
           h == Append(g, s.cells[1])
<1>1. /\ s.row \in Nat /\ s.row \in 0..(VGA_HEIGHT - 1) /\ s.row + 1 = VGA_HEIGHT
      /\ VGA_HEIGHT \in Nat /\ VGA_HEIGHT > 1 /\ 0 \in 0..(VGA_WIDTH - 1)
      /\ s.cells \in [1..VGA_HEIGHT -> Row] /\ Len(g) \in Nat
  BY TerminalAssumption DEF Terminals
<1>2. Shifted(s.cells) \in [1..VGA_HEIGHT -> Row]
  BY <1>1, BlankIsRow DEF Shifted
<1>3. d \in Terminals /\ d.row = s.row /\ d.cells = Shifted(s.cells)
  BY <1>1, <1>2 DEF Terminals
<1> HIDE DEF d
<1>4. Below(d)
  BY <1>1, <1>3 DEF Below
<1>5. s.cells[1] \in Row
  BY <1>1
<1>6. /\ h \in Seq(Row) /\ Len(h) = Len(g) + 1 /\ h[Len(g) + 1] = s.cells[1]
      /\ \A i \in 1..Len(g) : h[i] = g[i]
  BY <1>5, AppendProperties
<1> HIDE DEF h
<1>7. /\ p \in Seq(Row) /\ Len(p) = Len(g) + VGA_HEIGHT
      /\ \A i \in 1..(Len(g) + VGA_HEIGHT) :
           p[i] = IF i <= Len(g) THEN g[i] ELSE s.cells[i - Len(g)]
  <2>1. Len(g) + s.row + 1 = Len(g) + VGA_HEIGHT
    BY <1>1
  <2>2. /\ p \in Seq(Row) /\ Len(p) = Len(g) + s.row + 1
        /\ \A i \in 1..(Len(g) + s.row + 1) :
             p[i] = IF i <= Len(g) THEN g[i] ELSE s.cells[i - Len(g)]
    BY WindowIs
  <2> HIDE DEF p
  <2> QED BY <2>1, <2>2, Zenon
<1> DEFINE w == Window(h, d)
<1>8. /\ w \in Seq(Row) /\ Len(w) = Len(g) + VGA_HEIGHT + 1
      /\ \A i \in 1..(Len(g) + VGA_HEIGHT + 1) :
           w[i] = IF i <= Len(h) THEN h[i] ELSE Shifted(s.cells)[i - Len(h)]
  <2>1. Len(h) + d.row + 1 = Len(g) + VGA_HEIGHT + 1
    BY <1>1, <1>3, <1>6
  <2>2. /\ w \in Seq(Row) /\ Len(w) = Len(h) + d.row + 1
        /\ \A i \in 1..(Len(h) + d.row + 1) :
             w[i] = IF i <= Len(h) THEN h[i] ELSE d.cells[i - Len(h)]
    BY <1>3, <1>6, WindowIs
  <2> HIDE DEF w
  <2> QED BY <2>1, <2>2, <1>3, Zenon
<1> HIDE DEF p, w
<1>9. /\ Append(p, BlankRow) \in Seq(Row) /\ Len(Append(p, BlankRow)) = Len(p) + 1
      /\ Append(p, BlankRow)[Len(p) + 1] = BlankRow
      /\ \A i \in 1..Len(p) : Append(p, BlankRow)[i] = p[i]
  BY <1>7, BlankIsRow, AppendProperties
<1>10. ASSUME NEW i \in 1..(Len(g) + VGA_HEIGHT + 1)
       PROVE  w[i] = Append(p, BlankRow)[i]
  <2>1. CASE i <= Len(g)
    <3>1. i \in 1..Len(g) /\ i \in 1..(Len(g) + VGA_HEIGHT) /\ i <= Len(h)
      BY <2>1, <1>1, <1>6
    <3> QED BY <3>1, <1>6, <1>7, <1>8, <1>9
  <2>2. CASE i = Len(g) + 1
    <3>1. i \in 1..(Len(g) + VGA_HEIGHT) /\ i <= Len(h) /\ ~(i <= Len(g)) /\ i - Len(g) = 1
      BY <2>2, <1>1, <1>6
    <3> QED BY <2>2, <3>1, <1>6, <1>7, <1>8, <1>9
  <2>3. CASE i > Len(g) + 1 /\ i # Len(g) + VGA_HEIGHT + 1
    <3> DEFINE j == i - Len(h)
    <3>1. /\ j \in 1..VGA_HEIGHT /\ j < VGA_HEIGHT /\ j + 1 = i - Len(g)
          /\ i \in 1..(Len(g) + VGA_HEIGHT) /\ ~(i <= Len(h)) /\ ~(i <= Len(g))
      BY <2>3, <1>1, <1>6
    <3>2. Shifted(s.cells)[j] = s.cells[j + 1]
      <4> HIDE DEF j
      <4> QED BY <3>1 DEF Shifted
    <3> QED BY <3>1, <3>2, <1>7, <1>8, <1>9
  <2>4. CASE i = Len(g) + VGA_HEIGHT + 1
    <3> DEFINE j == i - Len(h)
    <3>1. /\ j \in 1..VGA_HEIGHT /\ ~(j < VGA_HEIGHT) /\ i = Len(p) + 1
          /\ ~(i <= Len(h))
      BY <2>4, <1>1, <1>6, <1>7
    <3>2. Shifted(s.cells)[j] = BlankRow
      <4> HIDE DEF j
      <4> QED BY <3>1 DEF Shifted
    <3> QED BY <3>1, <3>2, <1>8, <1>9
  <2>5. i <= Len(g) \/ i = Len(g) + 1 \/ i > Len(g) + 1
    BY <1>1
  <2> QED BY <2>1, <2>2, <2>3, <2>4, <2>5
<1>11. Len(p) + 1 = Len(g) + VGA_HEIGHT + 1
  BY <1>1, <1>7
<1>12. w = Append(p, BlankRow)
  BY <1>8, <1>9, <1>10, <1>11, SameLines
<1> QED BY <1>3, <1>4, <1>6, <1>12 DEF d, p, h, w

(* The rows that have scrolled off after a line is written up to column x. *)
GoneAfter(g, t, x) ==
    IF t.row = VGA_HEIGHT - 1 /\ ~(x < VGA_WIDTH) THEN Append(g, t.cells[1]) ELSE g

(* All three together: writing a line keeps the screen well formed and     *)
(* does to the roll what WriteLine of Paper does.                          *)
LEMMA Written ==
    ASSUME NEW t \in Terminals, NEW g \in Seq(Row), Below(t), NEW l \in Row, NEW x \in Nat
    PROVE  LET w == Writes(t, l, x)
               h == GoneAfter(g, t, x)
               page == [Window(g, t) EXCEPT ![Len(Window(g, t))] = l]
           IN  /\ w \in Terminals /\ h \in Seq(Row) /\ Below(w)
               /\ IF x < VGA_WIDTH THEN Window(h, w) = page /\ w.column = x
                  ELSE Window(h, w) = Append(page, BlankRow) /\ w.column = 0
<1> DEFINE page == [Window(g, t) EXCEPT ![Len(Window(g, t))] = l]
           s == Stays(t, l, 0)
<1> USE DEF Writes, GoneAfter
<1>1. CASE x < VGA_WIDTH
  <2>1. x \in 0..(VGA_WIDTH - 1)
    BY <1>1, TerminalAssumption
  <2>2. Stays(t, l, x).column = x
    BY DEF Stays
  <2> QED BY <1>1, <2>1, <2>2, StaysWrites
<1>2. CASE ~(x < VGA_WIDTH)
  <2>1. 0 \in 0..(VGA_WIDTH - 1)
    BY TerminalAssumption
  <2>2. s \in Terminals /\ Below(s) /\ Window(g, s) = page
    BY <2>1, StaysWrites
  <2>3. s.row = t.row /\ s.cells = [t.cells EXCEPT ![t.row + 1] = l]
    BY DEF Stays
  <2> HIDE DEF s, page
  <2>4. CASE t.row = VGA_HEIGHT - 1
    <3> DEFINE d == [row |-> s.row, column |-> 0, cells |-> Shifted(s.cells)]
    <3>1. s.cells[1] = t.cells[1]
      <4>1. t.row + 1 # 1 /\ t.cells \in [1..VGA_HEIGHT -> Row] /\ 1 \in 1..VGA_HEIGHT
        BY <2>4, TerminalAssumption DEF Terminals
      <4> QED BY <4>1, <2>3
    <3>2. Writes(t, l, x) = d
      BY <1>2, <2>3, <2>4 DEF Turns, RollsUp
    <3>3. /\ d \in Terminals /\ Below(d)
          /\ Append(g, s.cells[1]) \in Seq(Row)
          /\ Window(Append(g, s.cells[1]), d) = Append(Window(g, s), BlankRow)
      BY <2>2, <2>3, <2>4, ScrolledRow
    <3>4. d.column = 0
      OBVIOUS
    <3> HIDE DEF d
    <3> QED BY <1>2, <2>2, <2>4, <3>1, <3>2, <3>3, <3>4 DEF page
  <2>5. CASE t.row # VGA_HEIGHT - 1
    <3> DEFINE d == [row |-> s.row + 1, column |-> 0, cells |-> s.cells]
    <3>1. Writes(t, l, x) = d
      BY <1>2, <2>3, <2>5 DEF Turns, StepsDown
    <3>2. /\ d \in Terminals /\ Below(d)
          /\ Window(g, d) = Append(Window(g, s), BlankRow)
      BY <2>2, <2>3, <2>5, LowerRow
    <3>3. d.column = 0
      OBVIOUS
    <3> HIDE DEF d
    <3> QED BY <1>2, <2>2, <2>5, <3>1, <3>2, <3>3 DEF page
  <2> QED BY <2>4, <2>5
<1> QED BY <1>1, <1>2

-------------------------------------------------------------------------------
(* The steps of Screen. *)

Inv == term \in Terminals /\ gone \in Seq(Row) /\ Below(term)

(* A step that writes a line is a step of Paper that writes it. *)
LEMMA StepWrites ==
    ASSUME Inv, NEW l \in Row, NEW x \in Nat,
           term' = Writes(term, l, x), gone' = GoneAfter(gone, term, x)
    PROVE  Inv' /\ Roll!WriteLine(l, x)
<1> DEFINE w == Writes(term, l, x)
           h == GoneAfter(gone, term, x)
           page == [Window(gone, term) EXCEPT ![Len(Window(gone, term))] = l]
<1>0. /\ w \in Terminals /\ h \in Seq(Row) /\ Below(w)
      /\ IF x < VGA_WIDTH THEN Window(h, w) = page /\ w.column = x
         ELSE Window(h, w) = Append(page, BlankRow) /\ w.column = 0
  BY Written, Zenon DEF Inv
<1> HIDE DEF w, h
<1>1. /\ term' \in Terminals /\ gone' \in Seq(Row) /\ Below(term')
      /\ IF x < VGA_WIDTH THEN Window(gone', term') = page /\ term'.column = x
         ELSE Window(gone', term') = Append(page, BlankRow) /\ term'.column = 0
  BY <1>0 DEF w, h
<1>2. Inv'
  BY <1>1 DEF Inv, Below, Terminals
<1> QED BY <1>1, <1>2 DEF Roll!WriteLine, Roll!EmptyLine, Window, BlankRow

(* The last line of the roll is the cursor's row. *)
LEMMA LastLine ==
    ASSUME Inv
    PROVE  Roll!Last(gone \o SubSeq(term.cells, 1, term.row + 1)) = Current(term)
<1> DEFINE p == Window(gone, term)
<1>1. term.row \in Nat /\ Len(gone) \in Nat
  BY DEF Inv, Terminals
<1>2. /\ Len(p) = Len(gone) + term.row + 1
      /\ \A i \in 1..(Len(gone) + term.row + 1) :
           p[i] = IF i <= Len(gone) THEN gone[i] ELSE term.cells[i - Len(gone)]
  BY WindowIs DEF Inv
<1> HIDE DEF p
<1>3. /\ Len(p) \in 1..(Len(gone) + term.row + 1) /\ ~(Len(p) <= Len(gone))
      /\ Len(p) - Len(gone) = term.row + 1
  BY <1>1, <1>2
<1>4. p[Len(p)] = Current(term)
  BY <1>2, <1>3 DEF Current
<1> QED BY <1>4 DEF Roll!Last, p, Window

(* '\n' starts a line of the roll. *)
LEMMA StepNewline ==
    ASSUME Inv, Put(NL) PROVE Inv' /\ Roll!NewLine
<1>1. term \in Terminals /\ Current(term) \in Row /\ VGA_WIDTH \in Nat
  BY CurrentIsRow, TerminalAssumption DEF Inv
<1>2. term' = Writes(term, Current(term), VGA_WIDTH)
  BY <1>1, PutNewline DEF Put
<1>3. gone' = GoneAfter(gone, term, VGA_WIDTH)
  BY <1>1 DEF Put, Scrolls, GoneAfter, NL, TAB
<1> QED BY <1>1, <1>2, <1>3, StepWrites, LastLine DEF Roll!NewLine

(* '\r' takes the pen back. *)
LEMMA StepReturn ==
    ASSUME Inv, Put(CR) PROVE Inv' /\ Roll!Return
<1>1. term \in Terminals /\ Current(term) \in Row /\ 0 < VGA_WIDTH
  BY CurrentIsRow, TerminalAssumption DEF Inv
<1>2. term' = Writes(term, Current(term), 0)
  BY <1>1, PutReturn DEF Put
<1>3. CR \notin Glyph
  BY TerminalAssumption DEF Control
<1>4. gone' = GoneAfter(gone, term, 0)
  BY <1>1, <1>3 DEF Put, Scrolls, GoneAfter, NL, TAB, CR
<1> QED BY <1>1, <1>2, <1>4, StepWrites, LastLine DEF Roll!Return

(* '\t' takes the pen to the next stop, or starts a line. *)
LEMMA StepTab ==
    ASSUME Inv, Put(TAB) PROVE Inv' /\ Roll!Tabulate
<1> DEFINE x == TabColumn(term.column)
<1>0. term \in Terminals /\ term.column \in Nat
  BY DEF Inv, Terminals
<1>1. Current(term) \in Row /\ VGA_WIDTH \in Nat /\ x \in Nat
  BY <1>0, CurrentIsRow, TabIsColumn, TerminalAssumption
<1>2. term' = Writes(term, Current(term), x)
  BY <1>0, PutTab DEF Put
<1>3. TAB \notin Glyph
  BY TerminalAssumption DEF Control
<1>4. x >= VGA_WIDTH <=> ~(x < VGA_WIDTH)
  BY <1>1
<1>5. gone' = GoneAfter(gone, term, x)
  BY <1>3, <1>4 DEF Put, Scrolls, GoneAfter, NL, TAB
<1>6. Inv' /\ Roll!WriteLine(Current(term), x)
  BY <1>1, <1>2, <1>5, StepWrites
<1> QED BY <1>6, LastLine DEF Roll!Tabulate, TabColumn

(* At the left edge Backspace does nothing. *)
LEMMA StepBackspace ==
    ASSUME Inv, Put(BS) PROVE Inv' /\ (Roll!RubOut \/ UNCHANGED vars)
<1>1. /\ term \in Terminals /\ Current(term) \in Row
      /\ term.column \in Nat /\ term.column <= VGA_WIDTH
      /\ VGA_WIDTH \in Nat
  BY CurrentIsRow, TerminalAssumption DEF Inv, Terminals
<1>2. BS \notin Glyph
  BY TerminalAssumption DEF Control
<1>3. ~Scrolls(term, BS) /\ gone' = gone
  BY <1>2 DEF Put, Scrolls, NL, TAB, BS
<1>4. CASE term.column = 0
  <2>1. term' = term
    BY <1>4 DEF Put, terminal_putchar, NL, CR, TAB, BS
  <2> QED BY <2>1, <1>3 DEF Inv, vars
<1>5. CASE term.column > 0
  <2> DEFINE l == [Current(term) EXCEPT ![term.column] = SPACE]
             x == term.column - 1
  <2>1. x \in Nat /\ x < VGA_WIDTH /\ term.column \in 1..VGA_WIDTH
    BY <1>1, <1>5
  <2>2. l \in Row
    BY <1>1, <2>1, RowPainted, TerminalAssumption
  <2>3. term' = Writes(term, l, x)
    BY <1>1, <1>5, PutBackspace DEF Put
  <2>4. gone' = GoneAfter(gone, term, x)
    BY <1>3, <2>1 DEF GoneAfter
  <2>5. Inv' /\ Roll!WriteLine(l, x)
    <3> HIDE DEF l, x
    <3> QED BY <2>1, <2>2, <2>3, <2>4, StepWrites
  <2> QED BY <1>5, <2>5, LastLine DEF Roll!RubOut
<1> QED BY <1>1, <1>4, <1>5

(* Any other character is struck on the last line. *)
LEMMA StepGlyph ==
    ASSUME Inv, NEW c \in Glyph, Put(c) PROVE Inv' /\ Roll!Strike(c)
<1> DEFINE l == [Current(term) EXCEPT ![term.column + 1] = c]
           x == term.column + 1
<1>1. /\ term \in Terminals /\ Current(term) \in Row
      /\ x \in Nat /\ x \in 1..VGA_WIDTH /\ VGA_WIDTH \in Nat
      /\ (term.column = VGA_WIDTH - 1 <=> ~(x < VGA_WIDTH))
  <2>1. term \in Terminals /\ term.column \in 0..(VGA_WIDTH - 1)
    BY DEF Inv, Terminals
  <2> QED BY <2>1, CurrentIsRow, TerminalAssumption
<1>2. l \in Row
  BY <1>1, RowPainted
<1>3. term' = Writes(term, l, x)
  BY <1>1, PutGlyph DEF Put
<1>4. c # NL /\ c # TAB
  BY TerminalAssumption DEF Control
<1>5. gone' = GoneAfter(gone, term, x)
  <2> HIDE DEF x
  <2> QED BY <1>1, <1>4 DEF Put, Scrolls, GoneAfter
<1>6. Inv' /\ Roll!WriteLine(l, x)
  <2> HIDE DEF l, x
  <2> QED BY <1>1, <1>2, <1>3, <1>5, StepWrites
<1> QED BY <1>6, LastLine DEF Roll!Strike

(* A blank screen shows a roll of one blank line. *)
LEMMA BlankScreen ==
    ASSUME NEW t, t = [row |-> 0, column |-> 0, cells |-> BlankCells]
    PROVE  t \in Terminals /\ Below(t) /\ Window(<< >>, t) = <<BlankRow>>
<1>1. BlankCells \in [1..VGA_HEIGHT -> Row]
  BY BlankIsRow DEF BlankCells
<1>2. /\ t \in Terminals
      /\ t.row = 0 /\ t.column = 0 /\ t.cells = BlankCells
  BY <1>1, TerminalAssumption DEF Terminals
<1>3. Below(t)
  BY <1>2, TerminalAssumption DEF Below, BlankCells
<1> DEFINE g == << >>
<1>4. g \in Seq(Row) /\ Len(g) = 0 /\ Len(g) + t.row + 1 = 1
  BY <1>2
<1> HIDE DEF g
<1>5. /\ Window(g, t) \in Seq(Row) /\ Len(Window(g, t)) = Len(g) + t.row + 1
      /\ \A i \in 1..(Len(g) + t.row + 1) :
           Window(g, t)[i] = IF i <= Len(g) THEN g[i] ELSE t.cells[i - Len(g)]
  BY <1>2, <1>4, WindowIs
<1>6. Window(g, t)[1] = BlankCells[1]
  BY <1>2, <1>4, <1>5
<1>7. Window(g, t) \in Seq(Row) /\ Len(Window(g, t)) = 1 /\ Window(g, t)[1] = BlankRow
  BY <1>4, <1>5, <1>6, TerminalAssumption DEF BlankCells
<1>8. <<BlankRow>> \in Seq(Row) /\ Len(<<BlankRow>>) = 1 /\ <<BlankRow>>[1] = BlankRow
  BY BlankIsRow
<1>9. Window(g, t) = <<BlankRow>>
  BY <1>7, <1>8, SameLines
<1> QED BY <1>2, <1>3, <1>9 DEF g

(* terminal_clear throws the roll away. *)
LEMMA StepClear ==
    ASSUME Inv, Clear PROVE Inv' /\ Roll!TearOff
<1>1. term' = [row |-> 0, column |-> 0, cells |-> BlankCells] /\ gone' = << >>
  BY DEF Clear, terminal_clear, Inv, Terminals
<1>2. term' \in Terminals /\ Below(term') /\ Window(gone', term') = <<BlankRow>>
  BY <1>1, BlankScreen
<1>3. Inv'
  BY <1>1, <1>2 DEF Inv, Below, Terminals
<1> QED BY <1>1, <1>2, <1>3 DEF Roll!TearOff, Roll!EmptyLine, BlankRow, Window

(* The invariant is kept, and each step is one of the roll or changes      *)
(* nothing of it.                                                          *)
LEMMA NextStep ==
    ASSUME Inv, [Next]_vars
    PROVE  Inv' /\ [Roll!Next]_<<gone \o SubSeq(term.cells, 1, term.row + 1), term.column>>
<1>1. CASE Clear
  BY <1>1, StepClear DEF Roll!Next
<1>2. ASSUME NEW c \in Glyph, Put(c) PROVE Inv' /\ Roll!Next
  BY <1>2, StepGlyph DEF Roll!Next
<1>3. CASE Put(NL)
  BY <1>3, StepNewline DEF Roll!Next
<1>4. CASE Put(CR)
  BY <1>4, StepReturn DEF Roll!Next
<1>5. CASE Put(TAB)
  BY <1>5, StepTab DEF Roll!Next
<1>6. CASE UNCHANGED vars
  BY <1>6 DEF vars, Inv, Below, Terminals
<1>7. CASE Put(BS)
  <2>1. Inv' /\ (Roll!RubOut \/ UNCHANGED vars)
    BY <1>7, StepBackspace
  <2> QED BY <2>1, <1>6 DEF Roll!Next
<1> QED BY <1>1, <1>2, <1>3, <1>4, <1>5, <1>6, <1>7 DEF Next, Control

(* terminal_initialize establishes it, with an empty roll. *)
LEMMA InitInv == Init => Inv /\ Roll!Init
<1> SUFFICES ASSUME Init PROVE Inv /\ Roll!Init
  OBVIOUS
<1>1. term = [row |-> 0, column |-> 0, cells |-> BlankCells] /\ gone = << >>
  BY DEF Init, terminal_initialize
<1>2. term \in Terminals /\ Below(term) /\ Window(gone, term) = <<BlankRow>>
  BY <1>1, BlankScreen
<1> QED BY <1>1, <1>2 DEF Inv, Roll!Init, Roll!EmptyLine, BlankRow, Window

(* The inductive invariant that the other theorems about the terminal's    *)
(* functions follow from.                                                  *)
THEOREM ScreenInv == Spec => []Inv
  BY InitInv, NextStep, PTL DEF Spec

(* The type invariant of Screen: after every character that                *)
(* terminal_putchar prints, the cursor is on the screen, whatever its size.*)
THEOREM ScreenTypeCorrect == Spec => []TypeOK
<1>1. Inv => TypeOK
  BY DEF Inv, TypeOK, Terminals
<1> QED BY <1>1, ScreenInv, PTL

(* Nothing is shown below the cursor: terminal_scroll clears the row it    *)
(* frees.                                                                  *)
THEOREM NothingBelow == Spec => []BelowBlank
<1>1. Inv => BelowBlank
  BY DEF Inv, Below, BelowBlank
<1> QED BY <1>1, ScreenInv, PTL

(* terminal_putchar, terminal_scroll and terminal_clear implement the roll *)
(* of paper: no row is lost or repeated.                                   *)
THEOREM ScreenImplementsPaper == Spec => ImplementsPaper
  BY InitInv, NextStep, ScreenInv, PTL DEF Spec, ImplementsPaper, Roll!Spec

===============================================================================
