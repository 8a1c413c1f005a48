----------------------------- MODULE EditorProofs -----------------------------
(***************************************************************************)
(* The editor's type invariant, its cursor and the changes it keeps; that  *)
(* a move key shows the cursor, Backspace takes back what was typed, and   *)
(* what a save writes fits its buffer and opens as the text it was; for    *)
(* every size of the buffer and every file.                                *)
(*                                                                         *)
(* TypeOK is not inductive without CursorInText: o, Enter and Backspace    *)
(* cut the text where the cursor is.  That only q! drops changes needs one *)
(* fact more, Honest: an unmodified text is the stored one.                *)
(***************************************************************************)
EXTENDS Editor, Loops, SequenceTheorems, TLAPS

(* The types and the cursor, of one editor state. *)
EdOK(e) ==
    /\ e \in [lines : Texts, cursor_x : Nat, cursor_y : Nat,
              view_start_line : Nat, mode : Mode, modified : BOOLEAN,
              command : Seq(CommandChar), overrun : BOOLEAN]
    /\ Len(e.command) <= MAX_COMMAND
    /\ e.cursor_y < Len(e.lines)
    /\ e.cursor_x <= Len(Row(e))

(* An unmodified text is the text as it was opened or last stored. *)
Honest == ed.modified \/ ed.lines = stored

(* The inductive invariant. *)
Inv == EdOK(ed) /\ stored \in Texts /\ Honest

(* What a key may do that neither saves nor leaves the editor: it keeps    *)
(* the types and the cursor, and marks the text when it changes it.        *)
Keeps(e, r) ==
    /\ EdOK(r)
    /\ r.mode # "EXIT"
    /\ r.modified \/ (~e.modified /\ r.lines = e.lines)

-------------------------------------------------------------------------------
(* Lines and texts. *)

(* The empty line and the text of one empty line. *)
LEMMA EmptyLine == << >> \in Line /\ << << >> >> \in Texts
<1>1. << >> \in Line
  BY EditorAssumption DEF Line
<1> QED BY <1>1, EditorAssumption DEF Texts

(* Two pieces of a line, or of two lines, that are short enough together.  *)
LEMMA ConcatLine ==
    ASSUME NEW l \in Seq(Char), NEW m \in Seq(Char),
           Len(l) + Len(m) < EDITOR_MAX_LINE_LENGTH
    PROVE  l \o m \in Line /\ Len(l \o m) = Len(l) + Len(m)
BY ConcatProperties DEF Line

(* Cutting a line at x. *)
LEMMA CutLine ==
    ASSUME NEW l \in Line, NEW x \in 0..Len(l)
    PROVE  /\ SubSeq(l, 1, x) \in Line /\ Len(SubSeq(l, 1, x)) = x
           /\ SubSeq(l, x + 1, Len(l)) \in Line
           /\ Len(SubSeq(l, x + 1, Len(l))) = Len(l) - x
<1>1. l \in Seq(Char) /\ Len(l) \in Nat /\ Len(l) < EDITOR_MAX_LINE_LENGTH
  BY DEF Line
<1>2. SubSeq(l, 1, x) \in Seq(Char) /\ Len(SubSeq(l, 1, x)) = x
  <2>1. \A i \in 1..x : l[i] \in Char
    BY <1>1
  <2> QED BY <1>1, <2>1, SubSeqProperties
<1>3. /\ SubSeq(l, x + 1, Len(l)) \in Seq(Char)
      /\ Len(SubSeq(l, x + 1, Len(l))) = Len(l) - x
  <2>1. \A i \in (x + 1)..Len(l) : l[i] \in Char
    BY <1>1
  <2> QED BY <1>1, <2>1, SubSeqProperties
<1> QED BY <1>1, <1>2, <1>3, EditorAssumption DEF Line

(* The elements of a concatenation, the second part's by their offset. *)
LEMMA ConcatAt ==
    ASSUME NEW S, NEW a \in Seq(S), NEW b \in Seq(S)
    PROVE  /\ a \o b \in Seq(S)
           /\ Len(a \o b) = Len(a) + Len(b)
           /\ \A j \in 1..Len(a) : (a \o b)[j] = a[j]
           /\ \A j \in 1..Len(b) : (a \o b)[Len(a) + j] = b[j]
<1>1. a \o b \in Seq(S) /\ Len(a \o b) = Len(a) + Len(b)
  BY ConcatProperties
<1>2. \A j \in 1..Len(a) : (a \o b)[j] = a[j]
  BY ConcatProperties
<1>3. \A j \in 1..Len(b) : (a \o b)[Len(a) + j] = b[j]
  <2> TAKE j \in 1..Len(b)
  <2>1. /\ Len(a) + j \in 1..(Len(a) + Len(b)) /\ ~(Len(a) + j <= Len(a))
        /\ (Len(a) + j) - Len(a) = j
    OBVIOUS
  <2> QED BY <2>1, ConcatProperties
<1> QED BY <1>1, <1>2, <1>3

(* Replacing one line of a text by some others. *)
LEMMA SpliceText ==
    ASSUME NEW t \in Seq(Line), NEW i \in 1..Len(t), NEW new \in Seq(Line)
    PROVE  /\ Splice(t, i, new) \in Seq(Line)
           /\ Len(Splice(t, i, new)) = Len(t) - 1 + Len(new)
           /\ \A j \in 1..(i - 1) : Splice(t, i, new)[j] = t[j]
           /\ \A j \in 1..Len(new) : Splice(t, i, new)[i - 1 + j] = new[j]
           /\ \A j \in (i + 1)..Len(t) :
                Splice(t, i, new)[j - 1 + Len(new)] = t[j]
<1> DEFINE a == SubSeq(t, 1, i - 1)
           b == SubSeq(t, i + 1, Len(t))
<1>1. Len(t) \in Nat /\ i \in Nat /\ Len(new) \in Nat
  OBVIOUS
<1>2. a \in Seq(Line) /\ Len(a) = i - 1 /\ \A j \in 1..(i - 1) : a[j] = t[j]
  BY <1>1
<1>3. /\ b \in Seq(Line) /\ Len(b) = Len(t) - i
      /\ \A j \in 1..(Len(t) - i) : b[j] = t[i + j]
  BY <1>1
<1>4. /\ a \o new \in Seq(Line) /\ Len(a \o new) = i - 1 + Len(new)
      /\ \A j \in 1..(i - 1) : (a \o new)[j] = a[j]
      /\ \A j \in 1..Len(new) : (a \o new)[i - 1 + j] = new[j]
  <2> HIDE DEF a
  <2>1. /\ a \o new \in Seq(Line) /\ Len(a \o new) = Len(a) + Len(new)
        /\ \A j \in 1..Len(a) : (a \o new)[j] = a[j]
        /\ \A j \in 1..Len(new) : (a \o new)[Len(a) + j] = new[j]
    <3>1. a \in Seq(Line) /\ new \in Seq(Line)
      BY <1>2
    <3> QED BY <3>1, ConcatAt
  <2> QED BY <1>2, <2>1
<1> DEFINE c == a \o new
<1>5. Splice(t, i, new) = c \o b
  BY DEF Splice
<1> HIDE DEF a, b, c
<1>6. /\ c \o b \in Seq(Line) /\ Len(c \o b) = Len(c) + Len(b)
      /\ \A j \in 1..Len(c) : (c \o b)[j] = c[j]
      /\ \A j \in 1..Len(b) : (c \o b)[Len(c) + j] = b[j]
  <2>1. c \in Seq(Line) /\ b \in Seq(Line)
    BY <1>3, <1>4 DEF c
  <2> QED BY <2>1, ConcatAt
<1>7. \A j \in (i + 1)..Len(t) : (c \o b)[j - 1 + Len(new)] = t[j]
  <2> TAKE j \in (i + 1)..Len(t)
  <2>1. j - i \in 1..Len(b) /\ Len(c) + (j - i) = j - 1 + Len(new) /\ i + (j - i) = j
    BY <1>1, <1>3, <1>4 DEF c
  <2> QED BY <1>1, <1>3, <1>6, <2>1
<1>8. \A j \in 1..(i - 1) : (c \o b)[j] = t[j]
  BY <1>1, <1>2, <1>4, <1>6 DEF c
<1>9. \A j \in 1..Len(new) : (c \o b)[i - 1 + j] = new[j]
  BY <1>1, <1>4, <1>6 DEF c
<1>10. Len(c \o b) = Len(t) - 1 + Len(new)
  BY <1>1, <1>3, <1>4, <1>6 DEF c
<1> QED BY <1>5, <1>6, <1>7, <1>8, <1>9, <1>10

(* The length of such a text, alone. *)
LEMMA SpliceLen ==
    ASSUME NEW t \in Seq(Line), NEW i \in 1..Len(t), NEW new \in Seq(Line)
    PROVE  /\ Splice(t, i, new) \in Seq(Line)
           /\ Len(Splice(t, i, new)) = Len(t) - 1 + Len(new)
BY SpliceText

(* Taking one line out of a text. *)
LEMMA RemoveText ==
    ASSUME NEW t \in Seq(Line), NEW i \in 1..Len(t)
    PROVE  /\ Splice(t, i, << >>) \in Seq(Line)
           /\ Len(Splice(t, i, << >>)) = Len(t) - 1
           /\ i < Len(t) => Splice(t, i, << >>)[i] = t[i + 1]
<1> DEFINE none == << >>
           r == Splice(t, i, none)
<1>1. none \in Seq(Line) /\ Len(none) = 0 /\ Len(t) \in Nat /\ i \in Nat
  OBVIOUS
<1> HIDE DEF none
<1>2. /\ r \in Seq(Line) /\ Len(r) = Len(t) - 1 + Len(none)
      /\ \A j \in (i + 1)..Len(t) : r[j - 1 + Len(none)] = t[j]
  <2>1. none \in Seq(Line)
    BY <1>1
  <2> QED BY <2>1, SpliceText, Zenon
<1> HIDE DEF r
<1>3. ASSUME i < Len(t) PROVE r[i] = t[i + 1]
  <2>1. i + 1 \in (i + 1)..Len(t) /\ (i + 1) - 1 + Len(none) = i
    BY <1>1, <1>3
  <2> QED BY <1>2, <2>1
<1> QED BY <1>1, <1>2, <1>3 DEF r, none

-------------------------------------------------------------------------------
(* Opening a file. *)

(* What editor_open has read at any time. *)
Partial ==
    {p \in [full : Seq(Line), row : Line] :
        /\ Len(p.full) <= EDITOR_MAX_LINES
        /\ Len(p.full) = EDITOR_MAX_LINES => p.row = << >>}

(* One more character keeps the rows and their number in bounds. *)
LEMMA ReadCharPartial ==
    ASSUME NEW p \in Partial, NEW c \in Char \cup {NL}
    PROVE  ReadChar(p, c) \in Partial
<1>1. /\ p.full \in Seq(Line) /\ Len(p.full) \in Nat
      /\ p.row \in Line /\ p.row \in Seq(Char) /\ Len(p.row) \in Nat
      /\ Len(p.full) <= EDITOR_MAX_LINES
  BY DEF Partial, Line
<1>2. EDITOR_MAX_LINES \in Nat /\ EDITOR_MAX_LINE_LENGTH \in Nat /\ << >> \in Line
  BY EditorAssumption, EmptyLine
<1>3. CASE Len(p.full) = EDITOR_MAX_LINES
  BY <1>3 DEF ReadChar
<1>4. CASE Len(p.full) # EDITOR_MAX_LINES /\ c = NL
  <2>1. Append(p.full, p.row) \in Seq(Line) /\ Len(Append(p.full, p.row)) = Len(p.full) + 1
    BY <1>1
  <2>2. ReadChar(p, c) = [full |-> Append(p.full, p.row), row |-> << >>]
    BY <1>4 DEF ReadChar
  <2> QED BY <1>1, <1>2, <1>4, <2>1, <2>2 DEF Partial
<1>5. CASE Len(p.full) # EDITOR_MAX_LINES /\ c # NL
  <2> DEFINE row == IF Len(p.row) < EDITOR_MAX_LINE_LENGTH - 1
                    THEN Append(p.row, c) ELSE p.row
  <2>1. c \in Char
    BY <1>5
  <2>2. row \in Line
    BY <1>1, <1>2, <2>1 DEF Line
  <2>3. ReadChar(p, c) = [full |-> p.full, row |-> row]
    BY <1>5 DEF ReadChar
  <2> QED BY <1>1, <1>2, <1>5, <2>2, <2>3 DEF Partial
<1> QED BY <1>3, <1>4, <1>5

(* The loop has a meaning: each turn reads one character more. *)
LEMMA ReadRowsSteps ==
    ASSUME NEW file \in Seq(Char \cup {NL})
    PROVE  /\ ReadRows(file)[0] = [full |-> << >>, row |-> << >>]
           /\ \A i \in 1..Len(file) : ReadRows(file)[i] = ReadChar(ReadRows(file)[i - 1], file[i])
           /\ \A i \in 0..Len(file) : ReadRows(file)[i] \in Partial
<1> DEFINE n == Len(file)
           S == Partial
           start == [full |-> << >>, row |-> << >>]
           Eq(f) == f = [i \in 0..n |->
                           IF i = 0 THEN start ELSE ReadChar(f[i - 1], file[i])]
           g == [i \in 1..n |-> [p \in S |-> ReadChar(p, file[i])]]
<1>1. n \in Nat /\ \A i \in 1..n : file[i] \in Char \cup {NL}
  OBVIOUS
<1>2. start \in S
  BY EmptyLine, EditorAssumption DEF Partial
<1>3. ASSUME NEW i \in 1..n, NEW p \in S PROVE ReadChar(p, file[i]) \in S
  BY <1>1, <1>3, ReadCharPartial
<1>4. g \in Steps(n, S)
  BY <1>3 DEF Steps
<1>5. \E f : Eq(f)
  <2>1. PICK f : Path(n, S, start, g, f)
    <3> HIDE DEF g, n, S, start
    <3> QED BY <1>1, <1>2, <1>4, StepByStep
  <2>2. ASSUME NEW i \in 1..n PROVE f[i] = ReadChar(f[i - 1], file[i])
    <3>1. f[i - 1] \in S
      BY <1>1, <2>1, <2>2 DEF Path
    <3> QED BY <2>1, <3>1 DEF Path
  <2>3. Eq(f)
    <3> HIDE DEF g, start
    <3> QED BY <2>1, <2>2 DEF Path
  <2> QED BY <2>3
<1>6. ReadRows(file) = CHOOSE f : Eq(f)
  BY DEF ReadRows
<1> DEFINE w == ReadRows(file)
<1>7. Eq(w)
  <2> HIDE DEF Eq
  <2> QED BY <1>5, <1>6
<1> DEFINE P == {i \in 0..n : w[i] \in S}
<1> HIDE DEF w, start
<1>8. 0 \in P
  BY <1>1, <1>2, <1>7
<1>9. ASSUME NEW i \in Nat, i < n, i \in P PROVE i + 1 \in P
  <2>1. w[i + 1] = ReadChar(w[i], file[i + 1])
    BY <1>1, <1>7, <1>9
  <2>2. w[i] \in S /\ i + 1 \in 1..n
    BY <1>1, <1>9
  <2> QED BY <1>1, <2>1, <2>2, <1>3
<1>10. \A i \in 0..n : i \in P
  <2> HIDE DEF P, n
  <2>1. \A i \in Nat : i < n /\ i \in P => i + 1 \in P
    BY <1>9
  <2> QED BY <1>1, <1>8, <2>1, UpTo
<1>11. w[0] = start /\ \A i \in 1..n : w[i] = ReadChar(w[i - 1], file[i])
  BY <1>1, <1>7
<1>12. \A i \in 0..n : w[i] \in S
  BY <1>10
<1> HIDE DEF P, S, g
<1> QED BY <1>11, <1>12 DEF w, start, S

(* So the rows and their number are in bounds for a whole file. *)
LEMMA ReadRowsPartial ==
    ASSUME NEW file \in Seq(Char \cup {NL})
    PROVE  ReadRows(file)[Len(file)] \in Partial
<1>1. Len(file) \in 0..Len(file)
  OBVIOUS
<1> QED BY <1>1, ReadRowsSteps

(* Whatever the file, editor_open makes a text that fits the buffer. *)
LEMMA OpenText ==
    ASSUME NEW file \in Seq(Char \cup {NL})
    PROVE  editor_open(file) \in Texts
<1> DEFINE end == ReadRows(file)[Len(file)]
           lines == IF end.row = << >> THEN end.full ELSE Append(end.full, end.row)
<1>1. end \in Partial
  BY ReadRowsPartial
<1> HIDE DEF end
<1>2. lines \in Seq(Line) /\ Len(lines) \in 0..EDITOR_MAX_LINES
  <2>1. end.full \in Seq(Line) /\ end.row \in Line /\ Len(end.full) \in Nat
    BY <1>1 DEF Partial
  <2>2. CASE end.row = << >>
    BY <1>1, <2>1, <2>2, EditorAssumption DEF Partial
  <2>3. CASE end.row # << >>
    <3>1. Len(end.full) < EDITOR_MAX_LINES
      BY <1>1, <2>1, <2>3, EditorAssumption DEF Partial
    <3> QED BY <2>1, <2>3, <3>1, EditorAssumption
  <2> QED BY <2>2, <2>3
<1>3. editor_open(file) = IF lines = << >> THEN << << >> >> ELSE lines
  BY DEF editor_open, end
<1> HIDE DEF lines
<1>4. CASE lines = << >>
  BY <1>3, <1>4, EmptyLine
<1>5. CASE lines # << >>
  BY <1>2, <1>3, <1>5, EditorAssumption DEF Texts
<1> QED BY <1>4, <1>5

-------------------------------------------------------------------------------
(* The keys. *)

(* The parts of an editor state, as the other proofs use them. *)
LEMMA Parts ==
    ASSUME NEW e, EdOK(e)
    PROVE  /\ e.lines \in Seq(Line) /\ Len(e.lines) \in 1..EDITOR_MAX_LINES
           /\ e.cursor_y \in Nat /\ e.cursor_y + 1 \in 1..Len(e.lines)
           /\ Row(e) \in Line /\ Len(Row(e)) \in Nat
           /\ e.cursor_x \in 0..Len(Row(e))
           /\ e.view_start_line \in Nat
           /\ EDITOR_MAX_LINES \in Nat /\ EDITOR_MAX_LINE_LENGTH \in Nat
           /\ VIEW_LINES \in Nat \ {0}
<1>1. /\ e.lines \in Texts /\ e.cursor_y \in Nat /\ e.cursor_x \in Nat
      /\ e.view_start_line \in Nat
      /\ e.cursor_y < Len(e.lines) /\ e.cursor_x <= Len(Row(e))
  BY DEF EdOK
<1>2. e.lines \in Seq(Line) /\ Len(e.lines) \in 1..EDITOR_MAX_LINES
  BY <1>1 DEF Texts
<1>3. EDITOR_MAX_LINES \in Nat /\ EDITOR_MAX_LINE_LENGTH \in Nat /\ VIEW_LINES \in Nat \ {0}
  BY EditorAssumption
<1>4. e.cursor_y + 1 \in 1..Len(e.lines)
  BY <1>1, <1>2, <1>3
<1>5. Row(e) \in Line
  BY <1>2, <1>4 DEF Row
<1>6. Len(Row(e)) \in Nat
  BY <1>5 DEF Line
<1> QED BY <1>1, <1>2, <1>3, <1>4, <1>5, <1>6

(* A state with another text, a cursor in it, and modified set. *)
LEMMA Retext ==
    ASSUME NEW e, EdOK(e),
           NEW t \in Seq(Line), Len(t) \in 1..EDITOR_MAX_LINES,
           NEW y \in Nat, y + 1 \in 1..Len(t), NEW x \in 0..Len(t[y + 1]),
           NEW m \in {"NORMAL", "INSERT", "COMMAND"}
    PROVE  Keeps(e, [e EXCEPT !.lines = t, !.cursor_y = y, !.cursor_x = x,
                              !.mode = m, !.modified = TRUE])
<1> DEFINE r == [e EXCEPT !.lines = t, !.cursor_y = y, !.cursor_x = x,
                          !.mode = m, !.modified = TRUE]
<1>1. t \in Texts /\ m \in Mode /\ x \in Nat
  <2>1. t[y + 1] \in Line
    OBVIOUS
  <2> QED BY <2>1 DEF Texts, Mode, Line
<1>2. /\ r \in [lines : Texts, cursor_x : Nat, cursor_y : Nat,
                view_start_line : Nat, mode : Mode, modified : BOOLEAN,
                command : Seq(CommandChar), overrun : BOOLEAN]
      /\ r.command = e.command /\ r.lines = t /\ r.cursor_y = y /\ r.cursor_x = x
      /\ r.mode = m /\ r.modified = TRUE
  BY <1>1 DEF EdOK
<1> HIDE DEF r
<1>3. EdOK(r)
  <2>1. Row(r) = t[y + 1]
    BY <1>2 DEF Row
  <2>2. Len(t) \in Nat /\ Len(t[y + 1]) \in Nat
    <3>1. t[y + 1] \in Line
      OBVIOUS
    <3> QED BY <3>1 DEF Line
  <2> QED BY <1>2, <2>1, <2>2 DEF EdOK
<1> QED BY <1>2, <1>3 DEF Keeps, r

(* A key that does nothing, or only changes the mode. *)
LEMMA Remode ==
    ASSUME NEW e, EdOK(e), NEW m \in {"NORMAL", "INSERT", "COMMAND"}
    PROVE  Keeps(e, [e EXCEPT !.mode = m])
<1> DEFINE r == [e EXCEPT !.mode = m]
<1>1. /\ r \in [lines : Texts, cursor_x : Nat, cursor_y : Nat,
                view_start_line : Nat, mode : Mode, modified : BOOLEAN,
                command : Seq(CommandChar), overrun : BOOLEAN]
      /\ r.command = e.command /\ r.lines = e.lines /\ r.cursor_y = e.cursor_y
      /\ r.cursor_x = e.cursor_x /\ r.mode = m /\ r.modified = e.modified
      /\ e.modified \in BOOLEAN
  BY DEF EdOK, Mode
<1>2. Row(r) = Row(e)
  BY <1>1 DEF Row
<1> HIDE DEF r
<1>3. EdOK(r)
  BY <1>1, <1>2 DEF EdOK
<1> QED BY <1>1, <1>3 DEF Keeps, r

(* editor_move_cursor puts any cursor back into the text; it needs no more *)
(* of the old one than that it is a number.                                *)
LEMMA MoveKeeps ==
    ASSUME NEW e, EdOK(e), e.mode # "EXIT", NEW k \in Nat,
           NEW dx \in Int, NEW dy \in Int
    PROVE  Keeps(e, editor_move_cursor([e EXCEPT !.cursor_x = k], dx, dy))
<1> DEFINE f == [e EXCEPT !.cursor_x = k]
           r == editor_move_cursor(f, dx, dy)
           Clip(i, max) == IF i < 0 THEN 0 ELSE IF i > max THEN max ELSE i
           y == Clip(f.cursor_y + dy, Len(f.lines) - 1)
           x == Clip(f.cursor_x + dx, Len(f.lines[y + 1]))
           v == IF y < f.view_start_line THEN y
                ELSE IF y >= f.view_start_line + VIEW_LINES THEN y - (VIEW_LINES - 1)
                ELSE f.view_start_line
<1>1. /\ f.lines = e.lines /\ f.cursor_y = e.cursor_y /\ f.cursor_x = k
      /\ f.view_start_line = e.view_start_line
  BY DEF EdOK
<1>2. r = [f EXCEPT !.cursor_x = x, !.cursor_y = y, !.view_start_line = v]
  BY DEF editor_move_cursor
<1>3. /\ e.lines \in Seq(Line) /\ Len(e.lines) \in 1..EDITOR_MAX_LINES
      /\ e.cursor_y \in Nat /\ e.view_start_line \in Nat
      /\ EDITOR_MAX_LINES \in Nat /\ VIEW_LINES \in Nat \ {0}
  BY Parts
<1>4. y \in Nat /\ y + 1 \in 1..Len(e.lines)
  <2>1. y = Clip(e.cursor_y + dy, Len(e.lines) - 1)
    BY <1>1
  <2>2. Len(e.lines) \in Nat /\ Len(e.lines) > 0
    BY <1>3
  <2> HIDE DEF f, y
  <2> QED BY <1>3, <2>1, <2>2
<1> HIDE DEF y
<1>5. e.lines[y + 1] \in Line
  BY <1>3, <1>4
<1>6. Len(e.lines[y + 1]) \in Nat
  BY <1>5 DEF Line
<1>7. x \in 0..Len(e.lines[y + 1])
  BY <1>1, <1>4, <1>6
<1>8. v \in Nat
  BY <1>1, <1>3, <1>4
<1> HIDE DEF x, v, r
<1>9. /\ r \in [lines : Texts, cursor_x : Nat, cursor_y : Nat,
                view_start_line : Nat, mode : Mode, modified : BOOLEAN,
                command : Seq(CommandChar), overrun : BOOLEAN]
      /\ r.command = e.command /\ r.lines = e.lines /\ r.cursor_y = y
      /\ r.cursor_x = x /\ r.mode = e.mode /\ r.modified = e.modified
      /\ e.modified \in BOOLEAN
  <2>1. x \in Nat /\ y \in Nat
    BY <1>4, <1>6, <1>7
  <2>2. r = [e EXCEPT !.cursor_x = x, !.cursor_y = y, !.view_start_line = v]
    BY <1>2 DEF EdOK
  <2> HIDE DEF f
  <2> QED BY <1>8, <2>1, <2>2 DEF EdOK
<1>10. Row(r) = e.lines[y + 1]
  BY <1>9 DEF Row
<1>11. EdOK(r)
  BY <1>3, <1>4, <1>6, <1>7, <1>9, <1>10 DEF EdOK
<1> QED BY <1>9, <1>11 DEF Keeps, r

(* Replacing the cursor's line. *)
LEMMA SetRowText ==
    ASSUME NEW e, EdOK(e), NEW l \in Line
    PROVE  /\ SetRow(e, l) \in Seq(Line)
           /\ Len(SetRow(e, l)) = Len(e.lines)
           /\ SetRow(e, l)[e.cursor_y + 1] = l
<1>1. e.lines \in Seq(Line) /\ e.cursor_y + 1 \in 1..Len(e.lines)
  BY Parts
<1> QED BY <1>1 DEF SetRow

(* A line without its i-th character. *)
LEMMA RemoveAtLine ==
    ASSUME NEW l \in Line, NEW i \in 1..Len(l)
    PROVE  RemoveAt(l, i) \in Line /\ Len(RemoveAt(l, i)) = Len(l) - 1
<1> DEFINE a == SubSeq(l, 1, i - 1)
           b == SubSeq(l, i + 1, Len(l))
<1>1. Len(l) \in Nat /\ Len(l) < EDITOR_MAX_LINE_LENGTH /\ EDITOR_MAX_LINE_LENGTH \in Nat
  BY EditorAssumption DEF Line
<1>2. i - 1 \in 0..Len(l) /\ i \in 0..Len(l)
  BY <1>1
<1>3. a \in Line /\ Len(a) = i - 1
  BY <1>2, CutLine
<1>4. b \in Line /\ Len(b) = Len(l) - i
  BY <1>2, CutLine
<1>5. RemoveAt(l, i) = a \o b
  BY DEF RemoveAt
<1> HIDE DEF a, b
<1>6. a \in Seq(Char) /\ b \in Seq(Char) /\ Len(a) + Len(b) < EDITOR_MAX_LINE_LENGTH
  BY <1>1, <1>2, <1>3, <1>4 DEF Line
<1>7. a \o b \in Line /\ Len(a \o b) = Len(a) + Len(b)
  BY <1>6, ConcatLine
<1> QED BY <1>1, <1>3, <1>4, <1>5, <1>7

(* Typing a character, or Enter. *)
LEMMA InsertKeeps ==
    ASSUME NEW e, EdOK(e), e.mode = "INSERT", NEW c \in Char \cup {NL}
    PROVE  Keeps(e, editor_insert_char(e, c))
<1> DEFINE left  == SubSeq(Row(e), 1, e.cursor_x)
           right == SubSeq(Row(e), e.cursor_x + 1, Len(Row(e)))
           r == editor_insert_char(e, c)
<1>1. /\ e.lines \in Seq(Line) /\ Len(e.lines) \in 1..EDITOR_MAX_LINES
      /\ e.cursor_y \in Nat /\ e.cursor_y + 1 \in 1..Len(e.lines)
      /\ Row(e) \in Line /\ Len(Row(e)) \in Nat /\ e.cursor_x \in 0..Len(Row(e))
      /\ EDITOR_MAX_LINES \in Nat /\ EDITOR_MAX_LINE_LENGTH \in Nat
  BY Parts
<1>2. /\ left \in Line /\ Len(left) = e.cursor_x
      /\ right \in Line /\ Len(right) = Len(Row(e)) - e.cursor_x
  BY <1>1, CutLine
<1> HIDE DEF left, right
<1>3. CASE c = NL /\ Len(e.lines) < EDITOR_MAX_LINES - 1
  <2> DEFINE t == Splice(e.lines, e.cursor_y + 1, <<left, right>>)
             y == e.cursor_y + 1
  <2>1. r = [e EXCEPT !.lines = t, !.cursor_y = y, !.cursor_x = 0, !.modified = TRUE]
    BY <1>3 DEF editor_insert_char, left, right
  <2>2. r = [e EXCEPT !.lines = t, !.cursor_y = y, !.cursor_x = 0,
                      !.mode = "INSERT", !.modified = TRUE]
    BY <2>1 DEF EdOK
  <2>3. <<left, right>> \in Seq(Line) /\ Len(<<left, right>>) = 2
    BY <1>2
  <2>4. t \in Seq(Line) /\ Len(t) = Len(e.lines) - 1 + Len(<<left, right>>)
    <3> DEFINE new == <<left, right>>
    <3>1. new \in Seq(Line)
      BY <2>3
    <3>2. e.lines \in Seq(Line) /\ y \in 1..Len(e.lines)
      BY <1>1
    <3> HIDE DEF new, y
    <3>3. /\ Splice(e.lines, y, new) \in Seq(Line)
          /\ Len(Splice(e.lines, y, new)) = Len(e.lines) - 1 + Len(new)
      BY <3>1, <3>2, SpliceLen
    <3> QED BY <3>3 DEF new, y
  <2>5. Len(t) \in 1..EDITOR_MAX_LINES /\ y \in Nat /\ y + 1 \in 1..Len(t)
    <3> HIDE DEF t
    <3>1. Len(t) = Len(e.lines) + 1
      BY <1>1, <2>3, <2>4
    <3> QED BY <1>1, <1>3, <3>1
  <2>6. t[y + 1] \in Line
    BY <2>4, <2>5
  <2>7. 0 \in 0..Len(t[y + 1])
    BY <2>6 DEF Line
  <2> HIDE DEF t, y, r
  <2>8. Keeps(e, [e EXCEPT !.lines = t, !.cursor_y = y, !.cursor_x = 0,
                           !.mode = "INSERT", !.modified = TRUE])
    BY <2>4, <2>5, <2>7, Retext
  <2> QED BY <2>2, <2>8 DEF r
<1>4. CASE c # NL /\ Len(Row(e)) < EDITOR_MAX_LINE_LENGTH - 1
  <2> DEFINE l == left \o <<c>> \o right
             t == SetRow(e, l)
             x == e.cursor_x + 1
  <2>1. r = [e EXCEPT !.lines = t, !.cursor_x = x, !.modified = TRUE]
    BY <1>4 DEF editor_insert_char, left, right
  <2>2. r = [e EXCEPT !.lines = t, !.cursor_y = e.cursor_y, !.cursor_x = x,
                      !.mode = "INSERT", !.modified = TRUE]
    BY <2>1 DEF EdOK
  <2>3. <<c>> \in Seq(Char) /\ Len(<<c>>) = 1
    BY <1>4
  <2>4. left \o <<c>> \in Line /\ Len(left \o <<c>>) = e.cursor_x + 1
    <3>1. left \in Seq(Char) /\ Len(left) + Len(<<c>>) < EDITOR_MAX_LINE_LENGTH
      BY <1>1, <1>2, <1>4, <2>3 DEF Line
    <3> QED BY <1>2, <2>3, <3>1, ConcatLine
  <2>5. l \in Line /\ Len(l) = Len(Row(e)) + 1
    <3> DEFINE m == left \o <<c>>
    <3>1. l = m \o right /\ m \in Line /\ Len(m) = e.cursor_x + 1
      BY <2>4
    <3> HIDE DEF m, l
    <3>2. /\ m \in Seq(Char) /\ right \in Seq(Char)
          /\ Len(m) + Len(right) < EDITOR_MAX_LINE_LENGTH
      <4>1. m \in Seq(Char) /\ right \in Seq(Char)
        BY <1>2, <3>1 DEF Line
      <4>2. Len(m) + Len(right) = Len(Row(e)) + 1
        BY <1>1, <1>2, <3>1
      <4> QED BY <1>1, <1>4, <4>1, <4>2
    <3>3. m \o right \in Line /\ Len(m \o right) = Len(m) + Len(right)
      BY <3>2, ConcatLine
    <3> QED BY <1>1, <1>2, <3>1, <3>3
  <2> HIDE DEF l
  <2>6. t \in Seq(Line) /\ Len(t) = Len(e.lines) /\ t[e.cursor_y + 1] = l
    BY <2>5, SetRowText
  <2>7. x \in 0..Len(t[e.cursor_y + 1]) /\ e.cursor_y + 1 \in 1..Len(t)
    BY <1>1, <2>5, <2>6
  <2> HIDE DEF t, x, r
  <2>8. Keeps(e, [e EXCEPT !.lines = t, !.cursor_y = e.cursor_y, !.cursor_x = x,
                           !.mode = "INSERT", !.modified = TRUE])
    BY <1>1, <2>6, <2>7, Retext
  <2> QED BY <2>2, <2>8 DEF r
<1>5. CASE /\ ~(c = NL /\ Len(e.lines) < EDITOR_MAX_LINES - 1)
           /\ ~(c # NL /\ Len(Row(e)) < EDITOR_MAX_LINE_LENGTH - 1)
  <2>1. r = e
    BY <1>5 DEF editor_insert_char
  <2>2. e = [e EXCEPT !.mode = "INSERT"]
    BY DEF EdOK
  <2>3. Keeps(e, [e EXCEPT !.mode = "INSERT"])
    BY Remode
  <2> QED BY <2>1, <2>2, <2>3
<1> QED BY <1>3, <1>4, <1>5

(* Backspace, in all four cases. *)
LEMMA DeleteKeeps ==
    ASSUME NEW e, EdOK(e), e.mode = "INSERT"
    PROVE  Keeps(e, editor_delete_char(e))
<1> DEFINE prev == e.lines[e.cursor_y]
           r == editor_delete_char(e)
<1>1. /\ e.lines \in Seq(Line) /\ Len(e.lines) \in 1..EDITOR_MAX_LINES
      /\ e.cursor_y \in Nat /\ e.cursor_y + 1 \in 1..Len(e.lines)
      /\ Row(e) \in Line /\ Len(Row(e)) \in Nat /\ e.cursor_x \in 0..Len(Row(e))
      /\ EDITOR_MAX_LINES \in Nat /\ EDITOR_MAX_LINE_LENGTH \in Nat
  BY Parts
<1>2. CASE e.cursor_x > 0
  <2> DEFINE l == RemoveAt(Row(e), e.cursor_x)
             t == SetRow(e, l)
             x == e.cursor_x - 1
  <2>1. r = [e EXCEPT !.lines = t, !.cursor_x = x, !.modified = TRUE]
    BY <1>2 DEF editor_delete_char
  <2>2. r = [e EXCEPT !.lines = t, !.cursor_y = e.cursor_y, !.cursor_x = x,
                      !.mode = "INSERT", !.modified = TRUE]
    BY <2>1 DEF EdOK
  <2>3. l \in Line /\ Len(l) = Len(Row(e)) - 1
    <3>1. e.cursor_x \in 1..Len(Row(e))
      BY <1>1, <1>2
    <3> QED BY <1>1, <3>1, RemoveAtLine
  <2> HIDE DEF l
  <2>4. t \in Seq(Line) /\ Len(t) = Len(e.lines) /\ t[e.cursor_y + 1] = l
    BY <2>3, SetRowText
  <2>5. x \in 0..Len(t[e.cursor_y + 1]) /\ e.cursor_y + 1 \in 1..Len(t)
    BY <1>1, <1>2, <2>3, <2>4
  <2> HIDE DEF t, x, r
  <2>6. Keeps(e, [e EXCEPT !.lines = t, !.cursor_y = e.cursor_y, !.cursor_x = x,
                           !.mode = "INSERT", !.modified = TRUE])
    BY <1>1, <2>4, <2>5, Retext
  <2> QED BY <2>2, <2>6 DEF r
<1>3. CASE /\ e.cursor_x = 0 /\ e.cursor_y > 0
           /\ Len(prev) + Len(Row(e)) < EDITOR_MAX_LINE_LENGTH
  <2> DEFINE l == prev \o Row(e)
             u == SetRow(e, l)
             t == Splice(u, e.cursor_y, << >>)
             y == e.cursor_y - 1
             x == Len(prev)
  <2>1. r = [e EXCEPT !.lines = t, !.cursor_y = y, !.cursor_x = x, !.modified = TRUE]
    BY <1>1, <1>3 DEF editor_delete_char
  <2>2. r = [e EXCEPT !.lines = t, !.cursor_y = y, !.cursor_x = x,
                      !.mode = "INSERT", !.modified = TRUE]
    BY <2>1 DEF EdOK
  <2>3. e.cursor_y \in 1..Len(e.lines) /\ y \in Nat /\ y + 1 = e.cursor_y
    <3>1. e.cursor_y > 0
      BY <1>3
    <3>2. Len(e.lines) \in Nat
      BY <1>1
    <3> QED BY <1>1, <3>1, <3>2
  <2>4. prev \in Line /\ Len(prev) \in Nat
    <3>1. prev \in Line
      BY <1>1, <2>3
    <3> QED BY <3>1 DEF Line
  <2> HIDE DEF prev
  <2>5. l \in Line /\ Len(l) = Len(prev) + Len(Row(e))
    <3>1. prev \in Seq(Char) /\ Row(e) \in Seq(Char)
      BY <1>1, <2>4 DEF Line
    <3> QED BY <1>3, <3>1, ConcatLine
  <2> HIDE DEF l
  <2>6. u \in Seq(Line) /\ Len(u) = Len(e.lines) /\ u[e.cursor_y + 1] = l
    BY <2>5, SetRowText
  <2> HIDE DEF u
  <2>7. e.cursor_y \in 1..Len(u) /\ e.cursor_y < Len(u)
    BY <1>1, <2>3, <2>6
  <2>8. t \in Seq(Line) /\ Len(t) = Len(u) - 1 /\ t[e.cursor_y] = u[e.cursor_y + 1]
    BY <2>6, <2>7, RemoveText
  <2> HIDE DEF t
  <2>9. Len(t) \in 1..EDITOR_MAX_LINES /\ y + 1 \in 1..Len(t)
    <3> HIDE DEF y
    <3>1. Len(t) = Len(e.lines) - 1
      BY <2>6, <2>8
    <3>2. Len(t) \in Nat /\ e.cursor_y <= Len(t) /\ Len(t) <= EDITOR_MAX_LINES
      BY <1>1, <3>1
    <3> QED BY <1>1, <2>3, <3>2
  <2>10. t[y + 1] = l
    BY <2>3, <2>6, <2>8
  <2>11. x \in 0..Len(t[y + 1])
    BY <1>1, <2>4, <2>5, <2>10
  <2> HIDE DEF x, y, r
  <2>12. Keeps(e, [e EXCEPT !.lines = t, !.cursor_y = y, !.cursor_x = x,
                            !.mode = "INSERT", !.modified = TRUE])
    BY <2>3, <2>8, <2>9, <2>11, Retext
  <2> QED BY <2>2, <2>12 DEF r
<1>4. CASE /\ e.cursor_x = 0 /\ e.cursor_y > 0
           /\ Len(prev) + Len(Row(e)) >= EDITOR_MAX_LINE_LENGTH
  <2>1. r = [e EXCEPT !.overrun = TRUE]
    <3>1. ~(Len(prev) + Len(Row(e)) < EDITOR_MAX_LINE_LENGTH)
      <4>1. prev \in Line
        BY <1>1, <1>4
      <4>2. Len(prev) \in Nat
        BY <4>1 DEF Line
      <4> HIDE DEF prev
      <4> QED BY <1>1, <1>4, <4>2
    <3> QED BY <1>4, <3>1 DEF editor_delete_char
  <2>2. /\ r \in [lines : Texts, cursor_x : Nat, cursor_y : Nat,
                  view_start_line : Nat, mode : Mode, modified : BOOLEAN,
                  command : Seq(CommandChar), overrun : BOOLEAN]
        /\ r.command = e.command /\ r.lines = e.lines /\ r.cursor_y = e.cursor_y
        /\ r.cursor_x = e.cursor_x /\ r.mode = e.mode /\ r.modified = e.modified
        /\ e.modified \in BOOLEAN
    <3> HIDE DEF r
    <3> QED BY <2>1 DEF EdOK
  <2> HIDE DEF r
  <2>3. EdOK(r)
    BY <2>2 DEF EdOK, Row
  <2> QED BY <2>2, <2>3 DEF Keeps, r
<1>5. CASE e.cursor_x = 0 /\ e.cursor_y = 0
  <2>1. r = e
    BY <1>5 DEF editor_delete_char
  <2>2. e = [e EXCEPT !.mode = "INSERT"]
    BY DEF EdOK
  <2>3. Keeps(e, [e EXCEPT !.mode = "INSERT"])
    BY Remode
  <2> QED BY <2>1, <2>2, <2>3
<1>6. /\ e.cursor_x > 0 \/ e.cursor_x = 0
      /\ e.cursor_y > 0 \/ e.cursor_y = 0
  BY <1>1
<1>7. \/ Len(prev) + Len(Row(e)) < EDITOR_MAX_LINE_LENGTH
      \/ Len(prev) + Len(Row(e)) >= EDITOR_MAX_LINE_LENGTH
      \/ e.cursor_y = 0
  <2>1. CASE e.cursor_y > 0
    <3>1. prev \in Line
      BY <1>1, <2>1
    <3>2. Len(prev) \in Nat
      BY <3>1 DEF Line
    <3> HIDE DEF prev
    <3> QED BY <1>1, <3>2
  <2> QED BY <1>6, <2>1
<1> QED BY <1>2, <1>3, <1>4, <1>5, <1>6, <1>7

(* o, whether or not there is a row to spare. *)
LEMMA OpenBelowKeeps ==
    ASSUME NEW e, EdOK(e), e.mode = "NORMAL"
    PROVE  Keeps(e, open_below(e))
<1> DEFINE new == <<Row(e), << >> >>
           t == Splice(e.lines, e.cursor_y + 1, new)
           y == e.cursor_y + 1
           r == open_below(e)
<1>1. /\ e.lines \in Seq(Line) /\ Len(e.lines) \in 1..EDITOR_MAX_LINES
      /\ e.cursor_y \in Nat /\ e.cursor_y + 1 \in 1..Len(e.lines)
      /\ Row(e) \in Line /\ EDITOR_MAX_LINES \in Nat
  BY Parts
<1>2. CASE Len(e.lines) < EDITOR_MAX_LINES - 1
  <2>1. r = [e EXCEPT !.lines = t, !.cursor_y = y, !.cursor_x = 0,
                      !.mode = "INSERT", !.modified = TRUE]
    BY <1>2 DEF open_below, EdOK
  <2>2. new \in Seq(Line) /\ Len(new) = 2
    BY <1>1, EmptyLine
  <2> HIDE DEF new
  <2>3. t \in Seq(Line) /\ Len(t) = Len(e.lines) - 1 + Len(new)
    BY <1>1, <2>2, SpliceLen
  <2> HIDE DEF t
  <2>4. Len(t) = Len(e.lines) + 1
    BY <1>1, <2>2, <2>3
  <2>5. Len(t) \in 1..EDITOR_MAX_LINES /\ y \in Nat /\ y + 1 \in 1..Len(t)
    BY <1>1, <1>2, <2>4
  <2>6. t[y + 1] \in Line
    BY <2>3, <2>5
  <2>7. 0 \in 0..Len(t[y + 1])
    BY <2>6 DEF Line
  <2> HIDE DEF y, r
  <2>8. Keeps(e, [e EXCEPT !.lines = t, !.cursor_y = y, !.cursor_x = 0,
                           !.mode = "INSERT", !.modified = TRUE])
    BY <2>3, <2>5, <2>7, Retext
  <2> QED BY <2>1, <2>8 DEF r
<1>3. CASE ~(Len(e.lines) < EDITOR_MAX_LINES - 1)
  <2>1. r = e
    BY <1>3 DEF open_below
  <2>2. e = [e EXCEPT !.mode = "NORMAL"]
    BY DEF EdOK
  <2>3. Keeps(e, [e EXCEPT !.mode = "NORMAL"])
    BY Remode
  <2> QED BY <2>1, <2>2, <2>3
<1> QED BY <1>2, <1>3

(* x, on a character or past the end of the line. *)
LEMMA DeleteUnderKeeps ==
    ASSUME NEW e, EdOK(e), e.mode = "NORMAL"
    PROVE  Keeps(e, delete_under(e))
<1> DEFINE l == RemoveAt(Row(e), e.cursor_x + 1)
           t == SetRow(e, l)
           r == delete_under(e)
<1>1. /\ e.lines \in Seq(Line) /\ Len(e.lines) \in 1..EDITOR_MAX_LINES
      /\ e.cursor_y \in Nat /\ e.cursor_y + 1 \in 1..Len(e.lines)
      /\ Row(e) \in Line /\ Len(Row(e)) \in Nat /\ e.cursor_x \in 0..Len(Row(e))
  BY Parts
<1>2. CASE e.cursor_x < Len(Row(e))
  <2>1. r = [e EXCEPT !.lines = t, !.modified = TRUE]
    BY <1>2 DEF delete_under
  <2>2. r = [e EXCEPT !.lines = t, !.cursor_y = e.cursor_y, !.cursor_x = e.cursor_x,
                      !.mode = "NORMAL", !.modified = TRUE]
    BY <2>1 DEF EdOK
  <2>3. l \in Line /\ Len(l) = Len(Row(e)) - 1
    <3>1. e.cursor_x + 1 \in 1..Len(Row(e))
      BY <1>1, <1>2
    <3> QED BY <1>1, <3>1, RemoveAtLine
  <2> HIDE DEF l
  <2>4. t \in Seq(Line) /\ Len(t) = Len(e.lines) /\ t[e.cursor_y + 1] = l
    BY <2>3, SetRowText
  <2>5. e.cursor_x \in 0..Len(t[e.cursor_y + 1]) /\ e.cursor_y + 1 \in 1..Len(t)
    BY <1>1, <1>2, <2>3, <2>4
  <2> HIDE DEF t, r
  <2>6. Keeps(e, [e EXCEPT !.lines = t, !.cursor_y = e.cursor_y,
                           !.cursor_x = e.cursor_x,
                           !.mode = "NORMAL", !.modified = TRUE])
    BY <1>1, <2>4, <2>5, Retext
  <2> QED BY <2>2, <2>6 DEF r
<1>3. CASE ~(e.cursor_x < Len(Row(e)))
  <2>1. r = e
    BY <1>3 DEF delete_under
  <2>2. e = [e EXCEPT !.mode = "NORMAL"]
    BY DEF EdOK
  <2>3. Keeps(e, [e EXCEPT !.mode = "NORMAL"])
    BY Remode
  <2> QED BY <2>1, <2>2, <2>3
<1> QED BY <1>2, <1>3

(* d, on any line but the only one. *)
LEMMA DeleteLineKeeps ==
    ASSUME NEW e, EdOK(e), e.mode = "NORMAL"
    PROVE  Keeps(e, delete_line(e))
<1> DEFINE t == Splice(e.lines, e.cursor_y + 1, << >>)
           y == IF e.cursor_y >= Len(e.lines) - 1 THEN Len(e.lines) - 2 ELSE e.cursor_y
           r == delete_line(e)
<1>1. /\ e.lines \in Seq(Line) /\ Len(e.lines) \in 1..EDITOR_MAX_LINES
      /\ e.cursor_y \in Nat /\ e.cursor_y + 1 \in 1..Len(e.lines)
      /\ EDITOR_MAX_LINES \in Nat
  BY Parts
<1>2. CASE Len(e.lines) > 1
  <2>1. r = [e EXCEPT !.lines = t, !.cursor_y = y, !.cursor_x = 0, !.modified = TRUE]
    BY <1>2 DEF delete_line
  <2>2. r = [e EXCEPT !.lines = t, !.cursor_y = y, !.cursor_x = 0,
                      !.mode = "NORMAL", !.modified = TRUE]
    BY <2>1 DEF EdOK
  <2>3. t \in Seq(Line) /\ Len(t) = Len(e.lines) - 1
    BY <1>1, RemoveText
  <2> HIDE DEF t
  <2>4. Len(t) \in 1..EDITOR_MAX_LINES /\ y \in Nat /\ y + 1 \in 1..Len(t)
    BY <1>1, <1>2, <2>3
  <2>5. t[y + 1] \in Line
    BY <2>3, <2>4
  <2>6. 0 \in 0..Len(t[y + 1])
    BY <2>5 DEF Line
  <2> HIDE DEF y, r
  <2>7. Keeps(e, [e EXCEPT !.lines = t, !.cursor_y = y, !.cursor_x = 0,
                           !.mode = "NORMAL", !.modified = TRUE])
    BY <2>3, <2>4, <2>6, Retext
  <2> QED BY <2>2, <2>7 DEF r
<1>3. CASE ~(Len(e.lines) > 1)
  <2>1. r = e
    BY <1>3 DEF delete_line
  <2>2. e = [e EXCEPT !.mode = "NORMAL"]
    BY DEF EdOK
  <2>3. Keeps(e, [e EXCEPT !.mode = "NORMAL"])
    BY Remode
  <2> QED BY <2>1, <2>2, <2>3
<1> QED BY <1>2, <1>3

-------------------------------------------------------------------------------
(* Commands. *)

(* The state Enter starts from with modified cleared or not, the mode EXIT *)
(* or not, and the command gone.                                           *)
LEMMA AfterCommand ==
    ASSUME NEW e, EdOK(e), NEW b \in BOOLEAN, NEW m \in Mode, NEW c \in Seq(CommandChar),
           Len(c) <= MAX_COMMAND
    PROVE  EdOK([e EXCEPT !.modified = b, !.mode = m, !.command = c])
<1> DEFINE r == [e EXCEPT !.modified = b, !.mode = m, !.command = c]
<1>1. /\ r \in [lines : Texts, cursor_x : Nat, cursor_y : Nat,
                view_start_line : Nat, mode : Mode, modified : BOOLEAN,
                command : Seq(CommandChar), overrun : BOOLEAN]
      /\ r.command = c /\ r.lines = e.lines /\ r.cursor_y = e.cursor_y
      /\ r.cursor_x = e.cursor_x
  BY DEF EdOK
<1>2. Row(r) = Row(e)
  BY <1>1 DEF Row
<1> HIDE DEF r
<1>3. EdOK(r)
  BY <1>1, <1>2 DEF EdOK
<1> QED BY <1>3 DEF r

(* What editor_process_command may change: modified, cleared only by a     *)
(* save that stored the text, and the mode, EXIT only on q! or when        *)
(* nothing is modified after the save.                                     *)
LEMMA CommandResult ==
    ASSUME NEW e, EdOK(e), NEW w \in BOOLEAN
    PROVE  \E b \in BOOLEAN, m \in {e.mode, "EXIT"} :
             /\ editor_process_command(e, w) =
                  [e EXCEPT !.modified = b, !.mode = m, !.command = << >>]
             /\ \/ b = e.modified
                \/ w /\ e.command \in {<<"w">>, <<"w", "q">>}
             /\ m = "EXIT" => e.mode = "EXIT" \/ ~b \/ e.command = <<"q", "!">>
<1> DEFINE saved == editor_save_file(e, w)
           R(b, m) == [e EXCEPT !.modified = b, !.mode = m, !.command = << >>]
           r == editor_process_command(e, w)
<1>1. e.modified \in BOOLEAN
  BY DEF EdOK
<1>2. PICK b \in BOOLEAN : /\ saved = [e EXCEPT !.modified = b]
                           /\ saved.modified = b
                           /\ b = e.modified \/ w
  <2>1. CASE w /\ content(e.lines) = << >>
    <3>1. saved = [e EXCEPT !.modified = FALSE]
      BY <2>1 DEF editor_save_file
    <3>2. [e EXCEPT !.modified = FALSE].modified = FALSE
      BY DEF EdOK
    <3> HIDE DEF saved
    <3> QED BY <2>1, <3>1, <3>2
  <2>2. CASE ~(w /\ content(e.lines) = << >>)
    <3>1. saved = e
      BY <2>2 DEF editor_save_file
    <3>2. e = [e EXCEPT !.modified = e.modified]
      BY DEF EdOK
    <3> HIDE DEF saved
    <3> QED BY <1>1, <3>1, <3>2
  <2> QED BY <2>1, <2>2
<1>3. /\ <<"w">> # <<"q">> /\ <<"w">> # <<"q", "!">> /\ <<"w">> # <<"w", "q">>
      /\ <<"q">> # <<"q", "!">> /\ <<"q">> # <<"w", "q">> /\ <<"q", "!">> # <<"w", "q">>
  OBVIOUS
<1> HIDE DEF saved
<1>4. CASE e.command = <<"w">>
  <2>1. r = [saved EXCEPT !.command = << >>]
    BY <1>3, <1>4 DEF editor_process_command, saved
  <2>2. r = R(b, e.mode)
    BY <1>2, <2>1 DEF EdOK
  <2> HIDE DEF r, R
  <2>3. e.mode = "EXIT" => e.mode = "EXIT" \/ ~b \/ e.command = <<"q", "!">>
    OBVIOUS
  <2> QED BY <1>2, <1>4, <2>2, <2>3 DEF r, R
<1>5. CASE e.command = <<"q">> /\ ~e.modified
  <2>1. r = [[e EXCEPT !.mode = "EXIT"] EXCEPT !.command = << >>]
    BY <1>3, <1>5 DEF editor_process_command
  <2>2. r = R(e.modified, "EXIT")
    BY <2>1 DEF EdOK
  <2> HIDE DEF r, R
  <2> QED BY <1>1, <1>5, <2>2 DEF r, R
<1>6. CASE e.command = <<"q", "!">>
  <2>1. r = [[e EXCEPT !.mode = "EXIT"] EXCEPT !.command = << >>]
    BY <1>3, <1>6 DEF editor_process_command
  <2>2. r = R(e.modified, "EXIT")
    BY <2>1 DEF EdOK
  <2> HIDE DEF r, R
  <2> QED BY <1>1, <1>6, <2>2 DEF r, R
<1>7. CASE e.command = <<"w", "q">> /\ ~saved.modified
  <2>1. r = [[saved EXCEPT !.mode = "EXIT"] EXCEPT !.command = << >>]
    BY <1>3, <1>7 DEF editor_process_command, saved
  <2>2. r = R(b, "EXIT")
    BY <1>2, <2>1 DEF EdOK
  <2> HIDE DEF r, R
  <2> QED BY <1>2, <1>7, <2>2 DEF r, R
<1>8. CASE /\ e.command # <<"w">> /\ ~(e.command = <<"q">> /\ ~e.modified)
           /\ e.command # <<"q", "!">> /\ ~(e.command = <<"w", "q">> /\ ~saved.modified)
  <2>1. r = [e EXCEPT !.command = << >>]
    BY <1>8 DEF editor_process_command, saved
  <2>2. r = R(e.modified, e.mode)
    BY <2>1 DEF EdOK
  <2> HIDE DEF r, R
  <2>3. e.mode = "EXIT" => e.mode = "EXIT" \/ ~e.modified \/ e.command = <<"q", "!">>
    OBVIOUS
  <2> QED BY <1>1, <2>2, <2>3 DEF r, R
<1> QED BY <1>4, <1>5, <1>6, <1>7, <1>8

-------------------------------------------------------------------------------
(* The specification. *)

(* A key that keeps what it should keeps the invariant and stays in the    *)
(* editor.                                                                 *)
LEMMA KeyInv ==
    ASSUME Inv, NEW r, Keeps(ed, r), Becomes(r)
    PROVE  Inv' /\ ed'.mode # "EXIT"
<1>1. ed' = r /\ stored' = stored
  BY DEF Becomes
<1>2. EdOK(ed)'
  BY <1>1 DEF Keeps
<1>3. Honest'
  BY <1>1 DEF Keeps, Honest, Inv
<1> QED BY <1>1, <1>2, <1>3 DEF Inv, Keeps

(* run_editor starts a session in a good state. *)
LEMMA StartOK ==
    ASSUME NEW file \in Seq(Char \cup {NL})
    PROVE  EdOK(run_editor(file)) /\ run_editor(file).lines \in Texts
<1> DEFINE r == run_editor(file)
<1>1. editor_open(file) \in Texts
  BY OpenText
<1>2. /\ r \in [lines : Texts, cursor_x : Nat, cursor_y : Nat,
                view_start_line : Nat, mode : Mode, modified : BOOLEAN,
                command : Seq(CommandChar), overrun : BOOLEAN]
      /\ r.command = << >> /\ r.cursor_x = 0 /\ r.cursor_y = 0 /\ r.lines \in Texts
  BY <1>1 DEF run_editor, Mode
<1> HIDE DEF r
<1>3. r.lines \in Seq(Line) /\ Len(r.lines) \in Nat /\ 0 < Len(r.lines)
  BY <1>2, EditorAssumption DEF Texts
<1>4. r.lines[0 + 1] \in Line
  BY <1>3
<1>5. Row(r) \in Line
  BY <1>2, <1>4 DEF Row
<1>6. 0 <= Len(Row(r))
  BY <1>5 DEF Line
<1>7. Len(<< >>) <= MAX_COMMAND
  BY EditorAssumption
<1>8. EdOK(r)
  BY <1>2, <1>3, <1>6, <1>7 DEF EdOK
<1> QED BY <1>2, <1>8 DEF r

(* Leaving the editor unasked for leaves nothing behind: the action that   *)
(* QuitKeepsWork says of every step.                                       *)
LeavesNothing ==
    ed.mode # "EXIT" /\ ed'.mode = "EXIT" /\ ed.command # <<"q", "!">>
        => stored' = ed.lines

(* Enter in COMMAND mode. *)
LEMMA RunCommandInv ==
    ASSUME Inv, NEW w \in BOOLEAN, RunCommand(w)
    PROVE  Inv' /\ LeavesNothing
<1> DEFINE stores == w /\ ed.command \in {<<"w">>, <<"w", "q">>}
<1>1. EdOK(ed) /\ stored \in Texts /\ Honest /\ ed.mode = "COMMAND" /\ ed.lines \in Texts
  BY DEF Inv, RunCommand, In, EdOK
<1>2. PICK b \in BOOLEAN, m \in {ed.mode, "EXIT"} :
        /\ editor_process_command(ed, w) =
             [ed EXCEPT !.modified = b, !.mode = m, !.command = << >>]
        /\ b = ed.modified \/ stores
        /\ m = "EXIT" => ed.mode = "EXIT" \/ ~b \/ ed.command = <<"q", "!">>
  BY <1>1, CommandResult
<1> DEFINE n == IF m = "EXIT" THEN m ELSE "NORMAL"
           r == [ed EXCEPT !.modified = b, !.mode = n, !.command = << >>]
<1>3. ed' = r
  <2>1. [ed EXCEPT !.modified = b, !.mode = m, !.command = << >>].mode = m
    BY <1>1 DEF EdOK
  <2>2. ed' = [[ed EXCEPT !.modified = b, !.mode = m, !.command = << >>]
                 EXCEPT !.mode = n]
    BY <1>2, <2>1 DEF RunCommand
  <2> HIDE DEF n
  <2> QED BY <1>1, <2>2 DEF EdOK
<1>4. stored' = IF stores THEN ed.lines ELSE stored
  BY DEF RunCommand
<1>5. n \in Mode /\ (n = "EXIT" => m = "EXIT")
  BY DEF Mode
<1> HIDE DEF n, stores
<1>6. EdOK(r)
  <2>1. << >> \in Seq(CommandChar) /\ Len(<< >>) <= MAX_COMMAND
    BY EditorAssumption
  <2> QED BY <1>1, <1>5, <2>1, AfterCommand
<1>7. r.modified = b /\ r.lines = ed.lines /\ r.mode = n
  BY <1>1 DEF EdOK
<1> HIDE DEF r
<1>8. b \/ ed.lines = stored'
  <2>1. CASE stores
    BY <1>4, <2>1
  <2>2. CASE ~stores
    BY <1>1, <1>2, <1>4, <2>2 DEF Honest
  <2> QED BY <2>1, <2>2
<1>9. Honest'
  BY <1>3, <1>7, <1>8 DEF Honest
<1>10. stored' \in Texts
  BY <1>1, <1>4
<1>11. LeavesNothing
  BY <1>1, <1>2, <1>3, <1>5, <1>7, <1>8 DEF LeavesNothing
<1>12. EdOK(ed)'
  BY <1>3, <1>6
<1> QED BY <1>9, <1>10, <1>11, <1>12 DEF Inv

(* A key keeps what it should keep, and stores nothing. *)
LEMMA KeyKeeps ==
    ASSUME EdOK(ed), Key
    PROVE  Keeps(ed, ed') /\ UNCHANGED stored
<1>1. ASSUME NEW r, Keeps(ed, r), Becomes(r)
      PROVE  Keeps(ed, ed') /\ UNCHANGED stored
  BY <1>1 DEF Becomes
<1>2. CASE Move
  <2>1. PICK dx \in Int, dy \in Int : Becomes(editor_move_cursor(ed, dx, dy))
    BY <1>2 DEF Move
  <2>2. ed = [ed EXCEPT !.cursor_x = ed.cursor_x] /\ ed.cursor_x \in Nat
    BY DEF EdOK
  <2>3. ed.mode # "EXIT"
    BY <1>2 DEF Move, In
  <2>4. Keeps(ed, editor_move_cursor([ed EXCEPT !.cursor_x = ed.cursor_x], dx, dy))
    BY <2>2, <2>3, MoveKeeps
  <2>5. Keeps(ed, editor_move_cursor(ed, dx, dy))
    BY <2>2, <2>4
  <2> QED BY <1>1, <2>1, <2>5
<1>3. CASE InsertMode
  <2>1. Becomes([ed EXCEPT !.mode = "INSERT"])
    BY <1>3 DEF InsertMode
  <2>2. Keeps(ed, [ed EXCEPT !.mode = "INSERT"])
    BY Remode
  <2> QED BY <1>1, <2>1, <2>2
<1>4. CASE AppendMode
  <2> DEFINE f == [ed EXCEPT !.cursor_x = @ + 1]
             g == editor_move_cursor(f, 0, 0)
  <2>1. Becomes([g EXCEPT !.mode = "INSERT"]) /\ ed.mode # "EXIT"
    BY <1>4 DEF AppendMode, In
  <2>2. f = [ed EXCEPT !.cursor_x = ed.cursor_x + 1] /\ ed.cursor_x + 1 \in Nat
    BY DEF EdOK
  <2>3. Keeps(ed, g)
    <3> DEFINE k == ed.cursor_x + 1
    <3>1. k \in Nat /\ 0 \in Int /\ f = [ed EXCEPT !.cursor_x = k]
      BY <2>2
    <3>2. EdOK(ed) /\ ed.mode # "EXIT"
      BY <2>1
    <3> HIDE DEF k, f
    <3>3. Keeps(ed, editor_move_cursor([ed EXCEPT !.cursor_x = k], 0, 0))
      BY <3>1, <3>2, MoveKeeps
    <3> QED BY <3>1, <3>3
  <2> HIDE DEF g
  <2>4. Keeps(g, [g EXCEPT !.mode = "INSERT"])
    BY <2>3, Remode DEF Keeps
  <2>5. Keeps(ed, [g EXCEPT !.mode = "INSERT"])
    BY <2>3, <2>4 DEF Keeps
  <2> QED BY <1>1, <2>1, <2>5
<1>5. CASE OpenBelow
  BY <1>1, <1>5, OpenBelowKeeps DEF OpenBelow, In
<1>6. CASE DeleteUnder
  BY <1>1, <1>6, DeleteUnderKeeps DEF DeleteUnder, In
<1>7. CASE DeleteLine
  BY <1>1, <1>7, DeleteLineKeeps DEF DeleteLine, In
<1>8. ASSUME NEW c \in Seq(CommandChar), Len(c) <= MAX_COMMAND,
              NEW m \in {"NORMAL", "COMMAND"},
              Becomes([ed EXCEPT !.mode = m, !.command = c])
       PROVE  Keeps(ed, ed') /\ UNCHANGED stored
  <2> DEFINE r == [ed EXCEPT !.mode = m, !.command = c]
  <2>1. r = [ed EXCEPT !.modified = ed.modified, !.mode = m, !.command = c]
        /\ ed.modified \in BOOLEAN /\ m \in Mode
        /\ r.lines = ed.lines /\ r.modified = ed.modified /\ r.mode = m
    BY DEF EdOK, Mode
  <2>2. EdOK([ed EXCEPT !.modified = ed.modified, !.mode = m, !.command = c])
    BY <1>8, <2>1, AfterCommand
  <2> HIDE DEF r
  <2>3. Keeps(ed, r)
    BY <2>1, <2>2 DEF Keeps
  <2>4. Becomes(r)
    BY <1>8 DEF r
  <2> QED BY <1>1, <2>3, <2>4
<1>9. << >> \in Seq(CommandChar) /\ Len(<< >>) <= MAX_COMMAND
  BY EditorAssumption
<1>10. CASE CommandMode
  BY <1>8, <1>9, <1>10 DEF CommandMode
<1>11. CASE LeaveCommand
  BY <1>8, <1>9, <1>11 DEF LeaveCommand
<1>12. CASE LeaveInsert
  <2> DEFINE x == IF ed.cursor_x > 0 THEN ed.cursor_x - 1 ELSE ed.cursor_x
             r == [ed EXCEPT !.mode = "NORMAL", !.cursor_x = x]
  <2>1. Becomes(r)
    BY <1>12 DEF LeaveInsert
  <2>2. ed.cursor_x \in 0..Len(Row(ed)) /\ Len(Row(ed)) \in Nat
    BY Parts
  <2>3. x \in Nat /\ x <= Len(Row(ed))
    BY <2>2
  <2> HIDE DEF x
  <2>4. /\ r \in [lines : Texts, cursor_x : Nat, cursor_y : Nat,
                  view_start_line : Nat, mode : Mode, modified : BOOLEAN,
                  command : Seq(CommandChar), overrun : BOOLEAN]
        /\ r.command = ed.command /\ r.lines = ed.lines /\ r.cursor_y = ed.cursor_y
        /\ r.cursor_x = x /\ r.mode = "NORMAL" /\ r.modified = ed.modified
        /\ ed.modified \in BOOLEAN
    BY <2>3 DEF EdOK, Mode
  <2> HIDE DEF r
  <2>5. Row(r) = Row(ed)
    BY <2>4 DEF Row
  <2>6. EdOK(r)
    BY <2>3, <2>4, <2>5 DEF EdOK
  <2>7. Keeps(ed, r)
    BY <2>4, <2>6 DEF Keeps
  <2> QED BY <1>1, <2>1, <2>7
<1>13. CASE Backspace
  BY <1>1, <1>13, DeleteKeeps DEF Backspace, In
<1>14. ASSUME NEW c \in Char \cup {NL}, Insert(c) PROVE Keeps(ed, ed') /\ UNCHANGED stored
  BY <1>1, <1>14, InsertKeeps DEF Insert, In
<1>15. ed.command \in Seq(CommandChar) /\ Len(ed.command) \in Nat /\ MAX_COMMAND \in Nat
  BY EditorAssumption DEF EdOK
<1>16. CASE EraseCommand
  <2> DEFINE c == Front(ed.command)
  <2>1. c \in Seq(CommandChar) /\ Len(c) = Len(ed.command) - 1
    BY <1>15, <1>16 DEF EraseCommand, Front
  <2>2. Len(c) <= MAX_COMMAND
    BY <1>15, <2>1 DEF EdOK
  <2>3. Becomes([ed EXCEPT !.mode = "COMMAND", !.command = c])
    <3>1. ed.mode = "COMMAND" /\ Becomes([ed EXCEPT !.command = c])
      BY <1>16 DEF EraseCommand, In
    <3>2. [ed EXCEPT !.mode = "COMMAND", !.command = c] = [ed EXCEPT !.command = c]
      BY <3>1 DEF EdOK
    <3> QED BY <3>1, <3>2
  <2> HIDE DEF c
  <2> QED BY <1>8, <2>1, <2>2, <2>3
<1>17. ASSUME NEW k \in CommandChar, TypeCommand(k) PROVE Keeps(ed, ed') /\ UNCHANGED stored
  <2> DEFINE c == Append(ed.command, k)
  <2>1. c \in Seq(CommandChar) /\ Len(c) = Len(ed.command) + 1
    BY <1>15
  <2>2. Len(c) <= MAX_COMMAND
    BY <1>15, <1>17, <2>1 DEF TypeCommand
  <2>3. Becomes([ed EXCEPT !.mode = "COMMAND", !.command = c])
    <3>1. ed.mode = "COMMAND" /\ Becomes([ed EXCEPT !.command = c])
      BY <1>17 DEF TypeCommand, In
    <3>2. [ed EXCEPT !.mode = "COMMAND", !.command = c] = [ed EXCEPT !.command = c]
      BY <3>1 DEF EdOK
    <3> QED BY <3>1, <3>2
  <2> HIDE DEF c
  <2> QED BY <1>8, <2>1, <2>2, <2>3
<1> QED
  BY <1>2, <1>3, <1>4, <1>5, <1>6, <1>7, <1>10, <1>11, <1>12, <1>13,
     <1>14, <1>16, <1>17 DEF Key

(* Every step keeps the invariant, and leaves the editor only so. *)
LEMMA NextInv ==
    ASSUME Inv, [Next]_vars
    PROVE  Inv' /\ LeavesNothing
<1>1. EdOK(ed) /\ stored \in Texts /\ Honest
  BY DEF Inv
<1>2. ASSUME NEW file \in Files, Edit(file) PROVE Inv' /\ LeavesNothing
  <2>1. file \in Seq(Char \cup {NL})
    BY EditorAssumption
  <2>2. EdOK(run_editor(file)) /\ run_editor(file).lines \in Texts
    BY <2>1, StartOK
  <2>3. ed' = run_editor(file) /\ stored' = ed'.lines /\ ed.mode = "EXIT"
    BY <1>2 DEF Edit
  <2>4. EdOK(ed)' /\ stored' \in Texts /\ Honest'
    BY <2>2, <2>3 DEF Honest
  <2> QED BY <2>3, <2>4 DEF Inv, LeavesNothing
<1>3. CASE Key
  <2>1. Keeps(ed, ed') /\ UNCHANGED stored
    BY <1>1, <1>3, KeyKeeps
  <2>2. Becomes(ed')
    BY <2>1 DEF Becomes
  <2> QED BY <2>1, <2>2, KeyInv DEF LeavesNothing
<1>4. ASSUME NEW w \in BOOLEAN, RunCommand(w) PROVE Inv' /\ LeavesNothing
  BY <1>4, RunCommandInv
<1>5. CASE UNCHANGED vars
  BY <1>5 DEF vars, Inv, Honest, EdOK, Row, LeavesNothing
<1> QED BY <1>2, <1>3, <1>4, <1>5 DEF Next

(* The editor is inactive at first, with one empty line. *)
LEMMA InitInv == Init => Inv
<1> SUFFICES ASSUME Init PROVE Inv
  OBVIOUS
<1> DEFINE e == run_editor(<< >>)
           r == [e EXCEPT !.modified = FALSE, !.mode = "EXIT", !.command = << >>]
<1>1. << >> \in Seq(Char \cup {NL})
  OBVIOUS
<1>2. EdOK(e)
  BY <1>1, StartOK
<1>3. e.modified = FALSE /\ e.command = << >>
  BY DEF run_editor
<1>4. ed = [e EXCEPT !.mode = "EXIT"] /\ stored = ed.lines
  BY DEF Init
<1> HIDE DEF e
<1>5. ed = r /\ r.lines = e.lines /\ e.lines \in Texts
  BY <1>2, <1>3, <1>4 DEF EdOK
<1>6. EdOK(r)
  <2>1. << >> \in Seq(CommandChar) /\ Len(<< >>) <= MAX_COMMAND /\ "EXIT" \in Mode
    BY EditorAssumption DEF Mode
  <2> QED BY <1>2, <2>1, AfterCommand
<1> QED BY <1>4, <1>5, <1>6 DEF Inv, Honest

(* The inductive invariant holds throughout. *)
LEMMA InvHolds == Spec => []Inv
<1>1. Inv /\ [Next]_vars => Inv'
  BY NextInv
<1> QED BY <1>1, InitInv, PTL DEF Spec

(* After any keys and any files, the text fits the buffer, each line its   *)
(* row, and the command its buffer.                                        *)
THEOREM EditorTypeCorrect == Spec => []TypeOK
<1>1. Inv => TypeOK
  BY DEF Inv, EdOK, TypeOK
<1> QED BY <1>1, InvHolds, PTL

(* After any keys the cursor is in the text: no function of the editor     *)
(* indexes the buffer outside it.                                          *)
THEOREM CursorKept == Spec => []CursorInText
<1>1. Inv => CursorInText
  BY DEF Inv, EdOK, CursorInText
<1> QED BY <1>1, InvHolds, PTL

(* Only q! leaves the editor with changes that are not in the file.        *)
THEOREM ChangesKept == Spec => QuitKeepsWork
<1>1. Inv /\ [Next]_vars => [LeavesNothing]_vars
  BY NextInv
<1>2. Spec => [][LeavesNothing]_vars
  BY <1>1, InvHolds, PTL DEF Spec
<1> QED BY <1>2 DEF QuitKeepsWork, LeavesNothing

-------------------------------------------------------------------------------
(* What the screen shows after a move. *)

(* The smaller of two numbers. *)
LEMMA MinOfTwo ==
    ASSUME NEW a \in Int, NEW b \in Int
    PROVE  /\ Min({a, b}) \in {a, b}
           /\ Min({a, b}) <= a /\ Min({a, b}) <= b
<1>1. \E x \in {a, b} : \A y \in {a, b} : x <= y
  OBVIOUS
<1> QED BY <1>1 DEF Min

(* A line of the text that is in the view is shown in its place. *)
LEMMA ViewShows ==
    ASSUME NEW t \in Seq(Line), NEW v \in Nat, NEW c \in Nat, NEW h \in Nat \ {0},
           v <= c, c < v + h, c + 1 \in 1..Len(t)
    PROVE  SubSeq(t, v + 1, Min({Len(t), v + h}))[c - v + 1] = t[c + 1]
<1> DEFINE m == Min({Len(t), v + h})
<1>1. m \in {Len(t), v + h} /\ m <= Len(t) /\ m <= v + h
  <2>1. Len(t) \in Int /\ v + h \in Int
    OBVIOUS
  <2> QED BY <2>1, MinOfTwo
<1> HIDE DEF m
<1>2. m \in Nat /\ c + 1 <= m /\ m <= Len(t)
  BY <1>1
<1>3. \A i \in (v + 1)..m : t[i] \in Line
  BY <1>2
<1>4. SubSeq(t, v + 1, m) = [i \in 1..(m - (v + 1) + 1) |-> t[i + (v + 1) - 1]]
  BY <1>2
<1>5. c - v + 1 \in 1..(m - (v + 1) + 1) /\ (c - v + 1) + (v + 1) - 1 = c + 1
  BY <1>2
<1>6. SubSeq(t, v + 1, m)[c - v + 1] = t[(c - v + 1) + (v + 1) - 1]
  BY <1>4, <1>5
<1> QED BY <1>5, <1>6 DEF m

(* editor_move_cursor leaves the cursor's row in the view, wherever the    *)
(* view was.                                                               *)
LEMMA MoveInView ==
    ASSUME NEW e, EdOK(e), e.mode # "EXIT", NEW dx \in Int, NEW dy \in Int
    PROVE  LET r == editor_move_cursor(e, dx, dy)
           IN  /\ EdOK(r)
               /\ r.mode = e.mode
               /\ r.view_start_line <= r.cursor_y
               /\ r.cursor_y < r.view_start_line + VIEW_LINES
<1> DEFINE r == editor_move_cursor(e, dx, dy)
           Clip(i, max) == IF i < 0 THEN 0 ELSE IF i > max THEN max ELSE i
           y == Clip(e.cursor_y + dy, Len(e.lines) - 1)
           x == Clip(e.cursor_x + dx, Len(e.lines[y + 1]))
           v == IF y < e.view_start_line THEN y
                ELSE IF y >= e.view_start_line + VIEW_LINES THEN y - (VIEW_LINES - 1)
                ELSE e.view_start_line
<1>1. EdOK(r)
  <2>1. e = [e EXCEPT !.cursor_x = e.cursor_x] /\ e.cursor_x \in Nat
    BY DEF EdOK
  <2>2. Keeps(e, editor_move_cursor([e EXCEPT !.cursor_x = e.cursor_x], dx, dy))
    BY <2>1, MoveKeeps
  <2> HIDE DEF r
  <2>3. Keeps(e, editor_move_cursor(e, dx, dy))
    BY <2>1, <2>2
  <2> QED BY <2>3 DEF Keeps, r
<1>2. r = [e EXCEPT !.cursor_x = x, !.cursor_y = y, !.view_start_line = v]
  BY DEF editor_move_cursor
<1>3. /\ Len(e.lines) \in Nat /\ e.cursor_y \in Nat /\ Len(e.lines) > 0
      /\ e.view_start_line \in Nat /\ VIEW_LINES \in Nat \ {0}
  BY Parts
<1>4. y \in Nat
  BY <1>3
<1> HIDE DEF x, y
<1>5. v <= y /\ y < v + VIEW_LINES
  BY <1>3, <1>4
<1> HIDE DEF v, r
<1>6. r.mode = e.mode /\ r.view_start_line = v /\ r.cursor_y = y
  BY <1>2 DEF EdOK
<1> QED BY <1>1, <1>5, <1>6 DEF r

(* Where the cursor is painted when its line is in row y of the screen. *)
CursorAt(r, y) ==
    \/ /\ TEXT_COLUMN + r.cursor_x < VGA_WIDTH
       /\ editor_draw(r).cursor = {<<y, TEXT_COLUMN + r.cursor_x>>}
    \/ /\ r.cursor_x = Len(Row(r))
       /\ Len(Row(r)) = EDITOR_MAX_LINE_LENGTH - 1
       /\ editor_draw(r).cursor = {<<y + 1, 0>>}

(* The line is shown and the cursor is painted in its row, or after the    *)
(* last character of a full row at the start of the next.                  *)
LEMMA MoveShows ==
    ASSUME NEW e, EdOK(e), e.mode \in {"NORMAL", "INSERT"}, NEW dx \in Int, NEW dy \in Int
    PROVE  LET r == editor_move_cursor(e, dx, dy)
           IN  \E y \in 0..(VIEW_LINES - 1) :
                  /\ editor_draw(r).text[y + 1] = Row(r)
                  /\ CursorAt(r, y)
<1> DEFINE r == editor_move_cursor(e, dx, dy)
           y == r.cursor_y - r.view_start_line
<1>1. e.mode # "EXIT" /\ e.mode # "COMMAND"
  OBVIOUS
<1>2. /\ EdOK(r) /\ r.mode = e.mode /\ r.view_start_line <= r.cursor_y
      /\ r.cursor_y < r.view_start_line + VIEW_LINES
  BY <1>1, MoveInView
<1> HIDE DEF r
<1>3. /\ r.lines \in Seq(Line) /\ r.cursor_y \in Nat /\ r.view_start_line \in Nat
      /\ r.cursor_y + 1 \in 1..Len(r.lines) /\ VIEW_LINES \in Nat \ {0}
  BY <1>2, Parts
<1>4. y \in 0..(VIEW_LINES - 1)
  BY <1>2, <1>3
<1>5. CursorAt(r, y)
  <2> DEFINE x == TEXT_COLUMN + r.cursor_x
  <2>1. editor_draw(r).cursor = {Cell(x, y)}
    <3>1. r.mode # "COMMAND"
      BY <1>1, <1>2
    <3> QED BY <1>4, <3>1, Zenon DEF editor_draw
  <2>2. /\ r.cursor_x \in Nat /\ Len(Row(r)) \in Nat /\ r.cursor_x <= Len(Row(r))
        /\ Len(Row(r)) < EDITOR_MAX_LINE_LENGTH
    <3>1. Row(r) \in Line /\ r.cursor_x \in 0..Len(Row(r))
      BY <1>2, Parts
    <3>2. Row(r) \in Seq(Char) /\ Len(Row(r)) < EDITOR_MAX_LINE_LENGTH
      BY <3>1 DEF Line
    <3> HIDE DEF x
    <3> QED BY <3>1, <3>2
  <2>3. /\ TEXT_COLUMN \in Nat /\ VGA_WIDTH \in Nat /\ EDITOR_MAX_LINE_LENGTH \in Nat
        /\ TEXT_COLUMN + EDITOR_MAX_LINE_LENGTH - 1 <= VGA_WIDTH
    BY EditorAssumption
  <2>4. CASE x < VGA_WIDTH
    <3>1. Cell(x, y) = <<y, x>>
      BY <2>4 DEF Cell
    <3> QED BY <2>1, <2>4, <3>1 DEF CursorAt
  <2>5. CASE ~(x < VGA_WIDTH)
    <3>1. /\ r.cursor_x = Len(Row(r)) /\ Len(Row(r)) = EDITOR_MAX_LINE_LENGTH - 1
          /\ x - VGA_WIDTH = 0
      BY <2>2, <2>3, <2>5
    <3>2. Cell(x, y) = <<y + 1, 0>>
      BY <2>5, <3>1 DEF Cell
    <3> QED BY <2>1, <3>1, <3>2 DEF CursorAt
  <2> QED BY <2>4, <2>5
<1>6. editor_draw(r).text[y + 1] = Row(r)
  <2>1. editor_draw(r).text = SubSeq(r.lines, r.view_start_line + 1,
                                Min({Len(r.lines), r.view_start_line + VIEW_LINES}))
    BY Zenon DEF editor_draw
  <2>2. SubSeq(r.lines, r.view_start_line + 1,
               Min({Len(r.lines), r.view_start_line + VIEW_LINES}))
          [r.cursor_y - r.view_start_line + 1] = r.lines[r.cursor_y + 1]
    BY <1>2, <1>3, ViewShows
  <2> QED BY <2>1, <2>2, Zenon DEF Row
<1> HIDE DEF y
<1> QED BY <1>4, <1>5, <1>6 DEF r

(* After any move key the cursor's line is on the screen and the cursor is *)
(* painted in its row, behind the characters before it, or at the start of *)
(* the next row if the line is full and the cursor at its end; however far *)
(* Enter, o, d or a join has taken it from the view.                       *)
THEOREM CursorShown == Spec => []MoveShowsCursor
<1>1. Inv => MoveShowsCursor
  <2> SUFFICES ASSUME Inv,
                      NEW d \in {<<-1, 0>>, <<1, 0>>, <<0, -1>>, <<0, 1>>},
                      In("NORMAL") \/ In("INSERT")
               PROVE  \E y \in 0..(VIEW_LINES - 1) :
                        /\ editor_draw(editor_move_cursor(ed, d[1], d[2])).text[y + 1]
                             = Row(editor_move_cursor(ed, d[1], d[2]))
                        /\ CursorAt(editor_move_cursor(ed, d[1], d[2]), y)
    BY DEF MoveShowsCursor, CursorAt
  <2>1. d[1] \in Int /\ d[2] \in Int
    <3>1. -1 \in Int /\ 0 \in Int /\ 1 \in Int
      OBVIOUS
    <3> QED BY <3>1
  <2>2. EdOK(ed) /\ ed.mode \in {"NORMAL", "INSERT"}
    BY DEF Inv, In
  <2> QED BY <2>1, <2>2, MoveShows
<1> QED BY InvHolds, <1>1, PTL

-------------------------------------------------------------------------------
(* Backspace after a key. *)

(* A line cut in two and put together again. *)
LEMMA CutJoin ==
    ASSUME NEW l \in Seq(Char), NEW x \in 0..Len(l)
    PROVE  SubSeq(l, 1, x) \o SubSeq(l, x + 1, Len(l)) = l
<1>1. 1 \in 1..(Len(l) + 1) /\ x \in (1 - 1)..Len(l) /\ Len(l) \in x..Len(l)
  OBVIOUS
<1>2. SubSeq(l, 1, x) \o SubSeq(l, x + 1, Len(l)) = SubSeq(l, 1, Len(l))
  BY <1>1, ConcatAdjacentSubSeq
<1> QED BY <1>2, SubSeqFull

(* A line with a character put in at x, and that character taken out.      *)
LEMMA TakeBack ==
    ASSUME NEW a \in Seq(Char), NEW b \in Seq(Char), NEW c \in Char
    PROVE  RemoveAt(a \o <<c>> \o b, Len(a) + 1) = a \o b
<1> DEFINE k == Len(a)
           m == Len(b)
           d == a \o <<c>>
           w == d \o b
           u == SubSeq(w, 1, (k + 1) - 1)
           v == SubSeq(w, (k + 1) + 1, Len(w))
<1>1. k \in Nat /\ m \in Nat
  OBVIOUS
<1>2. d = Append(a, c)
  BY AppendIsConcat
<1>3. d \in Seq(Char) /\ Len(d) = k + 1 /\ \A i \in 1..k : d[i] = a[i]
  <2> HIDE DEF d
  <2> QED BY <1>2, AppendProperties
<1> HIDE DEF d
<1>4. /\ w \in Seq(Char) /\ Len(w) = Len(d) + m
      /\ \A j \in 1..Len(d) : w[j] = d[j]
      /\ \A j \in 1..m : w[Len(d) + j] = b[j]
  <2>1. d \in Seq(Char) /\ b \in Seq(Char)
    BY <1>3
  <2>2. /\ d \o b \in Seq(Char) /\ Len(d \o b) = Len(d) + Len(b)
        /\ \A j \in 1..Len(d) : (d \o b)[j] = d[j]
        /\ \A j \in 1..Len(b) : (d \o b)[Len(d) + j] = b[j]
    BY <2>1, ConcatAt
  <2> QED BY <2>2
<1> HIDE DEF w
<1>5. u = a
  <2>1. (k + 1) - 1 = k /\ \A i \in 1..k : i \in 1..Len(d) /\ i \in 1..Len(w)
    BY <1>1, <1>3, <1>4
  <2> HIDE DEF k
  <2>2. \A i \in 1..k : w[i] = a[i] /\ w[i] \in Char
    BY <1>3, <1>4, <2>1
  <2>3. /\ SubSeq(w, 1, k) \in Seq(Char) /\ Len(SubSeq(w, 1, k)) = k
        /\ \A i \in 1..k : SubSeq(w, 1, k)[i] = w[1 + i - 1]
    <3>1. /\ SubSeq(w, 1, k) \in Seq(Char)
          /\ Len(SubSeq(w, 1, k)) = IF 1 <= k THEN k - 1 + 1 ELSE 0
          /\ \A i \in 1..(k - 1 + 1) : SubSeq(w, 1, k)[i] = w[1 + i - 1]
      BY <1>1, <2>2, SubSeqProperties
    <3> QED BY <1>1, <3>1
  <2>4. \A i \in 1..k : SubSeq(w, 1, k)[i] = a[i]
    BY <1>1, <2>2, <2>3
  <2> HIDE DEF u
  <2>5. SubSeq(w, 1, k) = a
    BY <2>3, <2>4, SeqEqual DEF k
  <2> QED BY <2>1, <2>5 DEF u
<1>6. v = b
  <2>1. Len(w) = k + 1 + m /\ (k + 1) + 1 = k + 2
    BY <1>1, <1>3, <1>4
  <2> HIDE DEF k, m
  <2>2. \A i \in (k + 2)..(k + 1 + m) : i \in 1..Len(w)
    BY <1>1, <2>1
  <2>3. \A i \in (k + 2)..(k + 1 + m) : w[i] \in Char
    BY <1>4, <2>2
  <2>4. /\ SubSeq(w, k + 2, k + 1 + m) \in Seq(Char)
        /\ Len(SubSeq(w, k + 2, k + 1 + m))
             = IF k + 2 <= k + 1 + m THEN (k + 1 + m) - (k + 2) + 1 ELSE 0
        /\ \A i \in 1..((k + 1 + m) - (k + 2) + 1) :
             SubSeq(w, k + 2, k + 1 + m)[i] = w[(k + 2) + i - 1]
    <3>1. k + 2 \in Int /\ k + 1 + m \in Int
      BY <1>1
    <3> QED BY <2>3, <3>1, SubSeqProperties
  <2> DEFINE z == SubSeq(w, k + 2, k + 1 + m)
  <2> HIDE DEF z
  <2>5. z \in Seq(Char) /\ Len(z) = m /\ \A i \in 1..m : z[i] = w[(k + 2) + i - 1]
    BY <1>1, <2>4 DEF z
  <2>6. \A i \in 1..m : (k + 2) + i - 1 = Len(d) + i
    BY <1>1, <1>3
  <2>7. \A i \in 1..m : z[i] = b[i]
    BY <1>4, <2>5, <2>6
  <2>8. z = b
    BY <2>5, <2>7, SeqEqual DEF m
  <2> QED BY <2>1, <2>8 DEF v, z
<1>7. RemoveAt(w, k + 1) = u \o v
  BY DEF RemoveAt
<1> HIDE DEF u, v
<1> QED BY <1>5, <1>6, <1>7 DEF w, d

(* A line cut in two and joined again, in a text. *)
LEMMA SplitJoin ==
    ASSUME NEW t \in Seq(Line), NEW i \in 1..Len(t), NEW a \in Line, NEW b \in Line
    PROVE  LET two == Splice(t, i, <<a, b>>)
           IN  /\ two[i] = a /\ two[i + 1] = b
               /\ Splice([two EXCEPT ![i + 1] = t[i]], i, << >>) = t
<1> DEFINE new == <<a, b>>
           two == Splice(t, i, new)
           one == [two EXCEPT ![i + 1] = t[i]]
           none == << >>
           r == Splice(one, i, none)
           n == Len(t)
<1>1. new \in Seq(Line) /\ Len(new) = 2 /\ new[1] = a /\ new[2] = b
  OBVIOUS
<1>2. n \in Nat /\ i \in Nat /\ 1 <= i /\ i <= n /\ t[i] \in Line
  OBVIOUS
<1>3. none \in Seq(Line) /\ Len(none) = 0
  OBVIOUS
<1> HIDE DEF new, none
<1>4. /\ two \in Seq(Line) /\ Len(two) = n - 1 + Len(new)
      /\ \A j \in 1..(i - 1) : two[j] = t[j]
      /\ \A j \in 1..Len(new) : two[i - 1 + j] = new[j]
      /\ \A j \in (i + 1)..n : two[j - 1 + Len(new)] = t[j]
  BY <1>1, SpliceText
<1> HIDE DEF two
<1>5. Len(two) = n + 1 /\ i + 1 \in 1..Len(two) /\ i \in 1..Len(two)
  BY <1>1, <1>2, <1>4
<1>6. two[i] = a /\ two[i + 1] = b
  <2>1. 1 \in 1..Len(new) /\ 2 \in 1..Len(new) /\ i - 1 + 1 = i /\ i - 1 + 2 = i + 1
    BY <1>1, <1>2
  <2> QED BY <1>1, <1>4, <2>1
<1>7. /\ one \in Seq(Line) /\ Len(one) = Len(two) /\ one[i + 1] = t[i]
      /\ \A j \in 1..Len(two) : j # i + 1 => one[j] = two[j]
  BY <1>2, <1>4, <1>5, ExceptSeq
<1> HIDE DEF one
<1>8. /\ r \in Seq(Line) /\ Len(r) = Len(one) - 1 + Len(none)
      /\ \A j \in 1..(i - 1) : r[j] = one[j]
      /\ \A j \in (i + 1)..Len(one) : r[j - 1 + Len(none)] = one[j]
  <2>1. i \in 1..Len(one) /\ one \in Seq(Line) /\ none \in Seq(Line)
    BY <1>3, <1>5, <1>7
  <2>2. /\ Splice(one, i, none) \in Seq(Line)
        /\ Len(Splice(one, i, none)) = Len(one) - 1 + Len(none)
        /\ \A j \in 1..(i - 1) : Splice(one, i, none)[j] = one[j]
        /\ \A j \in (i + 1)..Len(one) :
             Splice(one, i, none)[j - 1 + Len(none)] = one[j]
    BY <2>1, SpliceText
  <2> QED BY <2>2
<1> HIDE DEF r
<1>9. Len(r) = n
  BY <1>2, <1>3, <1>5, <1>7, <1>8
<1>10. ASSUME NEW j \in 1..n PROVE r[j] = t[j]
  <2>1. CASE j < i
    <3>1. j \in 1..(i - 1) /\ j \in 1..Len(two) /\ j # i + 1
      BY <1>2, <1>5, <1>10, <2>1
    <3> QED BY <1>4, <1>7, <1>8, <3>1
  <2>2. CASE j = i
    <3>1. i + 1 \in (i + 1)..Len(one) /\ (i + 1) - 1 + Len(none) = i
      BY <1>2, <1>3, <1>5, <1>7
    <3> QED BY <1>7, <1>8, <2>2, <3>1
  <2>3. CASE j > i
    <3>1. /\ j + 1 \in (i + 1)..Len(one) /\ (j + 1) - 1 + Len(none) = j
          /\ j + 1 \in 1..Len(two) /\ j + 1 # i + 1
      BY <1>2, <1>3, <1>5, <1>7, <1>10, <2>3
    <3>2. j \in (i + 1)..n /\ j - 1 + Len(new) = j + 1
      BY <1>1, <1>2, <1>10, <2>3
    <3>3. r[j] = one[j + 1]
      BY <1>8, <3>1
    <3>4. one[j + 1] = two[j + 1]
      BY <1>7, <3>1
    <3>5. two[j + 1] = t[j]
      BY <1>4, <3>2
    <3> QED BY <3>3, <3>4, <3>5
  <2> QED BY <1>2, <1>10, <2>1, <2>2, <2>3
<1>11. r = t
  BY <1>8, <1>9, <1>10, SeqEqual
<1> QED BY <1>6, <1>11 DEF r, one, two, new, none

(* The join of two lines that fit in a row. *)
LEMMA JoinFits ==
    ASSUME NEW e, e.cursor_x = 0, e.cursor_y \in Nat, e.cursor_y > 0,
           Len(e.lines[e.cursor_y]) \in Nat, Len(Row(e)) \in Nat,
           Len(e.lines[e.cursor_y]) + Len(Row(e)) < EDITOR_MAX_LINE_LENGTH
    PROVE  editor_delete_char(e) =
             [e EXCEPT !.lines = Splice(SetRow(e, e.lines[e.cursor_y] \o Row(e)), e.cursor_y, << >>),
                       !.cursor_y = e.cursor_y - 1, !.cursor_x = Len(e.lines[e.cursor_y]),
                       !.modified = TRUE]
BY EditorAssumption DEF editor_delete_char

(* Backspace takes back a character, and Enter. *)
LEMMA TypeBack ==
    ASSUME NEW e, EdOK(e), e.overrun = FALSE, NEW c \in Char \cup {NL},
           editor_insert_char(e, c) # e
    PROVE  LET undone == editor_delete_char(editor_insert_char(e, c))
           IN  /\ undone.lines = e.lines
               /\ undone.cursor_x = e.cursor_x
               /\ undone.cursor_y = e.cursor_y
               /\ ~undone.overrun
<1> DEFINE left  == SubSeq(Row(e), 1, e.cursor_x)
           right == SubSeq(Row(e), e.cursor_x + 1, Len(Row(e)))
           r == editor_insert_char(e, c)
           u == editor_delete_char(r)
           y == e.cursor_y
           x == e.cursor_x
<1>1. /\ e.lines \in Seq(Line) /\ y \in Nat /\ y + 1 \in 1..Len(e.lines)
      /\ Row(e) \in Line /\ Len(Row(e)) \in Nat /\ x \in 0..Len(Row(e))
      /\ EDITOR_MAX_LINE_LENGTH \in Nat
  BY Parts
<1>2. Row(e) \in Seq(Char) /\ Len(Row(e)) < EDITOR_MAX_LINE_LENGTH
  BY <1>1 DEF Line
<1>3. /\ left \in Line /\ Len(left) = x
      /\ right \in Line /\ Len(right) = Len(Row(e)) - x
  BY <1>1, CutLine
<1>4. left \o right = Row(e)
  BY <1>1, <1>2, CutJoin
<1>5. left \in Seq(Char) /\ right \in Seq(Char)
  BY <1>3 DEF Line
<1> HIDE DEF left, right
<1> SUFFICES /\ u.lines = e.lines /\ u.cursor_x = x
             /\ u.cursor_y = y /\ u.overrun = FALSE
  OBVIOUS
<1>6. CASE c = NL /\ Len(e.lines) < EDITOR_MAX_LINES - 1
  <2> DEFINE t == Splice(e.lines, y + 1, <<left, right>>)
             back == Splice([t EXCEPT ![y + 2] = Row(e)], y + 1, << >>)
  <2>1. r = [e EXCEPT !.lines = t, !.cursor_y = y + 1, !.cursor_x = 0, !.modified = TRUE]
    BY <1>6 DEF editor_insert_char, left, right
  <2>2. t[y + 1] = left /\ t[y + 2] = right /\ back = e.lines
    <3>1. y + 1 + 1 = y + 2 /\ Row(e) = e.lines[y + 1]
      BY <1>1 DEF Row
    <3> DEFINE i == y + 1
               ls == e.lines
    <3>2. ls \in Seq(Line) /\ i \in 1..Len(ls)
      BY <1>1
    <3> HIDE DEF y, i, ls
    <3>3. /\ Splice(ls, i, <<left, right>>)[i] = left
          /\ Splice(ls, i, <<left, right>>)[i + 1] = right
          /\ Splice([Splice(ls, i, <<left, right>>) EXCEPT ![i + 1] = ls[i]], i, << >>) = ls
      BY <1>3, <3>2, SplitJoin
    <3> QED BY <3>1, <3>3 DEF i, ls
  <2> HIDE DEF t
  <2>3. /\ r.lines = t /\ r.cursor_y = y + 1 /\ r.cursor_x = 0 /\ r.overrun = FALSE
        /\ DOMAIN r = DOMAIN e
    BY <2>1 DEF EdOK
  <2>4. /\ Row(r) = right /\ r.lines[r.cursor_y] = left
        /\ SetRow(r, left \o right) = [t EXCEPT ![y + 2] = Row(e)]
    <3>1. r.cursor_y + 1 = y + 2
      BY <1>1, <2>3
    <3> QED BY <1>4, <2>2, <2>3, <3>1 DEF Row, SetRow
  <2>5. /\ ~(r.cursor_x > 0) /\ r.cursor_x = 0 /\ r.cursor_y > 0
        /\ Len(left) + Len(right) < EDITOR_MAX_LINE_LENGTH
        /\ r.cursor_y - 1 = y
    BY <1>1, <1>2, <1>3, <2>3
  <2>6. u = [r EXCEPT !.lines = Splice(SetRow(r, left \o right), r.cursor_y, << >>),
                      !.cursor_y = r.cursor_y - 1, !.cursor_x = Len(left), !.modified = TRUE]
    <3> HIDE DEF r
    <3>1. /\ Len(r.lines[r.cursor_y]) + Len(Row(r)) < EDITOR_MAX_LINE_LENGTH
          /\ Len(r.lines[r.cursor_y]) \in Nat /\ Len(Row(r)) \in Nat /\ r.cursor_y \in Nat
      BY <1>1, <1>5, <2>3, <2>4, <2>5
    <3>2. u = [r EXCEPT !.lines = Splice(SetRow(r, r.lines[r.cursor_y] \o Row(r)),
                                         r.cursor_y, << >>),
                        !.cursor_y = r.cursor_y - 1, !.cursor_x = Len(r.lines[r.cursor_y]),
                        !.modified = TRUE]
      BY <2>5, <3>1, JoinFits
    <3> QED BY <2>4, <3>2
  <2>7. u = [r EXCEPT !.lines = e.lines, !.cursor_y = y, !.cursor_x = x, !.modified = TRUE]
    BY <1>3, <2>2, <2>3, <2>4, <2>5, <2>6
  <2> HIDE DEF u
  <2> QED BY <2>1, <2>3, <2>7 DEF EdOK
<1>7. CASE c # NL /\ Len(Row(e)) < EDITOR_MAX_LINE_LENGTH - 1
  <2> DEFINE l == left \o <<c>> \o right
             t == [e.lines EXCEPT ![y + 1] = l]
  <2>1. r = [e EXCEPT !.lines = t, !.cursor_x = x + 1, !.modified = TRUE]
    BY <1>7 DEF editor_insert_char, left, right, SetRow
  <2>2. RemoveAt(l, x + 1) = Row(e)
    <3>1. c \in Char
      BY <1>7
    <3>2. RemoveAt(l, Len(left) + 1) = left \o right
      BY <1>5, <3>1, TakeBack
    <3> QED BY <1>3, <1>4, <3>2
  <2> HIDE DEF l
  <2>3. /\ r.lines = t /\ r.cursor_y = y /\ r.cursor_x = x + 1 /\ r.overrun = FALSE
    BY <2>1 DEF EdOK
  <2>4. Row(r) = l
    BY <1>1, <2>3 DEF Row
  <2>5. SetRow(r, Row(e)) = e.lines
    BY <1>1, <2>3 DEF SetRow, Row
  <2>6. r.cursor_x > 0 /\ r.cursor_x - 1 = x
    BY <1>1, <2>3
  <2>7. u = [r EXCEPT !.lines = SetRow(r, RemoveAt(Row(r), r.cursor_x)),
                      !.cursor_x = r.cursor_x - 1, !.modified = TRUE]
    <3> HIDE DEF r
    <3> QED BY <2>6 DEF editor_delete_char
  <2>8. u = [r EXCEPT !.lines = e.lines, !.cursor_x = x, !.modified = TRUE]
    BY <2>2, <2>3, <2>4, <2>5, <2>6, <2>7
  <2> HIDE DEF u, t
  <2> QED BY <2>1, <2>3, <2>8 DEF EdOK
<1>8. CASE /\ ~(c = NL /\ Len(e.lines) < EDITOR_MAX_LINES - 1)
           /\ ~(c # NL /\ Len(Row(e)) < EDITOR_MAX_LINE_LENGTH - 1)
  <2>1. r = e
    BY <1>8 DEF editor_insert_char
  <2> QED BY <2>1
<1> QED BY <1>6, <1>7, <1>8

(* Backspace takes back what was just typed, and such a join never runs    *)
(* over its row.                                                           *)
THEOREM TypingUndone == Spec => []BackspaceUndoes
<1>1. Inv => BackspaceUndoes
  <2> SUFFICES ASSUME Inv, NEW c \in Char \cup {NL}, In("INSERT"),
                      editor_insert_char(ed, c) # ed
               PROVE  LET undone == editor_delete_char(editor_insert_char(ed, c))
                      IN  /\ undone.lines = ed.lines
                          /\ undone.cursor_x = ed.cursor_x
                          /\ undone.cursor_y = ed.cursor_y
                          /\ ~undone.overrun
    BY DEF BackspaceUndoes
  <2>1. EdOK(ed) /\ ed.overrun = FALSE
    BY DEF Inv, In, EdOK
  <2> QED BY <2>1, TypeBack
<1> QED BY InvHolds, <1>1, PTL

-------------------------------------------------------------------------------
(* Saving and opening again. *)

(* What editor_open's loop has when it comes to the end of a file. *)
AtEnd(file) == ReadRows(file)[Len(file)]

(* How a file is read to some place does not depend on what follows. *)
LEMMA ReadPrefix ==
    ASSUME NEW a \in Seq(Char \cup {NL}), NEW b \in Seq(Char \cup {NL}),
           Len(a) <= Len(b), \A i \in 1..Len(a) : b[i] = a[i]
    PROVE  ReadRows(b)[Len(a)] = AtEnd(a)
<1> DEFINE k == Len(a)
           w == ReadRows(a)
           v == ReadRows(b)
           start == [full |-> << >>, row |-> << >>]
<1>1. k \in Nat /\ Len(b) \in Nat
  OBVIOUS
<1>2. w[0] = start /\ \A i \in 1..k : w[i] = ReadChar(w[i - 1], a[i])
  BY ReadRowsSteps
<1>3. v[0] = start /\ \A i \in 1..Len(b) : v[i] = ReadChar(v[i - 1], b[i])
  BY ReadRowsSteps
<1> HIDE DEF w, v, start
<1> DEFINE P == {i \in 0..k : v[i] = w[i]}
<1>4. 0 \in P
  BY <1>1, <1>2, <1>3
<1>5. ASSUME NEW i \in Nat, i < k, i \in P PROVE i + 1 \in P
  <2>1. i + 1 \in 1..k /\ i + 1 \in 1..Len(b) /\ i + 1 \in 0..k /\ (i + 1) - 1 = i
    BY <1>1, <1>5
  <2>2. v[i + 1] = ReadChar(v[i], b[i + 1]) /\ w[i + 1] = ReadChar(w[i], a[i + 1])
    BY <1>2, <1>3, <2>1
  <2>3. b[i + 1] = a[i + 1] /\ v[i] = w[i]
    BY <1>5, <2>1
  <2> QED BY <2>1, <2>2, <2>3
<1>6. k \in P
  <2> HIDE DEF P, k
  <2>1. \A i \in 0..k : i \in P
    BY <1>1, <1>4, <1>5, UpTo
  <2> QED BY <1>1, <2>1
<1> QED BY <1>6 DEF AtEnd, v, w

(* A file with one character more is read one turn further. *)
LEMMA ReadMore ==
    ASSUME NEW a \in Seq(Char \cup {NL}), NEW c \in Char \cup {NL}
    PROVE  AtEnd(Append(a, c)) = ReadChar(AtEnd(a), c)
<1> DEFINE k == Len(a)
           b == Append(a, c)
<1>1. /\ b \in Seq(Char \cup {NL}) /\ Len(b) = k + 1 /\ b[k + 1] = c /\ k \in Nat
      /\ \A i \in 1..k : b[i] = a[i]
  BY AppendProperties
<1> HIDE DEF b
<1>2. k <= Len(b) /\ k + 1 \in 1..Len(b) /\ (k + 1) - 1 = k
  BY <1>1
<1>3. ReadRows(b)[k] = AtEnd(a)
  BY <1>1, <1>2, ReadPrefix
<1>4. ReadRows(b)[k + 1] = ReadChar(ReadRows(b)[k], b[k + 1])
  BY <1>1, <1>2, ReadRowsSteps
<1> QED BY <1>1, <1>3, <1>4 DEF AtEnd, b

(* A beginning of a line, one character longer. *)
LEMMA LongerPrefix ==
    ASSUME NEW S, NEW s \in Seq(S), NEW j \in Nat, j < Len(s)
    PROVE  /\ SubSeq(s, 1, j) \in Seq(S) /\ Len(SubSeq(s, 1, j)) = j
           /\ s[j + 1] \in S
           /\ SubSeq(s, 1, j + 1) = Append(SubSeq(s, 1, j), s[j + 1])
<1>1. /\ 1 \in 1..Len(s) /\ j + 1 \in 1..Len(s) /\ j + 1 \in 1..Len(s)
      /\ (j + 1) - 1 = j /\ j + 1 \in 1..Len(s)
  OBVIOUS
<1>2. SubSeq(s, 1, j) \in Seq(S) /\ Len(SubSeq(s, 1, j)) = j
  <2>1. \A i \in 1..j : s[i] \in S
    OBVIOUS
  <2> QED BY <2>1, SubSeqProperties
<1>3. SubSeq(s, 1, j + 1) = SubSeq(s, 1, (j + 1) - 1) \o <<s[j + 1]>>
  <2> DEFINE n == j + 1
  <2>1. n \in 1..Len(s) /\ 1 \in 1..Len(s)
    OBVIOUS
  <2> HIDE DEF n
  <2>2. SubSeq(s, 1, n) = SubSeq(s, 1, n - 1) \o <<s[n]>>
    BY <2>1, SubSeqRecursiveSecond
  <2> QED BY <2>2 DEF n
<1>4. s[j + 1] \in S
  BY <1>1
<1>5. Append(SubSeq(s, 1, j), s[j + 1]) = SubSeq(s, 1, j) \o <<s[j + 1]>>
  BY <1>2, <1>4, AppendIsConcat
<1> QED BY <1>1, <1>2, <1>3, <1>4, <1>5

(* Reading a line at the beginning of a row fills the row with it. *)
LEMMA ReadLine ==
    ASSUME NEW a \in Seq(Char \cup {NL}), NEW full,
           Len(full) # EDITOR_MAX_LINES,
           AtEnd(a) = [full |-> full, row |-> << >>], NEW l \in Line
    PROVE  /\ a \o l \in Seq(Char \cup {NL})
           /\ AtEnd(a \o l) = [full |-> full, row |-> l]
<1> DEFINE C == Char \cup {NL}
           k == Len(l)
           pre(j) == SubSeq(l, 1, j)
           P == {j \in 0..k : a \o pre(j) \in Seq(C) /\ AtEnd(a \o pre(j)) = [full |-> full, row |-> pre(j)]}
<1>1. /\ l \in Seq(Char) /\ k \in Nat /\ k < EDITOR_MAX_LINE_LENGTH
      /\ EDITOR_MAX_LINE_LENGTH \in Nat /\ NL \notin Char
  BY EditorAssumption DEF Line
<1>2. 0 \in P
  <2>1. pre(0) = << >>
    BY SubSeqEmpty
  <2>2. a \o << >> = a
    BY ConcatEmptySeq
  <2> HIDE DEF pre, k
  <2>3. a \o pre(0) \in Seq(C) /\ AtEnd(a \o pre(0)) = [full |-> full, row |-> pre(0)]
    BY <2>1, <2>2, Zenon
  <2>4. 0 \in 0..k
    BY <1>1
  <2> QED BY <2>3, <2>4, Zenon
<1>3. ASSUME NEW j \in Nat, j < k, j \in P PROVE j + 1 \in P
  <2>1. /\ pre(j) \in Seq(Char) /\ Len(pre(j)) = j /\ l[j + 1] \in Char
        /\ pre(j + 1) = Append(pre(j), l[j + 1])
    BY <1>1, <1>3, LongerPrefix
  <2>2. a \o pre(j) \in Seq(C) /\ AtEnd(a \o pre(j)) = [full |-> full, row |-> pre(j)]
    BY <1>3
  <2> HIDE DEF pre, k
  <2> DEFINE p == pre(j)
             c == l[j + 1]
             b == a \o p
  <2>3. c \in C /\ c # NL /\ p \in Seq(C) /\ a \in Seq(C)
    <3>1. Seq(Char) \subseteq Seq(C)
      BY SeqMonotonic
    <3> QED BY <1>1, <2>1, <3>1
  <2>4. Append(b, c) = a \o Append(p, c)
    <3> HIDE DEF b, c, p, C
    <3>1. Append(p, c) = p \o <<c>> /\ b \in Seq(C)
      BY <2>2, <2>3, AppendIsConcat DEF b, p
    <3>2. Append(b, c) = b \o <<c>> /\ <<c>> \in Seq(C)
      BY <2>3, <3>1, AppendIsConcat
    <3>3. (a \o p) \o <<c>> = a \o (p \o <<c>>)
      BY <2>3, <3>2, ConcatAssociative
    <3> QED BY <3>1, <3>2, <3>3 DEF b
  <2>5. AtEnd(Append(b, c)) = ReadChar([full |-> full, row |-> p], c)
    <3>1. b \in Seq(C) /\ AtEnd(b) = [full |-> full, row |-> p]
      BY <2>2
    <3> HIDE DEF b, c, p
    <3> QED BY <2>3, <3>1, ReadMore
  <2>6. Len(p) < EDITOR_MAX_LINE_LENGTH - 1
    BY <1>1, <1>3, <2>1
  <2>7. Append(b, c) \in Seq(C)
    <3> HIDE DEF c, p
    <3> QED BY <2>2, <2>3, AppendProperties DEF p
  <2> HIDE DEF b, c, p, C
  <2>8. ReadChar([full |-> full, row |-> p], c) = [full |-> full, row |-> Append(p, c)]
    BY <2>3, <2>6 DEF ReadChar
  <2>9. pre(j + 1) = Append(p, c)
    BY <2>1 DEF p, c
  <2>10. j + 1 \in 0..k
    BY <1>1, <1>3
  <2> QED BY <2>4, <2>5, <2>7, <2>8, <2>9, <2>10
<1>4. k \in P
  <2> HIDE DEF P, k
  <2>1. \A j \in 0..k : j \in P
    BY <1>1, <1>2, <1>3, UpTo
  <2> QED BY <1>1, <2>1
<1>5. pre(k) = l
  BY <1>1, SubSeqFull
<1> HIDE DEF pre, k
<1> QED BY <1>4, <1>5

(* The parts content puts together, and what each of them is. *)
LEMMA ContentParts ==
    ASSUME NEW t \in Texts
    PROVE  LET ss == [i \in DOMAIN t |-> IF i < Len(t) THEN Append(t[i], NL) ELSE t[i]]
           IN  /\ content(t) = FlattenSeq(ss)
               /\ ss \in Seq(Seq(Char \cup {NL})) /\ Len(ss) = Len(t)
               /\ \A i \in 1..Len(t) : i < Len(t) => ss[i] = Append(t[i], NL)
               /\ ss[Len(t)] = t[Len(t)]
<1> DEFINE n == Len(t)
           C == Char \cup {NL}
           ss == [i \in DOMAIN t |-> IF i < n THEN Append(t[i], NL) ELSE t[i]]
<1>1. t \in Seq(Line) /\ n \in Nat /\ n \in 1..n /\ ~(n < n) /\ DOMAIN t = 1..n
  BY EditorAssumption DEF Texts
<1>2. content(t) = FlattenSeq(ss)
  BY DEF content
<1>3. ASSUME NEW i \in 1..n PROVE t[i] \in Seq(C) /\ Append(t[i], NL) \in Seq(C)
  <2>1. t[i] \in Seq(Char)
    BY <1>1 DEF Line
  <2>2. t[i] \in Seq(C)
    BY <2>1, SeqMonotonic
  <2>3. NL \in C
    OBVIOUS
  <2> QED BY <2>2, <2>3, AppendProperties
<1> HIDE DEF C
<1>4. ss \in [1..n -> Seq(C)]
  BY <1>1, <1>3
<1>5. ss \in Seq(Seq(C)) /\ Len(ss) = n
  <2> HIDE DEF ss
  <2> QED BY <1>1, <1>4
<1>6. /\ \A i \in 1..n : i < n => ss[i] = Append(t[i], NL)
      /\ ss[n] = t[n]
  BY <1>1
<1> QED BY <1>2, <1>5, <1>6 DEF C

(* What is saved is a text with line ends. *)
LEMMA ContentText ==
    ASSUME NEW t \in Texts
    PROVE  content(t) \in Seq(Char \cup {NL})
<1> DEFINE C == Char \cup {NL}
           ss == [i \in DOMAIN t |-> IF i < Len(t) THEN Append(t[i], NL) ELSE t[i]]
<1>1. content(t) = FlattenSeq(ss) /\ ss \in Seq(Seq(C))
  BY ContentParts
<1> HIDE DEF ss
<1>2. PICK f : Flattens(ss, C, f)
  BY <1>1, Flattening
<1>3. Len(ss) \in Nat /\ Len(ss) \in 0..Len(ss)
  BY <1>1
<1> QED BY <1>1, <1>2, <1>3 DEF Flattens

(* One empty line is written as nothing. *)
LEMMA EmptyContent == content(<< << >> >>) = << >>
<1> DEFINE t == << << >> >>
           C == Char \cup {NL}
           ss == [i \in DOMAIN t |-> IF i < Len(t) THEN Append(t[i], NL) ELSE t[i]]
<1>1. t \in Texts
  BY EmptyLine
<1>2. content(t) = FlattenSeq(ss) /\ ss \in Seq(Seq(C))
  BY <1>1, ContentParts
<1>3. Len(ss) = 1 /\ ss[1] = << >>
  OBVIOUS
<1> HIDE DEF ss
<1>4. PICK f : Flattens(ss, C, f)
  BY <1>2, Flattening
<1>5. content(t) = f[1] /\ f[1] = f[0] \o << >> /\ f[0] = << >>
  BY <1>2, <1>3, <1>4 DEF Flattens
<1> QED BY <1>5

(* All but the last line, written and read again. *)
LEMMA FrontReads ==
    ASSUME NEW t \in Texts, NEW ss \in Seq(Seq(Char \cup {NL})), Len(ss) = Len(t),
           \A i \in 1..Len(t) : i < Len(t) => ss[i] = Append(t[i], NL),
           NEW f, Flattens(ss, Char \cup {NL}, f)
    PROVE  \A i \in 0..(Len(t) - 1) :
              AtEnd(f[i]) = [full |-> SubSeq(t, 1, i), row |-> << >>]
<1> DEFINE n == Len(t)
           C == Char \cup {NL}
           m == n - 1
           P == {i \in 0..m : AtEnd(f[i]) = [full |-> SubSeq(t, 1, i), row |-> << >>]}
<1>1. t \in Seq(Line) /\ n \in Nat /\ n > 0 /\ n <= EDITOR_MAX_LINES /\ m \in Nat
  BY EditorAssumption DEF Texts
<1>2. /\ f \in [0..n -> Seq(C)] /\ f[0] = << >>
      /\ \A i \in 1..n : f[i] = f[i - 1] \o ss[i]
  BY DEF Flattens
<1>3. 0 \in P
  <2>1. SubSeq(t, 1, 0) = << >>
    BY SubSeqEmpty
  <2>2. << >> \in Seq(C) /\ Len(<< >>) = 0
    OBVIOUS
  <2>3. AtEnd(<< >>) = [full |-> << >>, row |-> << >>]
    BY <2>2, ReadRowsSteps DEF AtEnd
  <2>4. AtEnd(f[0]) = [full |-> SubSeq(t, 1, 0), row |-> << >>]
    BY <1>2, <2>1, <2>3, Zenon
  <2>5. 0 \in 0..m
    BY <1>1
  <2> QED BY <2>4, <2>5, Zenon
<1>4. ASSUME NEW i \in Nat, i < m, i \in P PROVE i + 1 \in P
  <2>1. i + 1 \in 1..n /\ i + 1 < n /\ (i + 1) - 1 = i /\ i < n /\ i \in 0..n /\ i + 1 \in 0..m
    BY <1>1, <1>4
  <2> DEFINE full == SubSeq(t, 1, i)
             a == f[i]
             l == t[i + 1]
  <2>2. /\ full \in Seq(Line) /\ Len(full) = i /\ l \in Line
        /\ SubSeq(t, 1, i + 1) = Append(full, l)
    BY <1>1, <2>1, LongerPrefix
  <2>3. a \in Seq(C) /\ AtEnd(a) = [full |-> full, row |-> << >>]
    BY <1>2, <1>4, <2>1
  <2>4. f[i + 1] = a \o Append(l, NL)
    BY <1>2, <2>1
  <2>5. Len(full) # EDITOR_MAX_LINES
    <3> HIDE DEF full
    <3> QED BY <1>1, <2>1, <2>2, EditorAssumption
  <2> HIDE DEF full, a, l
  <2>6. a \o l \in Seq(C) /\ AtEnd(a \o l) = [full |-> full, row |-> l]
    BY <2>2, <2>3, <2>5, ReadLine
  <2>7. a \o Append(l, NL) = Append(a \o l, NL)
    <3>1. l \in Seq(C) /\ NL \in C
      <4>1. l \in Seq(Char)
        BY <2>2 DEF Line
      <4> QED BY <4>1, SeqMonotonic
    <3> HIDE DEF C
    <3>2. Append(l, NL) = l \o <<NL>> /\ Append(a \o l, NL) = (a \o l) \o <<NL>> /\ <<NL>> \in Seq(C)
      BY <2>6, <3>1, AppendIsConcat
    <3>3. (a \o l) \o <<NL>> = a \o (l \o <<NL>>)
      BY <2>3, <3>1, <3>2, ConcatAssociative
    <3> QED BY <3>2, <3>3
  <2>8. AtEnd(Append(a \o l, NL)) = ReadChar([full |-> full, row |-> l], NL)
    BY <2>6, ReadMore
  <2>9. ReadChar([full |-> full, row |-> l], NL) = [full |-> Append(full, l), row |-> << >>]
    BY <2>5 DEF ReadChar
  <2>10. AtEnd(f[i + 1]) = [full |-> SubSeq(t, 1, i + 1), row |-> << >>]
    BY <2>2, <2>4, <2>7, <2>8, <2>9 DEF full, l
  <2> QED BY <2>1, <2>10
<1>5. \A i \in 0..m : i \in P
  <2> HIDE DEF P, m
  <2> QED BY <1>1, <1>3, <1>4, UpTo
<1> QED BY <1>5

(* What editor_open's loop has when it comes to the end of a saved text. *)
LEMMA ReadContent ==
    ASSUME NEW t \in Texts
    PROVE  /\ AtEnd(content(t)) = [full |-> Front(t), row |-> Last(t)]
           /\ Front(t) \in Seq(Line) /\ Len(Front(t)) = Len(t) - 1 /\ Last(t) \in Line
           /\ t = Append(Front(t), Last(t))
<1> DEFINE n == Len(t)
           C == Char \cup {NL}
           ss == [i \in DOMAIN t |-> IF i < Len(t) THEN Append(t[i], NL) ELSE t[i]]
           front == SubSeq(t, 1, n - 1)
           last == t[n]
<1>1. t \in Seq(Line) /\ n \in Nat /\ n > 0 /\ n <= EDITOR_MAX_LINES
  BY EditorAssumption DEF Texts
<1>2. /\ content(t) = FlattenSeq(ss)
      /\ ss \in Seq(Seq(C)) /\ Len(ss) = n
      /\ \A i \in 1..n : i < n => ss[i] = Append(t[i], NL)
      /\ ss[n] = last
  BY ContentParts
<1> HIDE DEF ss
<1>3. PICK f : Flattens(ss, C, f)
  BY <1>2, Flattening
<1>4. \A i \in 0..(n - 1) : AtEnd(f[i]) = [full |-> SubSeq(t, 1, i), row |-> << >>]
  BY <1>2, <1>3, FrontReads
<1>5. n - 1 \in 0..(n - 1) /\ n \in 1..n /\ n - 1 \in 0..n /\ n - 1 \in Nat /\ n - 1 < n /\ (n - 1) + 1 = n
  BY <1>1
<1>6. /\ f[n - 1] \in Seq(C) /\ content(t) = f[n - 1] \o last
  BY <1>2, <1>3, <1>5 DEF Flattens
<1>7. AtEnd(f[n - 1]) = [full |-> front, row |-> << >>]
  BY <1>4, <1>5
<1>8. /\ front \in Seq(Line) /\ Len(front) = n - 1 /\ last \in Line
      /\ SubSeq(t, 1, n) = Append(front, last)
  <2> DEFINE j == n - 1
  <2>1. j \in Nat /\ j < Len(t) /\ j + 1 = n
    BY <1>5
  <2> HIDE DEF j
  <2>2. /\ SubSeq(t, 1, j) \in Seq(Line) /\ Len(SubSeq(t, 1, j)) = j
        /\ t[j + 1] \in Line
        /\ SubSeq(t, 1, j + 1) = Append(SubSeq(t, 1, j), t[j + 1])
    BY <1>1, <2>1, LongerPrefix
  <2> QED BY <2>1, <2>2 DEF j
<1>9. t = Append(front, last)
  BY <1>1, <1>8, SubSeqFull
<1>10. Front(t) = front /\ Last(t) = last
  BY DEF Front, Last
<1> HIDE DEF front, last
<1>11. Len(front) # EDITOR_MAX_LINES
  <2> HIDE DEF n
  <2> QED BY <1>1, <1>8, EditorAssumption
<1>12. AtEnd(content(t)) = [full |-> front, row |-> last]
  BY <1>6, <1>7, <1>8, <1>11, ReadLine
<1> QED BY <1>8, <1>9, <1>10, <1>12

(* A text saved and opened again. *)
LEMMA SavedOpens ==
    ASSUME NEW t \in Texts
    PROVE  editor_open(content(t)) =
             IF Len(t) > 1 /\ Last(t) = << >> THEN Front(t) ELSE t
<1> DEFINE n == Len(t)
           front == Front(t)
           last == Last(t)
<1>1. t \in Seq(Line) /\ n \in Nat /\ n > 0
  BY EditorAssumption DEF Texts
<1>2. /\ AtEnd(content(t)) = [full |-> front, row |-> last]
      /\ front \in Seq(Line) /\ Len(front) = n - 1 /\ last \in Line
      /\ t = Append(front, last)
  BY ReadContent
<1> HIDE DEF front, last
<1>3. CASE last = << >>
  <2>1. editor_open(content(t)) = IF front = << >> THEN << << >> >> ELSE front
    BY <1>2, <1>3 DEF editor_open, AtEnd
  <2>2. CASE n = 1
    <3>1. front = << >>
      BY <1>2, <2>2
    <3>2. t = << << >> >>
      BY <1>2, <1>3, <3>1
    <3>3. ~(n > 1)
      BY <2>2
    <3> QED BY <2>1, <3>1, <3>2, <3>3
  <2>3. CASE n # 1
    <3>1. n > 1 /\ front # << >>
      BY <1>1, <1>2, <2>3
    <3> QED BY <1>3, <2>1, <3>1 DEF front, last
  <2> QED BY <2>2, <2>3
<1>4. CASE last # << >>
  <2>1. editor_open(content(t)) = IF t = << >> THEN << << >> >> ELSE t
    BY <1>2, <1>4 DEF editor_open, AtEnd
  <2>2. t # << >>
    BY <1>1
  <2> QED BY <1>4, <2>1, <2>2 DEF front, last
<1> QED BY <1>3, <1>4

(* What editor_open's loop has, at some point after a text t: all lines of *)
(* t but the last, and the last with perhaps more behind it.               *)
Past(t, p) ==
    /\ Len(p.full) >= Len(t) - 1
    /\ \A i \in 1..(Len(t) - 1) : p.full[i] = t[i]
    /\ \E l \in Line : /\ l = IF Len(p.full) = Len(t) - 1 THEN p.row ELSE p.full[Len(t)]
                       /\ Len(t[Len(t)]) <= Len(l)
                       /\ \A i \in 1..Len(t[Len(t)]) : l[i] = t[Len(t)][i]

(* It has them after another character as well. *)
LEMMA PastMore ==
    ASSUME NEW t \in Texts, NEW p \in Partial, Past(t, p), NEW c \in Char \cup {NL}
    PROVE  Past(t, ReadChar(p, c))
<1> DEFINE n == Len(t)
           q == ReadChar(p, c)
           last == t[n]
<1> SUFFICES Past(t, q)
  OBVIOUS
<1>1. /\ t \in Seq(Line) /\ n \in Nat /\ n > 0 /\ n \in 1..n
      /\ p.full \in Seq(Line) /\ Len(p.full) \in Nat /\ p.row \in Line /\ p.row \in Seq(Char)
  BY EditorAssumption DEF Texts, Partial, Line
<1>2. last \in Seq(Char) /\ Len(last) \in Nat
  BY <1>1 DEF Line
<1>3. /\ Len(p.full) >= n - 1
      /\ \A i \in 1..(n - 1) : p.full[i] = t[i]
  BY DEF Past
<1>4. PICK l \in Line : /\ l = IF Len(p.full) = n - 1 THEN p.row ELSE p.full[n]
                        /\ Len(last) <= Len(l)
                        /\ \A i \in 1..Len(last) : l[i] = last[i]
  BY DEF Past
<1>5. q \in Partial
  BY ReadCharPartial
<1>6. ASSUME NEW r, NEW x \in Line,
             Len(r.full) >= n - 1, \A i \in 1..(n - 1) : r.full[i] = t[i],
             x = IF Len(r.full) = n - 1 THEN r.row ELSE r.full[n],
             Len(last) <= Len(x), \A i \in 1..Len(last) : x[i] = last[i]
      PROVE  Past(t, r)
  BY <1>6, Zenon DEF Past
<1> HIDE DEF last
<1>10. CASE q = p
  BY <1>10
<1>7. CASE q = [full |-> Append(p.full, p.row), row |-> << >>]
  <2>1. /\ Len(q.full) = Len(p.full) + 1 /\ q.full[Len(p.full) + 1] = p.row
        /\ \A i \in 1..Len(p.full) : q.full[i] = p.full[i]
    BY <1>1, <1>7, AppendProperties
  <2>2. Len(q.full) >= n - 1 /\ Len(q.full) # n - 1
    BY <1>1, <1>3, <2>1
  <2>3. \A i \in 1..(n - 1) : q.full[i] = t[i]
    BY <1>1, <1>3, <2>1
  <2>4. q.full[n] = l
    <3>1. CASE Len(p.full) = n - 1
      BY <1>1, <1>4, <2>1, <3>1
    <3>2. CASE Len(p.full) # n - 1
      <4>1. n \in 1..Len(p.full)
        BY <1>1, <1>3, <3>2
      <4> QED BY <1>4, <2>1, <3>2, <4>1
    <3> QED BY <3>1, <3>2
  <2> HIDE DEF q
  <2> QED BY <1>4, <1>6, <2>2, <2>3, <2>4
<1>8. CASE \E row : /\ q = [full |-> p.full, row |-> row]
                    /\ row = p.row \/ \E x \in Char : row = Append(p.row, x)
  <2>1. PICK row : /\ q = [full |-> p.full, row |-> row]
                   /\ row = p.row \/ \E x \in Char : row = Append(p.row, x)
    BY <1>8
  <2>2. row \in Line /\ q.full = p.full /\ q.row = row
    BY <1>5, <2>1 DEF Partial
  <2>3. Len(p.row) <= Len(row) /\ \A i \in 1..Len(p.row) : row[i] = p.row[i]
    <3>1. CASE row = p.row
      BY <1>1, <3>1
    <3>2. ASSUME NEW x \in Char, row = Append(p.row, x) 
          PROVE Len(p.row) <= Len(row) /\ \A i \in 1..Len(p.row) : row[i] = p.row[i]
      BY <1>1, <3>2
    <3> QED BY <2>1, <3>1, <3>2
  <2>4. CASE Len(p.full) = n - 1
    <3>1. Len(p.row) \in Nat /\ Len(row) \in Nat /\ l = p.row
      BY <1>1, <1>4, <2>2, <2>4 DEF Line
    <3>2. Len(last) <= Len(row)
      BY <1>2, <1>4, <2>3, <3>1
    <3>3. \A i \in 1..Len(last) : row[i] = last[i]
      BY <1>2, <1>4, <2>3, <3>1
    <3> HIDE DEF q
    <3> QED BY <1>3, <1>6, <2>2, <2>4, <3>2, <3>3
  <2>5. CASE Len(p.full) # n - 1
    <3> HIDE DEF q
    <3> QED BY <1>3, <1>4, <1>6, <2>2, <2>5
  <2> QED BY <2>4, <2>5
<1>9. \/ q = p
      \/ q = [full |-> Append(p.full, p.row), row |-> << >>]
      \/ \E row : /\ q = [full |-> p.full, row |-> row]
                  /\ row = p.row \/ \E x \in Char : row = Append(p.row, x)
  <2>1. CASE Len(p.full) = EDITOR_MAX_LINES
    BY <2>1 DEF ReadChar
  <2>2. CASE Len(p.full) # EDITOR_MAX_LINES /\ c = NL
    BY <2>2 DEF ReadChar
  <2>3. CASE Len(p.full) # EDITOR_MAX_LINES /\ c # NL
    <3> DEFINE row == IF Len(p.row) < EDITOR_MAX_LINE_LENGTH - 1
                      THEN Append(p.row, c) ELSE p.row
    <3>1. q = [full |-> p.full, row |-> row]
      BY <2>3 DEF ReadChar
    <3>2. row = p.row \/ \E x \in Char : row = Append(p.row, x)
      BY <2>3
    <3> HIDE DEF row, q
    <3> QED BY <3>1, <3>2
  <2> QED BY <2>1, <2>2, <2>3
<1> QED BY <1>7, <1>8, <1>9, <1>10

(* A file that starts with a saved text opens as that text, its last line  *)
(* perhaps with something after it.                                        *)
LEMMA PrefixOpens ==
    ASSUME NEW t \in Texts, NEW file \in Seq(Char \cup {NL}),
           IsPrefix(content(t), file), NEW again, again = editor_open(file)
    PROVE  /\ IsPrefix(Front(t), again) \/ t = << << >> >>
           /\ Last(t) # << >> => /\ Len(again) >= Len(t)
                                 /\ IsPrefix(Last(t), again[Len(t)])
<1> DEFINE n == Len(t)
           a == content(t)
           k == Len(a)
           m == Len(file) - k
           rows == ReadRows(file)
           P == {i \in 0..m : Past(t, rows[k + i])}
<1>1. /\ t \in Seq(Line) /\ n \in Nat /\ n > 0 /\ n \in 1..n
      /\ Last(t) = t[n] /\ t[n] \in Line
  BY EditorAssumption DEF Texts, Last
<1>2. /\ AtEnd(a) = [full |-> Front(t), row |-> Last(t)]
      /\ Front(t) \in Seq(Line) /\ Len(Front(t)) = n - 1
      /\ \A i \in 1..(n - 1) : Front(t)[i] = t[i]
  <2>1. /\ AtEnd(a) = [full |-> Front(t), row |-> Last(t)]
        /\ Front(t) \in Seq(Line) /\ Len(Front(t)) = n - 1
    BY ReadContent
  <2>2. \A i \in 1..(n - 1) : Front(t)[i] = t[i]
    BY <1>1, SubSeqProperties DEF Front
  <2> QED BY <2>1, <2>2
<1>3. /\ a \in Seq(Char \cup {NL}) /\ k \in Nat /\ k <= Len(file) /\ m \in Nat
      /\ \A i \in 1..k : file[i] = a[i]
  <2>1. a \in Seq(Char \cup {NL})
    BY ContentText
  <2> HIDE DEF a
  <2> QED BY <2>1, PrefixIs DEF a
<1> HIDE DEF a
<1>4. /\ \A i \in 1..Len(file) : rows[i] = ReadChar(rows[i - 1], file[i])
      /\ \A i \in 0..Len(file) : rows[i] \in Partial
  BY ReadRowsSteps
<1>5. rows[k] = AtEnd(a)
  BY <1>3, ReadPrefix
<1> HIDE DEF rows, k, m
<1>6. 0 \in P
  <2>1. Past(t, AtEnd(a))
    <3> DEFINE p == AtEnd(a)
    <3>1. p.full = Front(t) /\ p.row = t[n]
      BY <1>1, <1>2
    <3> HIDE DEF p
    <3> QED BY <1>1, <1>2, <3>1 DEF Past, Line
  <2> QED BY <1>3, <1>5, <2>1
<1>7. ASSUME NEW i \in Nat, i < m, i \in P PROVE i + 1 \in P
  <2>1. k + i \in 0..Len(file) /\ k + i + 1 \in 1..Len(file) /\ (k + i + 1) - 1 = k + i
    BY <1>3, <1>7 DEF m
  <2>2. rows[k + i + 1] = ReadChar(rows[k + i], file[k + i + 1])
    BY <1>4, <2>1
  <2>3. Past(t, rows[k + i]) /\ rows[k + i] \in Partial /\ file[k + i + 1] \in Char \cup {NL}
    BY <1>4, <1>7, <2>1
  <2>4. Past(t, rows[k + i + 1])
    BY <2>2, <2>3, PastMore
  <2>5. i + 1 \in 0..m /\ k + (i + 1) = k + i + 1
    BY <1>3, <1>7
  <2> QED BY <2>4, <2>5
<1>8. m \in P
  <2> HIDE DEF P
  <2>1. \A i \in 0..m : i \in P
    BY <1>3, <1>6, <1>7, UpTo
  <2> QED BY <1>3, <2>1
<1> DEFINE p == rows[Len(file)]
           lines == IF p.row = << >> THEN p.full ELSE Append(p.full, p.row)
<1>9. Past(t, p) /\ p \in Partial
  <2>1. k + m = Len(file) /\ Len(file) \in 0..Len(file)
    BY <1>3 DEF m
  <2> QED BY <1>4, <1>8, <2>1
<1>10. again = IF lines = << >> THEN << << >> >> ELSE lines
  BY DEF editor_open, rows
<1> HIDE DEF p
<1>11. /\ Len(p.full) >= n - 1 /\ p.full \in Seq(Line) /\ p.row \in Line /\ Len(p.full) \in Nat
       /\ \A i \in 1..(n - 1) : p.full[i] = t[i]
  BY <1>9 DEF Past, Partial
<1>12. PICK l \in Line : /\ l = IF Len(p.full) = n - 1 THEN p.row ELSE p.full[n]
                         /\ Len(t[n]) <= Len(l)
                         /\ \A i \in 1..Len(t[n]) : l[i] = t[n][i]
  BY <1>9 DEF Past
<1>13. /\ lines \in Seq(Line) /\ Len(lines) >= Len(p.full) /\ Len(lines) \in Nat
       /\ \A i \in 1..Len(p.full) : lines[i] = p.full[i]
       /\ p.row # << >> => Len(lines) = Len(p.full) + 1 /\ lines[Len(p.full) + 1] = p.row
  BY <1>11
<1> HIDE DEF lines
<1>14. IsPrefix(t[n], l)
  <2>1. t[n] \in Seq(Char) /\ l \in Seq(Char)
    BY <1>1 DEF Line
  <2> QED BY <1>12, <2>1, PrefixIs
<1>15. t[n] # << >> => l # << >>
  <2>1. t[n] \in Seq(Char) /\ l \in Seq(Char)
    BY <1>1 DEF Line
  <2> QED BY <1>12, <2>1
<1>16. t[n] # << >> => Len(lines) >= n /\ lines[n] = l
  <2>1. CASE Len(p.full) = n - 1
    BY <1>1, <1>12, <1>13, <1>15, <2>1
  <2>2. CASE Len(p.full) # n - 1
    <3>1. n \in 1..Len(p.full)
      BY <1>1, <1>11, <2>2
    <3> QED BY <1>11, <1>12, <1>13, <2>2, <3>1
  <2> QED BY <2>1, <2>2
<1>17. CASE lines = << >>
  <2>1. Len(lines) = 0
    BY <1>17
  <2>2. n = 1 /\ t[n] = << >>
    <3> HIDE DEF n
    <3>1. n = 1
      BY <1>1, <1>11, <1>13, <2>1
    <3>2. t[n] = << >>
      BY <1>16, <2>1, <3>1
    <3> QED BY <3>1, <3>2
  <2>3. t = << << >> >>
    <3>1. Front(t) = << >> /\ t = Append(Front(t), Last(t))
      BY <1>2, <2>2, ReadContent
    <3> QED BY <1>1, <2>2, <3>1
  <2> QED BY <1>1, <2>2, <2>3
<1>18. CASE lines # << >>
  <2>1. again = lines
    BY <1>10, <1>18
  <2>2. IsPrefix(Front(t), again)
    <3>1. Len(Front(t)) <= Len(lines) /\ \A i \in 1..Len(Front(t)) : lines[i] = Front(t)[i]
      BY <1>1, <1>2, <1>11, <1>13
    <3> QED BY <1>2, <1>13, <2>1, <3>1, PrefixIs
  <2> QED BY <1>1, <1>14, <1>16, <2>1, <2>2
<1> QED BY <1>17, <1>18

(* A text saved and opened again is the same text, but for an empty last   *)
(* line, whatever has been opened and typed.                               *)
THEOREM SavedComesBack == Spec => []SavedTextOpens
<1>1. Inv => SavedTextOpens
  <2> SUFFICES ASSUME Inv PROVE SavedTextOpens
    OBVIOUS
  <2>1. ed.lines \in Texts
    BY DEF Inv, EdOK
  <2> QED BY <2>1, SavedOpens DEF SavedTextOpens
<1> QED BY InvHolds, <1>1, PTL

(* The written text stays shorter than as many full rows. *)
LEMMA ContentFits ==
    ASSUME NEW t \in Texts
    PROVE  Len(content(t)) < EDITOR_MAX_LINES * EDITOR_MAX_LINE_LENGTH
<1> DEFINE n == Len(t)
           C == Char \cup {NL}
           w == EDITOR_MAX_LINE_LENGTH
           ss == [i \in DOMAIN t |-> IF i < Len(t) THEN Append(t[i], NL) ELSE t[i]]
<1>1. /\ t \in Seq(Line) /\ n \in Nat /\ n > 0 /\ n <= EDITOR_MAX_LINES
      /\ EDITOR_MAX_LINES \in Nat /\ w \in Nat /\ w > 0
  BY EditorAssumption DEF Texts
<1>2. /\ content(t) = FlattenSeq(ss)
      /\ ss \in Seq(Seq(C)) /\ Len(ss) = n
      /\ \A i \in 1..n : i < n => ss[i] = Append(t[i], NL)
      /\ ss[n] = t[n]
  BY ContentParts
<1> HIDE DEF ss
<1>3. PICK f : Flattens(ss, C, f)
  BY <1>2, Flattening
<1>4. /\ f \in [0..n -> Seq(C)] /\ f[0] = << >> /\ content(t) = f[n]
      /\ \A i \in 1..n : f[i] = f[i - 1] \o ss[i]
  BY <1>2, <1>3 DEF Flattens
<1>5. ASSUME NEW i \in 1..n
      PROVE  /\ Len(f[i]) \in Nat /\ Len(f[i - 1]) \in Nat
             /\ i < n => Len(f[i]) <= Len(f[i - 1]) + w
             /\ i = n => Len(f[i]) < Len(f[i - 1]) + w
  <2>1. i \in 0..n /\ i - 1 \in 0..n
    BY <1>1
  <2>2. f[i] \in Seq(C) /\ f[i - 1] \in Seq(C) /\ ss[i] \in Seq(C)
    <3> HIDE DEF C, n
    <3>1. f[i] \in Seq(C) /\ f[i - 1] \in Seq(C)
      BY <1>4, <2>1
    <3>2. ss[i] \in Seq(C)
      BY <1>2, ElementOfSeq
    <3> QED BY <3>1, <3>2
  <2>3. Len(f[i]) = Len(f[i - 1]) + Len(ss[i]) /\ Len(f[i - 1]) \in Nat /\ Len(ss[i]) \in Nat
    <3>1. Len(f[i - 1] \o ss[i]) = Len(f[i - 1]) + Len(ss[i])
      BY <2>2, ConcatProperties
    <3>2. Len(f[i - 1]) \in Nat /\ Len(ss[i]) \in Nat
      BY <2>2, LenProperties
    <3>3. f[i] = f[i - 1] \o ss[i]
      BY <1>4
    <3> QED BY <3>1, <3>2, <3>3, Zenon
  <2>4. t[i] \in Seq(Char) /\ Len(t[i]) \in Nat /\ Len(t[i]) < w
    BY <1>1 DEF Line
  <2>5. i < n => Len(ss[i]) = Len(t[i]) + 1
    <3>1. Len(Append(t[i], NL)) = Len(t[i]) + 1
      BY <2>4
    <3> QED BY <1>2, <3>1
  <2>6. i = n => Len(ss[i]) = Len(t[i])
    BY <1>2
  <2> DEFINE a == Len(f[i])
             b == Len(f[i - 1])
             c == Len(ss[i])
             d == Len(t[i])
  <2>7. /\ a = b + c /\ b \in Nat /\ c \in Nat /\ d \in Nat /\ d < w
        /\ i < n => c = d + 1
        /\ i = n => c = d
    BY <2>3, <2>4, <2>5, <2>6, Zenon
  <2> HIDE DEF w, n, a, b, c, d
  <2>8. /\ a \in Nat
        /\ i < n => a <= b + w
        /\ i = n => a < b + w
    BY <1>1, <2>7
  <2> QED BY <2>7, <2>8, Zenon DEF a, b
<1> DEFINE len == [i \in 0..n |-> Len(f[i])]
           P == {i \in 0..(n - 1) : len[i] <= i * w}
<1>6. /\ \A i \in 0..n : len[i] \in Nat
      /\ len[0] = 0
      /\ \A i \in 1..n : /\ i < n => len[i] <= len[i - 1] + w
                         /\ i = n => len[i] < len[i - 1] + w
  <2>1. \A i \in 0..n : Len(f[i]) \in Nat
    BY <1>4
  <2>2. Len(f[0]) = 0 /\ 0 \in 0..n
    BY <1>1, <1>4
  <2>3. ASSUME NEW i \in 1..n PROVE len[i] = Len(f[i]) /\ len[i - 1] = Len(f[i - 1])
    <3>1. i \in 0..n /\ i - 1 \in 0..n
      BY <1>1
    <3> QED BY <3>1
  <2> HIDE DEF n, w
  <2>4. ASSUME NEW i \in 1..n
        PROVE  /\ i < n => len[i] <= len[i - 1] + w
               /\ i = n => len[i] < len[i - 1] + w
    BY <1>5, <2>3
  <2> QED BY <2>1, <2>2, <2>4
<1>7. content(t) = f[n] /\ len[n] = Len(f[n])
  BY <1>1, <1>4
<1> HIDE DEF len, n, w
<1>8. 0 \in P
  <2>1. 0 * w = 0 /\ 0 \in 0..(n - 1)
    BY <1>1
  <2> QED BY <1>6, <2>1
<1>9. ASSUME NEW i \in Nat, i < n - 1, i \in P PROVE i + 1 \in P
  <2>1. i + 1 \in 1..n /\ i + 1 < n /\ (i + 1) - 1 = i /\ i \in 0..n /\ i + 1 \in 0..n /\ i + 1 \in 0..(n - 1)
    BY <1>1, <1>9
  <2>2. len[i + 1] <= len[i] + w /\ len[i] <= i * w /\ len[i] \in Nat /\ len[i + 1] \in Nat
    BY <1>6, <1>9, <2>1
  <2>3. (i + 1) * w = i * w + w /\ i * w \in Nat
    BY <1>1
  <2> DEFINE a == i * w
             b == (i + 1) * w
  <2> HIDE DEF a, b
  <2>4. a \in Nat /\ b = a + w /\ len[i] <= a
    BY <2>2, <2>3 DEF a, b
  <2>5. len[i + 1] <= b
    BY <1>1, <2>2, <2>4
  <2> QED BY <2>1, <2>5 DEF b
<1>10. len[n - 1] <= (n - 1) * w
  <2> DEFINE m == n - 1
  <2>1. m \in Nat
    BY <1>1
  <2> HIDE DEF P, m
  <2>2. \A i \in Nat : i < m /\ i \in P => i + 1 \in P
    BY <1>9 DEF m
  <2>3. \A i \in 0..m : i \in P
    BY <1>8, <2>1, <2>2, UpTo
  <2>4. m \in P
    BY <2>1, <2>3
  <2> QED BY <2>4 DEF P, m
<1>11. len[n] < n * w
  <2> DEFINE a == (n - 1) * w
             b == n * w
  <2>1. a \in Nat /\ b = a + w
    BY <1>1
  <2>2. n \in 1..n /\ n - 1 \in 0..n /\ n \in 0..n
    BY <1>1
  <2> HIDE DEF a, b
  <2>3. len[n] < len[n - 1] + w /\ len[n] \in Nat /\ len[n - 1] \in Nat
    BY <1>6, <2>2
  <2>4. len[n - 1] <= a
    BY <1>10 DEF a
  <2>5. len[n] < b
    BY <1>1, <2>1, <2>3, <2>4
  <2> QED BY <2>5 DEF b
<1>12. n * w <= EDITOR_MAX_LINES * w
  <2>1. EDITOR_MAX_LINES - n \in Nat
    BY <1>1
  <2>2. (EDITOR_MAX_LINES - n) * w \in Nat
    BY <1>1, <2>1
  <2>3. EDITOR_MAX_LINES * w = n * w + (EDITOR_MAX_LINES - n) * w
    BY <1>1
  <2>4. n * w \in Nat
    BY <1>1
  <2> QED BY <2>2, <2>3, <2>4
<1>13. Len(f[n]) < EDITOR_MAX_LINES * w
  <2> DEFINE a == n * w
             b == EDITOR_MAX_LINES * w
  <2>1. a \in Nat /\ b \in Nat
    BY <1>1
  <2>2. n \in 0..n
    BY <1>1
  <2>3. len[n] \in Nat
    BY <1>6, <2>2
  <2> HIDE DEF a, b
  <2>4. len[n] < a /\ a <= b
    BY <1>11, <1>12 DEF a, b
  <2>5. len[n] < b
    BY <2>1, <2>3, <2>4
  <2> QED BY <1>7, <2>5 DEF b
<1> QED BY <1>7, <1>13 DEF w

(* Whatever has been opened and typed, the text and its '\0' fit the       *)
(* content[] of editor_save_file.                                          *)
THEOREM SaveHolds == Spec => []SaveFits
<1>1. Inv => SaveFits
  <2> SUFFICES ASSUME Inv PROVE SaveFits
    OBVIOUS
  <2>1. ed.lines \in Texts
    BY DEF Inv, EdOK
  <2> QED BY <2>1, ContentFits DEF SaveFits
<1> QED BY InvHolds, <1>1, PTL

===============================================================================
