-------------------------------- MODULE Editor --------------------------------
(***************************************************************************)
(* The vim-like editor of src/kernel/editor.c, one action per key.         *)
(*                                                                         *)
(* The keyboard interrupt handler passes a key to editor_process_key and   *)
(* waits for it, so a key is one step.  Rows of buffer[][] are strings     *)
(* ended by '\0': lines holds the line_count rows in use, without the      *)
(* '\0'.  The status messages are left out.                                *)
(*                                                                         *)
(* A string stays inside its row except when editor_delete_char joins two  *)
(* rows that do not fit in one; the copy then runs over into the row       *)
(* below.  That sets overrun and ends the behaviour: nothing is claimed of *)
(* the editor afterwards.                                                  *)
(***************************************************************************)
EXTENDS Integers, SequencesExt

CONSTANTS
    Char,                     \* the characters a line holds
    NL,                       \* '\n'
    CommandChar,              \* the characters typed after ':'
    EDITOR_MAX_LINES,         \* rows of buffer
    EDITOR_MAX_LINE_LENGTH,   \* bytes of a row, the '\0' included
    VIEW_LINES,               \* rows of the screen that show text
    TEXT_COLUMN,              \* the column after the line numbers
    VGA_WIDTH,                \* columns of the screen
    MAX_COMMAND,              \* characters command_buffer accepts
    Files                     \* what fs_read_file may return, up to the '\0'

ASSUME EditorAssumption ==
    /\ NL \notin Char
    /\ EDITOR_MAX_LINES \in Nat /\ EDITOR_MAX_LINES > 1
    /\ EDITOR_MAX_LINE_LENGTH \in Nat /\ EDITOR_MAX_LINE_LENGTH > 1
    /\ VIEW_LINES \in Nat \ {0}
    /\ TEXT_COLUMN \in Nat /\ VGA_WIDTH \in Nat
    /\ TEXT_COLUMN + EDITOR_MAX_LINE_LENGTH - 1 <= VGA_WIDTH   \* 5 + 76 - 1, 80
    /\ MAX_COMMAND \in Nat
    /\ Files \subseteq Seq(Char \cup {NL})

VARIABLES
    ed,       \* editor_state_t
    stored    \* the text as it was opened or last written to the file

vars == <<ed, stored>>

Mode == {"NORMAL", "INSERT", "COMMAND", "EXIT"}

Line == {l \in Seq(Char) : Len(l) < EDITOR_MAX_LINE_LENGTH}

Texts == {t \in Seq(Line) : Len(t) \in 1..EDITOR_MAX_LINES}

(* The line the cursor is in; cursor_y counts from 0. *)
Row(e) == e.lines[e.cursor_y + 1]

SetRow(e, l) == [e.lines EXCEPT ![e.cursor_y + 1] = l]

(* s with its i-th element replaced by the elements of new. *)
Splice(s, i, new) == SubSeq(s, 1, i - 1) \o new \o SubSeq(s, i + 1, Len(s))

-------------------------------------------------------------------------------
(* Opening and saving. *)

(* One turn of editor_open's loop, on the finished rows and the row being  *)
(* filled: it ends after EDITOR_MAX_LINES rows, and a character for which  *)
(* the row has no room is dropped.                                         *)
ReadChar(p, c) ==
    CASE Len(p.full) = EDITOR_MAX_LINES -> p
      [] Len(p.full) # EDITOR_MAX_LINES /\ c = NL ->
             [full |-> Append(p.full, p.row), row |-> << >>]
      [] OTHER ->
             [full |-> p.full,
              row  |-> IF Len(p.row) < EDITOR_MAX_LINE_LENGTH - 1
                       THEN Append(p.row, c) ELSE p.row]

(* The values these take as the loop goes through the file. *)
ReadRows(file) ==
    LET after[i \in 0..Len(file)] ==
            IF i = 0 THEN [full |-> << >>, row |-> << >>]
            ELSE ReadChar(after[i - 1], file[i])
    IN  after

(* The lines of a file's text.  A last line without characters is none. *)
editor_open(file) ==
    LET end   == ReadRows(file)[Len(file)]
        lines == IF end.row = << >> THEN end.full ELSE Append(end.full, end.row)
    IN  IF lines = << >> THEN << << >> >> ELSE lines

(* Faulty: the last line gets a '\n' as well. *)
content_ended(lines) ==
    FlattenSeq([i \in DOMAIN lines |-> Append(lines[i], NL)])

(* Faulty: no '\n' after a line without characters. *)
content_squeezed(lines) ==
    FlattenSeq([i \in DOMAIN lines |->
                  IF i < Len(lines) /\ lines[i] # << >>
                  THEN Append(lines[i], NL) ELSE lines[i]])

(* The content[] editor_save_file builds: the lines with '\n' between. *)
content(lines) ==
    FlattenSeq([i \in DOMAIN lines |->
                  IF i < Len(lines) THEN Append(lines[i], NL) ELSE lines[i]])

(* run_editor: editor_init, then editor_open.  A new or empty file and a   *)
(* path that names no file leave the one empty line of editor_init.        *)
run_editor(file) ==
    [lines |-> editor_open(file), cursor_x |-> 0, cursor_y |-> 0,
     view_start_line |-> 0, mode |-> "NORMAL", modified |-> FALSE,
     command |-> << >>, overrun |-> FALSE]

(* The save.  writable says that the path leads to, or fs_create_file      *)
(* made, a regular file with a buffer.  fs_write_file returns the number   *)
(* of bytes it stored and the editor takes only 0 for success.             *)
editor_save_file(e, writable) ==
    IF writable /\ content(e.lines) = << >>
    THEN [e EXCEPT !.modified = FALSE]
    ELSE e

-------------------------------------------------------------------------------
(* Moving and editing. *)

(* Faulty: the view stops one line short of the cursor. *)
editor_move_cursor_short(e, dx, dy) ==
    LET Clip(i, max) == IF i < 0 THEN 0 ELSE IF i > max THEN max ELSE i
        y == Clip(e.cursor_y + dy, Len(e.lines) - 1)
        x == Clip(e.cursor_x + dx, Len(e.lines[y + 1]))
        v == IF y < e.view_start_line THEN y
             ELSE IF y > e.view_start_line + VIEW_LINES THEN y - (VIEW_LINES - 1)
             ELSE e.view_start_line
    IN  [e EXCEPT !.cursor_x = x, !.cursor_y = y, !.view_start_line = v]

(* The row is clipped first, then the column against the new row, then the *)
(* view follows.                                                           *)
editor_move_cursor(e, dx, dy) ==
    LET Clip(i, max) == IF i < 0 THEN 0 ELSE IF i > max THEN max ELSE i
        y == Clip(e.cursor_y + dy, Len(e.lines) - 1)
        x == Clip(e.cursor_x + dx, Len(e.lines[y + 1]))
        v == IF y < e.view_start_line THEN y
             ELSE IF y >= e.view_start_line + VIEW_LINES THEN y - (VIEW_LINES - 1)
             ELSE e.view_start_line
    IN  [e EXCEPT !.cursor_x = x, !.cursor_y = y, !.view_start_line = v]

(* A newline splits the line at the cursor while a row is to spare, any    *)
(* other character goes in while the row has room; else nothing happens.   *)
editor_insert_char(e, c) ==
    LET left  == SubSeq(Row(e), 1, e.cursor_x)
        right == SubSeq(Row(e), e.cursor_x + 1, Len(Row(e)))
    IN  CASE c = NL /\ Len(e.lines) < EDITOR_MAX_LINES - 1 ->
               [e EXCEPT !.lines = Splice(@, e.cursor_y + 1, <<left, right>>),
                         !.cursor_y = @ + 1, !.cursor_x = 0, !.modified = TRUE]
          [] c # NL /\ Len(Row(e)) < EDITOR_MAX_LINE_LENGTH - 1 ->
               [e EXCEPT !.lines = SetRow(e, left \o <<c>> \o right),
                         !.cursor_x = @ + 1, !.modified = TRUE]
          [] OTHER -> e

(* Faulty: the join puts the cursor at the end of the joined line. *)
editor_delete_char_at_end(e) ==
    LET prev == e.lines[e.cursor_y]
        joined == prev \o Row(e)
    IN  CASE e.cursor_x > 0 ->
               [e EXCEPT !.lines = SetRow(e, RemoveAt(Row(e), e.cursor_x)),
                         !.cursor_x = @ - 1, !.modified = TRUE]
          [] e.cursor_x = 0 /\ e.cursor_y > 0 ->
               [e EXCEPT !.lines = Splice(SetRow(e, joined), e.cursor_y, << >>),
                         !.cursor_y = @ - 1, !.cursor_x = Len(joined),
                         !.modified = TRUE, !.overrun = Len(joined) >= EDITOR_MAX_LINE_LENGTH]
          [] OTHER -> e

(* Deletes the character before the cursor, or joins the line to the one   *)
(* above it without asking whether the two fit in a row.                   *)
editor_delete_char(e) ==
    LET prev == e.lines[e.cursor_y]
    IN  CASE e.cursor_x > 0 ->
               [e EXCEPT !.lines = SetRow(e, RemoveAt(Row(e), e.cursor_x)),
                         !.cursor_x = @ - 1, !.modified = TRUE]
          [] e.cursor_x = 0 /\ e.cursor_y > 0
               /\ Len(prev) + Len(Row(e)) < EDITOR_MAX_LINE_LENGTH ->
               [e EXCEPT !.lines = Splice(SetRow(e, prev \o Row(e)), e.cursor_y, << >>),
                         !.cursor_y = @ - 1, !.cursor_x = Len(prev),
                         !.modified = TRUE]
          [] e.cursor_x = 0 /\ e.cursor_y > 0
               /\ Len(prev) + Len(Row(e)) >= EDITOR_MAX_LINE_LENGTH ->
               [e EXCEPT !.overrun = TRUE]
          [] OTHER -> e

(* Faulty: o does not ask for a spare row. *)
open_below_unchecked(e) ==
    [e EXCEPT !.lines = Splice(@, e.cursor_y + 1, <<Row(e), << >> >>),
              !.cursor_y = @ + 1, !.cursor_x = 0,
              !.mode = "INSERT", !.modified = TRUE]

(* o: an empty line below the cursor's, while a row is to spare. *)
open_below(e) ==
    IF Len(e.lines) < EDITOR_MAX_LINES - 1
    THEN [e EXCEPT !.lines = Splice(@, e.cursor_y + 1, <<Row(e), << >> >>),
                   !.cursor_y = @ + 1, !.cursor_x = 0,
                   !.mode = "INSERT", !.modified = TRUE]
    ELSE e

(* Faulty: x does not mark the text as modified. *)
delete_under_unmarked(e) ==
    IF e.cursor_x < Len(Row(e))
    THEN [e EXCEPT !.lines = SetRow(e, RemoveAt(Row(e), e.cursor_x + 1))]
    ELSE e

(* x: the character under the cursor, if the cursor is on one. *)
delete_under(e) ==
    IF e.cursor_x < Len(Row(e))
    THEN [e EXCEPT !.lines = SetRow(e, RemoveAt(Row(e), e.cursor_x + 1)),
                   !.modified = TRUE]
    ELSE e

(* Faulty: d on the last line leaves the cursor below the text. *)
delete_line_unclipped(e) ==
    IF Len(e.lines) > 1
    THEN [e EXCEPT !.lines = Splice(@, e.cursor_y + 1, << >>),
                   !.cursor_x = 0, !.modified = TRUE]
    ELSE e

(* d: the cursor's line, unless it is the only one. *)
delete_line(e) ==
    IF Len(e.lines) > 1
    THEN [e EXCEPT !.lines = Splice(@, e.cursor_y + 1, << >>),
                   !.cursor_y = IF @ >= Len(e.lines) - 1
                                THEN Len(e.lines) - 2 ELSE @,
                   !.cursor_x = 0, !.modified = TRUE]
    ELSE e

(* w saves, q leaves when nothing is modified, q! always, wq saves and     *)
(* leaves when the save cleared modified.                                  *)
editor_process_command(e, writable) ==
    LET saved == editor_save_file(e, writable)
        done  == CASE e.command = <<"w">> -> saved
                   [] e.command = <<"q">> /\ ~e.modified ->
                        [e EXCEPT !.mode = "EXIT"]
                   [] e.command = <<"q", "!">> -> [e EXCEPT !.mode = "EXIT"]
                   [] e.command = <<"w", "q">> /\ ~saved.modified ->
                        [saved EXCEPT !.mode = "EXIT"]
                   [] OTHER -> e
    IN  [done EXCEPT !.command = << >>]

-------------------------------------------------------------------------------
(* The row and column where terminal_putentryat(x, y) puts an entry: one   *)
(* past the right end of a row is the start of the next.                   *)
Cell(x, y) == IF x < VGA_WIDTH THEN <<y, x>> ELSE <<y + 1, x - VGA_WIDTH>>

(* What editor_draw paints, after every key: the lines in the text rows    *)
(* from the view's first, and the cursor if its row is one of these.  Line *)
(* numbers, status and message line are left out.                          *)
editor_draw(e) ==
    LET y == e.cursor_y - e.view_start_line
    IN  [text   |-> SubSeq(e.lines, e.view_start_line + 1,
                           Min({Len(e.lines), e.view_start_line + VIEW_LINES})),
         cursor |-> IF e.mode # "COMMAND" /\ y \in 0..(VIEW_LINES - 1)
                    THEN {Cell(TEXT_COLUMN + e.cursor_x, y)} ELSE {}]

-------------------------------------------------------------------------------
(* editor_process_key, by mode and key.  The other keys of NORMAL mode     *)
(* change nothing.                                                         *)

(* Before the first edit the editor is inactive, as it is after exiting. *)
Init ==
    /\ ed = [run_editor(<< >>) EXCEPT !.mode = "EXIT"]
    /\ stored = ed.lines

(* The shell's edit or vi; the shell gets no key while the editor runs. *)
Edit(file) ==
    /\ ed.mode = "EXIT"
    /\ ed' = run_editor(file)
    /\ stored' = ed'.lines

In(mode) == ed.mode = mode /\ ~ed.overrun

Becomes(e) == ed' = e /\ UNCHANGED stored

(* h, j, k, l and, in INSERT mode as well, the arrow keys. *)
Move ==
    /\ In("NORMAL") \/ In("INSERT")
    /\ \E d \in {<<-1, 0>>, <<1, 0>>, <<0, -1>>, <<0, 1>>} :
          Becomes(editor_move_cursor(ed, d[1], d[2]))

InsertMode == In("NORMAL") /\ Becomes([ed EXCEPT !.mode = "INSERT"])

AppendMode ==
    /\ In("NORMAL")
    /\ Becomes([editor_move_cursor([ed EXCEPT !.cursor_x = @ + 1], 0, 0)
                  EXCEPT !.mode = "INSERT"])

OpenBelow == In("NORMAL") /\ Becomes(open_below(ed))

DeleteUnder == In("NORMAL") /\ Becomes(delete_under(ed))

DeleteLine == In("NORMAL") /\ Becomes(delete_line(ed))

CommandMode ==
    In("NORMAL") /\ Becomes([ed EXCEPT !.mode = "COMMAND", !.command = << >>])

LeaveInsert ==
    /\ In("INSERT")
    /\ Becomes([ed EXCEPT !.mode = "NORMAL",
                          !.cursor_x = IF @ > 0 THEN @ - 1 ELSE @])

Backspace == In("INSERT") /\ Becomes(editor_delete_char(ed))

Insert(c) == In("INSERT") /\ Becomes(editor_insert_char(ed, c))

LeaveCommand ==
    In("COMMAND") /\ Becomes([ed EXCEPT !.mode = "NORMAL", !.command = << >>])

(* Any key with a character: with the US layout the arrow keys have one    *)
(* too, read past the end of the table.                                    *)
TypeCommand(c) ==
    /\ In("COMMAND")
    /\ Len(ed.command) < MAX_COMMAND
    /\ Becomes([ed EXCEPT !.command = Append(@, c)])

EraseCommand ==
    /\ In("COMMAND")
    /\ ed.command # << >>
    /\ Becomes([ed EXCEPT !.command = Front(@)])

(* Any key that neither saves nor leaves the editor. *)
Key ==
    \/ Move \/ InsertMode \/ AppendMode \/ OpenBelow
    \/ DeleteUnder \/ DeleteLine \/ CommandMode
    \/ LeaveInsert \/ Backspace
    \/ \E c \in Char \cup {NL} : Insert(c)
    \/ LeaveCommand \/ EraseCommand
    \/ \E c \in CommandChar : TypeCommand(c)

(* Enter.  writable is the file system's answer to a save, if it is one. *)
RunCommand(writable) ==
    LET e == editor_process_command(ed, writable)
    IN  /\ In("COMMAND")
        /\ ed' = [e EXCEPT !.mode = IF @ = "EXIT" THEN @ ELSE "NORMAL"]
        /\ stored' = IF writable /\ ed.command \in {<<"w">>, <<"w", "q">>}
                     THEN ed.lines ELSE stored

Next ==
    \/ \E file \in Files : Edit(file)
    \/ Key
    \/ \E writable \in BOOLEAN : RunCommand(writable)

Spec == Init /\ [][Next]_vars

-------------------------------------------------------------------------------
(* Properties. *)

(* The type invariant: at most EDITOR_MAX_LINES lines, each with room for  *)
(* its '\0', and a command that fits command_buffer.                       *)
TypeOK ==
    /\ ed \in [lines : Texts, cursor_x : Nat, cursor_y : Nat,
               view_start_line : Nat, mode : Mode, modified : BOOLEAN,
               command : Seq(CommandChar), overrun : BOOLEAN]
    /\ Len(ed.command) <= MAX_COMMAND
    /\ stored \in Texts

(* The cursor is in the text, at most one past the end of its line, after  *)
(* every key: editor_insert_char and editor_delete_char index the buffer   *)
(* with it unchecked.                                                      *)
CursorInText ==
    /\ ed.cursor_y < Len(ed.lines)
    /\ ed.cursor_x <= Len(Row(ed))

(* Whatever has been opened and typed, the text and its '\0' fit the       *)
(* content[] of editor_save_file, which is filled without a check.         *)
SaveFits ==
    Len(content(ed.lines)) < EDITOR_MAX_LINES * EDITOR_MAX_LINE_LENGTH

(* A text saved and opened again is the same text, but for an empty last   *)
(* line, which editor_open does not count.                                 *)
SavedTextOpens ==
    editor_open(content(ed.lines)) =
        IF Len(ed.lines) > 1 /\ Last(ed.lines) = << >>
        THEN Front(ed.lines) ELSE ed.lines

(* Backspace takes back what was just typed, a split line included: text   *)
(* and cursor are as before, and such a join never runs over its row.      *)
BackspaceUndoes ==
    \A c \in Char \cup {NL} :
        LET typed  == editor_insert_char(ed, c)
            undone == editor_delete_char(typed)
        IN  In("INSERT") /\ typed # ed =>
              /\ undone.lines = ed.lines
              /\ undone.cursor_x = ed.cursor_x
              /\ undone.cursor_y = ed.cursor_y
              /\ ~undone.overrun

(* view_start_line follows the cursor only in editor_move_cursor: wherever *)
(* Enter, o, d or a join has left the cursor, any move key brings its line *)
(* back on the screen and the cursor behind the cursor_x characters before *)
(* it; but behind the last character of a full line that is the first      *)
(* column of the row below, which shows another line or the status.        *)
MoveShowsCursor ==
    \A d \in {<<-1, 0>>, <<1, 0>>, <<0, -1>>, <<0, 1>>} :
        \A e \in {editor_move_cursor(ed, d[1], d[2])} :
            In("NORMAL") \/ In("INSERT") =>
                \E y \in 0..(VIEW_LINES - 1) :
                    /\ editor_draw(e).text[y + 1] = Row(e)
                    /\ \/ /\ TEXT_COLUMN + e.cursor_x < VGA_WIDTH
                          /\ editor_draw(e).cursor = {<<y, TEXT_COLUMN + e.cursor_x>>}
                       \/ /\ e.cursor_x = Len(Row(e))
                          /\ Len(Row(e)) = EDITOR_MAX_LINE_LENGTH - 1
                          /\ editor_draw(e).cursor = {<<y + 1, 0>>}

(* The editor exits with changes that are not in the file only on q!: no   *)
(* way of editing leaves modified clear, and no save clears it without     *)
(* storing the text.                                                       *)
QuitKeepsWork ==
    [][ ed.mode # "EXIT" /\ ed'.mode = "EXIT" /\ ed.command # <<"q", "!">>
        => stored' = ed.lines ]_vars

-------------------------------------------------------------------------------
(* What the tests and the documentation promise and the code does not      *)
(* keep.  TLC refutes each of these, with the .cfg of its name.            *)

(* "Type 'wq' and press Enter to save and quit": wq leaves the editor when *)
(* the file took the text.                                                 *)
SaveAndQuit ==
    In("COMMAND") /\ ed.command = <<"w", "q">>
        => editor_process_command(ed, TRUE).mode = "EXIT"

(* "The editor shows line numbers on the left": some line is shown.        *)
LineShown == ed.mode # "EXIT" => editor_draw(ed).text # << >>

(* "Editor buffer reduced to 50 lines x 76 chars": a line never needs more *)
(* than its row.                                                           *)
RowsHold == ~ed.overrun

===============================================================================
