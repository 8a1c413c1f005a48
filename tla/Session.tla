-------------------------------- MODULE Session --------------------------------
(***************************************************************************)
(* The shell, the editor and the file system together: what is typed in    *)
(* the editor, saved, changed by commands and opened again.                *)
(*                                                                         *)
(* Sh and Ed are the modules Shell and Editor.  Here the editor opens what *)
(* fs_read_file finds and its save is answered by the file system, where   *)
(* Editor alone takes any file and any answer, and Shell alone saves any   *)
(* text.  The keys that only edit are those of Editor.                     *)
(***************************************************************************)
EXTENDS Integers, SequencesExt

CONSTANTS
    Name, Char, NL, Truncate(_), NODE_SIZE, POOL_SIZE, SIZE_RANGE,
    MAX_FILE_SIZE, MAX_FILES_PER_DIR, MAX_TOTAL_FILES, MAX_DEPTH, MAX_PATH_LENGTH,
    SegmentLength(_), TEXT_COLUMN, VGA_WIDTH,
    EDITOR_MAX_LINES, EDITOR_MAX_LINE_LENGTH, VIEW_LINES, CommandChar, MAX_COMMAND,
    Arg,            \* operands of the commands and of edit
    Text,           \* what write writes
    UNTITLED        \* "untitled.txt"

VARIABLES
    fs,             \* the file system
    ed,             \* the editor
    filename        \* the editor's file name

vars == <<fs, ed, filename>>

(* What a text can be when it reaches the file system, or comes from it. *)
Content == BoundedSeq(Char \cup {NL}, MAX_FILE_SIZE - 1)

(* What can be the editor's file name. *)
File == Arg \cup {<<UNTITLED>>}

Sh == INSTANCE Shell WITH Char <- Char \cup {NL}, Arg <- File, Text <- Content

(* The history variable of Editor is not kept: the file system is here. *)
Ed == INSTANCE Editor WITH Files <- Content, stored <- << >>

ASSUME SizesAssumption ==
    /\ NODE_SIZE \in Nat \ {0}
    /\ MAX_FILE_SIZE \in Nat \ {0}
    /\ POOL_SIZE \in Nat
    /\ NODE_SIZE < POOL_SIZE
    /\ MAX_FILES_PER_DIR \in Nat
    /\ MAX_TOTAL_FILES \in Nat \ {0}
    /\ SIZE_RANGE \in Nat
    /\ MAX_TOTAL_FILES < SIZE_RANGE
    /\ MAX_DEPTH \in Nat
    /\ MAX_PATH_LENGTH \in Nat
    /\ EDITOR_MAX_LINES \in Nat /\ EDITOR_MAX_LINES > 1
    /\ EDITOR_MAX_LINE_LENGTH \in Nat /\ EDITOR_MAX_LINE_LENGTH > 1
    /\ VIEW_LINES \in Nat \ {0}
    /\ MAX_COMMAND \in Nat
    /\ TEXT_COLUMN \in Nat /\ VGA_WIDTH \in Nat
    /\ TEXT_COLUMN + EDITOR_MAX_LINE_LENGTH - 1 <= VGA_WIDTH

(* The editor's text fits a file: 50 rows of 76 bytes, and 4096. *)
ASSUME FitAssumption == EDITOR_MAX_LINES * EDITOR_MAX_LINE_LENGTH <= MAX_FILE_SIZE

ASSUME CharAssumption == NL \notin Char /\ Sh!NUL \notin Char \cup {NL}

(* A name keeps 62 characters of an operand's 63: the segments are as many *)
(* as before, unless the last was the end of a trailing slash.             *)
ASSUME NamesAssumption ==
    /\ Name \cap {Sh!EMPTY, ".", ".."} = {}
    /\ Truncate(<<Sh!EMPTY, Sh!EMPTY>>) \in Sh!String
    /\ \A a \in File : /\ a \in Sh!String /\ a # << >>
                       /\ Truncate(a) \in Sh!String /\ Truncate(a) # <<Sh!EMPTY>>
                       /\ \/ Len(Truncate(a)) = Len(a)
                          \/ a = Append(Truncate(a), Sh!EMPTY)
                       /\ Truncate(<<Last(a)>>) \in Sh!String

(* Every operand fits the copy fs_resolve_path makes of it. *)
ASSUME PathAssumption ==
    /\ \A seg \in Sh!Segment : SegmentLength(seg) \in Nat
    /\ \A a \in File : Sh!strlen(a) < MAX_PATH_LENGTH - 1

ASSUME TextAssumption == Text \subseteq Content

-------------------------------------------------------------------------------
(* editor_open reads a path that leads to a regular file with a buffer. *)
FileText(s, path) ==
    LET node == Sh!fs_resolve_path(s, path)
    IN  IF Sh!HasData(s, node) THEN Sh!fs_read_file(s, node) ELSE << >>

(* Both halves of editor_save_file: the text goes to the file system, and  *)
(* modified is cleared when fs_write_file returned 0.                      *)
editor_save_file(s, e) ==
    LET r == Sh!editor_save_file(s, filename, Ed!content(e.lines))
    IN  [fs |-> r.fs, ed |-> [e EXCEPT !.modified = @ /\ ~r.ok]]

(* w, q, q! and wq; then the command line is cleared. *)
editor_process_command(s, e) ==
    LET saved   == editor_save_file(s, e)
        Exit(x) == [x EXCEPT !.mode = "EXIT"]
        done == CASE e.command = <<"w">> -> saved
                  [] e.command = <<"q">> /\ ~e.modified -> [fs |-> s, ed |-> Exit(e)]
                  [] e.command = <<"q", "!">> -> [fs |-> s, ed |-> Exit(e)]
                  [] e.command = <<"w", "q">> ->
                       [saved EXCEPT !.ed = IF @.modified THEN @ ELSE Exit(@)]
                  [] OTHER -> [fs |-> s, ed |-> e]
    IN  [done EXCEPT !.ed.command = << >>]

-------------------------------------------------------------------------------
(* No editor: current_editor is NULL, and run_editor sets every field      *)
(* before any is read.                                                     *)
NoEditor == [Ed!run_editor(<< >>) EXCEPT !.mode = "EXIT"]

Init == Sh!Init /\ ed = NoEditor /\ filename = <<UNTITLED>>

(* A command on files, while the editor is off: the shell has the keyboard *)
(* then.  Directories are left to module Shell.                            *)
Command ==
    /\ ed.mode = "EXIT"
    /\ \/ \E a \in Arg : Sh!Touch(a) \/ Sh!Rm(a)
       \/ \E a, b \in Arg : Sh!Cp(a, b) \/ Sh!Mv(a, b)
       \/ \E a \in Arg, t \in Text : Sh!Write(a, t)
    /\ UNCHANGED <<ed, filename>>

(* edit and vi.  Without an operand the file is untitled.txt, and is not   *)
(* read even if it exists.                                                 *)
Edit(path, text) ==
    /\ ed.mode = "EXIT"
    /\ ed' = Ed!run_editor(text)
    /\ filename' = path
    /\ UNCHANGED fs

EditFile == \E path \in Arg : Edit(path, FileText(fs, path))

EditNothing == Edit(<<UNTITLED>>, << >>)

(* A key that does not leave the editor's own state. *)
Key == Ed!Key /\ UNCHANGED <<fs, filename>>

(* Enter in COMMAND mode. *)
RunCommand ==
    /\ Ed!In("COMMAND")
    /\ \E r \in {editor_process_command(fs, ed)} :
         /\ fs' = r.fs
         /\ ed' = IF r.ed.mode = "EXIT" THEN NoEditor
                  ELSE [r.ed EXCEPT !.mode = "NORMAL"]
    /\ UNCHANGED filename

Next == Command \/ EditFile \/ EditNothing \/ Key \/ RunCommand

Spec == Init /\ [][Next]_vars

-------------------------------------------------------------------------------
(* Properties. *)

(* The type invariant: that of both parts, however they feed each other. *)
TypeOK ==
    /\ Sh!TypeOK
    /\ ed \in [lines : Ed!Texts, cursor_x : Nat, cursor_y : Nat,
               view_start_line : Nat, mode : Ed!Mode, modified : BOOLEAN,
               command : Seq(CommandChar), overrun : BOOLEAN]
    /\ filename \in File

(* The editor changes no file but its own: the file name leads to the same *)
(* file from the first save to the last, and all other nodes stay as they  *)
(* are, but for the new entry in the current directory.                    *)
OnlyItsFile ==
    [][ ed.mode = "COMMAND" =>
          /\ Sh!fs_resolve_path(fs, filename) \in
               {Sh!NULL, Sh!fs_resolve_path(fs', filename)}
          /\ \A n \in Sh!Nodes(fs) \ {Sh!fs_resolve_path(fs', filename)} :
               [fs'.heap[n] EXCEPT !.children = << >>] =
               [fs.heap[n] EXCEPT !.children = << >>] ]_vars

(* What was stored is what the file starts with: opening it again shows    *)
(* the stored lines, the last of them perhaps with something after it.     *)
ReopenShows ==
    [][ ed.mode = "COMMAND" /\ fs'.heap # fs.heap =>
          \A n \in {Sh!fs_resolve_path(fs', filename)} :
          Sh!HasData(fs', n) =>
            \A again \in {Ed!editor_open(Sh!fs_read_file(fs', n))} :
              LET last == Len(ed.lines)
              IN  /\ IsPrefix(Front(ed.lines), again) \/ ed.lines = << << >> >>
                  /\ Last(ed.lines) # << >> =>
                       Len(again) >= last /\ IsPrefix(Last(ed.lines), again[last]) ]_vars

(* q leaves the editor only with a text that is in the file, whatever was  *)
(* typed, saved and erased since it was opened: opening the file again     *)
(* shows it, or the file starts with it.                                   *)
QuitKeepsFile ==
    [][ ed.mode = "COMMAND" /\ ed.command = <<"q">> /\ ed'.mode = "EXIT" =>
          \A text \in {FileText(fs', filename)} :
            \/ Ed!editor_open(text) = ed.lines
            \/ IsPrefix(Ed!content(ed.lines), text) ]_vars

-------------------------------------------------------------------------------
(* "After exiting the editor: cat test.txt  # View the saved file": when   *)
(* wq has left the editor, the file reads as the text.                     *)
SavedFileIsRead ==
    Ed!In("COMMAND") /\ ed.command = <<"w", "q">> =>
        \A r \in {editor_process_command(fs, ed)} :
            r.ed.mode = "EXIT" => FileText(r.fs, filename) = Ed!content(ed.lines)

===============================================================================
