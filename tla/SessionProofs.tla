----------------------------- MODULE SessionProofs -----------------------------
(***************************************************************************)
(* Proofs about Session, from what ShellProofs and EditorProofs prove of   *)
(* the file system and of the editor.                                      *)
(*                                                                         *)
(* ShP and EdP are those modules with Session's values.  Their operators   *)
(* are shown to be those of Sh and Ed one by one, and their assumptions to *)
(* follow from Session's.                                                  *)
(*                                                                         *)
(* The inductive invariant joins those of the two parts and adds Faithful: *)
(* a text that is not marked modified is in its file.                      *)
(***************************************************************************)
EXTENDS Session, Loops

ShP == INSTANCE ShellProofs WITH Char <- Char \cup {NL}, Arg <- File, Text <- Content

EdP == INSTANCE EditorProofs WITH Files <- Content, stored <- << >>

(* The texts that fit a file. *)
LEMMA ContentSeq ==
    ASSUME NEW t
    PROVE t \in Content <=> t \in Seq(Char \cup {NL}) /\ Len(t) < MAX_FILE_SIZE
<1>1. MAX_FILE_SIZE \in Nat \ {0}
  BY SizesAssumption
<1> QED BY <1>1 DEF Content, BoundedSeq, SeqOf

(* What EditorProofs assumes. *)
LEMMA EditorAssumptions ==
    /\ NL \notin Char
    /\ EDITOR_MAX_LINES \in Nat /\ EDITOR_MAX_LINES > 1
    /\ EDITOR_MAX_LINE_LENGTH \in Nat /\ EDITOR_MAX_LINE_LENGTH > 1
    /\ VIEW_LINES \in Nat \ {0}
    /\ MAX_COMMAND \in Nat
    /\ TEXT_COLUMN \in Nat /\ VGA_WIDTH \in Nat
    /\ TEXT_COLUMN + EDITOR_MAX_LINE_LENGTH - 1 <= VGA_WIDTH
    /\ Content \subseteq Seq(Char \cup {NL})
BY SizesAssumption, CharAssumption, ContentSeq

(* What ShellProofs assumes. *)
LEMMA FileAssumptions ==
    /\ \A a \in File : Truncate(a) # <<ShP!EMPTY>>
    /\ \A a \in File : /\ a \in ShP!String /\ a # << >>
                       /\ Truncate(a) \in ShP!String
    /\ \A a \in File : Truncate(<<ShP!Last(a)>>) \in ShP!String
    /\ Truncate(<<ShP!EMPTY, ShP!EMPTY>>) \in ShP!String
    /\ \A t \in Content : t \in Seq(Char \cup {NL}) /\ Len(t) < MAX_FILE_SIZE
    /\ ShP!NUL \notin Char \cup {NL}
    /\ Name \cap {ShP!EMPTY, ".", ".."} = {}
    /\ NODE_SIZE \in Nat \ {0}
    /\ MAX_FILE_SIZE \in Nat \ {0}
    /\ POOL_SIZE \in Nat
    /\ NODE_SIZE < POOL_SIZE
    /\ MAX_FILES_PER_DIR \in Nat
    /\ MAX_TOTAL_FILES \in Nat \ {0}
    /\ SIZE_RANGE \in Nat
    /\ MAX_TOTAL_FILES < SIZE_RANGE
    /\ MAX_DEPTH \in Nat
    /\ MAX_PATH_LENGTH \in Nat
    /\ \A seg \in ShP!Segment : SegmentLength(seg) \in Nat
    /\ \A a \in File : ShP!strlen(a) < MAX_PATH_LENGTH - 1
<1>1. \A a : ShP!Last(a) = Last(a)
  BY DEF ShP!Last, Last
<1>2. /\ ShP!EMPTY = Sh!EMPTY /\ ShP!String = Sh!String /\ ShP!NUL = Sh!NUL
      /\ ShP!Segment = Sh!Segment
  BY DEF ShP!EMPTY, Sh!EMPTY, ShP!String, Sh!String, ShP!Segment, Sh!Segment, ShP!NUL, Sh!NUL
<1>3. \A t \in Content : t \in Seq(Char \cup {NL}) /\ Len(t) < MAX_FILE_SIZE
  BY ContentSeq
<1>4. \A a : ShP!strlen(a) = Sh!strlen(a)
  BY Zenon DEF ShP!strlen, Sh!strlen, ShP!SumFunction, Sh!SumFunction,
     ShP!SumFunctionOnSet, Sh!SumFunctionOnSet, ShP!FoldFunctionOnSet, Sh!FoldFunctionOnSet,
     ShP!MapThenFoldSet, Sh!MapThenFoldSet
<1> QED BY <1>1, <1>2, <1>3, <1>4, SizesAssumption, CharAssumption, NamesAssumption,
           PathAssumption

-------------------------------------------------------------------------------
(* The operators of Shell and of ShellProofs are the same, and so are      *)
(* those of Editor and of EditorProofs.                                    *)

(* Null, the root, types and results. *)
LEMMA SameNames ==
    /\ Sh!NULL = ShP!NULL /\ Sh!ROOT = ShP!ROOT /\ Sh!NODATA = ShP!NODATA
    /\ Sh!REGULAR = ShP!REGULAR /\ Sh!DIRECTORY = ShP!DIRECTORY
    /\ Sh!NUL = ShP!NUL /\ Sh!EMPTY = ShP!EMPTY
    /\ \A s, r : Sh!Result(s, r) = ShP!Result(s, r)
    /\ \A s, r : Sh!Outcome(s, r) = ShP!Outcome(s, r)
    /\ \A s : Sh!Nodes(s) = ShP!Nodes(s)
BY Zenon DEF Sh!NULL, ShP!NULL, Sh!ROOT, ShP!ROOT, Sh!NODATA, ShP!NODATA, Sh!REGULAR, ShP!REGULAR,
   Sh!DIRECTORY, ShP!DIRECTORY, Sh!NUL, ShP!NUL, Sh!EMPTY, ShP!EMPTY, Sh!Result, ShP!Result,
   Sh!Outcome, ShP!Outcome, Sh!Nodes, ShP!Nodes

(* Directories, files with a buffer, and entries by name. *)
LEMMA SameFind ==
    /\ \A s, n : Sh!IsDirectory(s, n) <=> ShP!IsDirectory(s, n)
    /\ \A s, n : Sh!HasData(s, n) <=> ShP!HasData(s, n)
    /\ \A s, d, n : Sh!Matches(s, d, n) = ShP!Matches(s, d, n)
    /\ \A s, d, n : Sh!fs_find_child(s, d, n) = ShP!fs_find_child(s, d, n)
<1>1. \A s, n : Sh!IsDirectory(s, n) <=> ShP!IsDirectory(s, n)
  BY SameNames DEF Sh!IsDirectory, ShP!IsDirectory
<1>2. \A s, n : Sh!HasData(s, n) <=> ShP!HasData(s, n)
  BY SameNames DEF Sh!HasData, ShP!HasData
<1>3. \A s, d, n : Sh!Matches(s, d, n) = ShP!Matches(s, d, n)
  BY Zenon DEF Sh!Matches, ShP!Matches
<1>4. \A S : Sh!Min(S) = ShP!Min(S)
  BY Zenon DEF Sh!Min, ShP!Min
<1>5. \A s, d, n : Sh!fs_find_child(s, d, n) = ShP!fs_find_child(s, d, n)
  BY <1>1, <1>3, <1>4, SameNames DEF Sh!fs_find_child, ShP!fs_find_child
<1> QED BY <1>1, <1>2, <1>3, <1>5

(* Paths. *)
LEMMA SamePaths ==
    /\ \A p : Sh!IsAbsolute(p) <=> ShP!IsAbsolute(p)
    /\ \A p : Sh!Tokens(p) = ShP!Tokens(p)
    /\ \A s, b, p : Sh!Walk(s, b, p) = ShP!Walk(s, b, p)
    /\ \A s, p : Sh!fs_resolve_path(s, p) = ShP!fs_resolve_path(s, p)
    /\ \A p : Sh!fs_get_parent_path(p) = ShP!fs_get_parent_path(p)
    /\ \A p : Sh!fs_get_filename(p) = ShP!fs_get_filename(p)
<1>1. \A p : Sh!Last(p) = ShP!Last(p) /\ Sh!Front(p) = ShP!Front(p)
  BY Zenon DEF Sh!Last, ShP!Last, Sh!Front, ShP!Front
<1>2. \A p : Sh!IsAbsolute(p) <=> ShP!IsAbsolute(p)
  BY SameNames DEF Sh!IsAbsolute, ShP!IsAbsolute
<1>3. \A p : Sh!Tokens(p) = ShP!Tokens(p)
  BY <1>1, <1>2, SameNames DEF Sh!Tokens, ShP!Tokens
<1>4. \A s, b, p : Sh!Walk(s, b, p) = ShP!Walk(s, b, p)
  BY Zenon DEF Sh!Walk, ShP!Walk, Sh!ResolveToken, ShP!ResolveToken, Sh!fs_find_child, ShP!fs_find_child,
     Sh!IsDirectory, ShP!IsDirectory, Sh!Matches, ShP!Matches, Sh!NULL, ShP!NULL, Sh!DIRECTORY, ShP!DIRECTORY,
     Sh!Min, ShP!Min
<1>5. \A s, p : Sh!fs_resolve_path(s, p) = ShP!fs_resolve_path(s, p)
  BY <1>2, <1>3, <1>4, SameNames DEF Sh!fs_resolve_path, ShP!fs_resolve_path
<1>6. \A p : Sh!fs_get_parent_path(p) = ShP!fs_get_parent_path(p)
  BY <1>1, SameNames DEF Sh!fs_get_parent_path, ShP!fs_get_parent_path
<1>7. \A p : Sh!fs_get_filename(p) = ShP!fs_get_filename(p)
  BY <1>1 DEF Sh!fs_get_filename, ShP!fs_get_filename
<1> QED BY <1>2, <1>3, <1>4, <1>5, <1>6, <1>7

(* The operations on nodes. *)
LEMMA SameNodes ==
    /\ \A s, x : Sh!kmalloc(s, x) = ShP!kmalloc(s, x)
    /\ \A s, n, y : Sh!fs_create_file(s, n, y) = ShP!fs_create_file(s, n, y)
    /\ \A s, d, c : Sh!fs_add_child(s, d, c) = ShP!fs_add_child(s, d, c)
    /\ \A s, d, n : Sh!fs_remove_child(s, d, n) = ShP!fs_remove_child(s, d, n)
    /\ \A s, n, t : Sh!fs_write_file(s, n, t) = ShP!fs_write_file(s, n, t)
    /\ \A s, n : Sh!fs_read_file(s, n) = ShP!fs_read_file(s, n)
    /\ \A s, n : Sh!fs_delete_node(s, n) = ShP!fs_delete_node(s, n)
<1>0. \A S : Sh!Min(S) = ShP!Min(S)
  BY Zenon DEF Sh!Min, ShP!Min
<1>1. \A s, x : Sh!kmalloc(s, x) = ShP!kmalloc(s, x)
  BY SameNames DEF Sh!kmalloc, ShP!kmalloc
<1>2. \A s, n, y : Sh!fs_create_file(s, n, y) = ShP!fs_create_file(s, n, y)
  BY Zenon DEF Sh!fs_create_file, ShP!fs_create_file, Sh!kmalloc, ShP!kmalloc, Sh!Result, ShP!Result,
     Sh!NUL, ShP!NUL, Sh!NULL, ShP!NULL, Sh!REGULAR, ShP!REGULAR, Sh!NODATA, ShP!NODATA
<1>3. \A s, d, c : Sh!fs_add_child(s, d, c) = ShP!fs_add_child(s, d, c)
  BY SameNames, SameFind DEF Sh!fs_add_child, ShP!fs_add_child
<1>4. \A s, d, n : Sh!fs_remove_child(s, d, n) = ShP!fs_remove_child(s, d, n)
  <2>1. \A e, i : Sh!ShiftOut(e, i) = ShP!ShiftOut(e, i)
    BY Zenon DEF Sh!ShiftOut, ShP!ShiftOut
  <2> QED BY <1>0, <2>1, SameNames, SameFind DEF Sh!fs_remove_child, ShP!fs_remove_child
<1>5. \A s, n, t : Sh!fs_write_file(s, n, t) = ShP!fs_write_file(s, n, t)
  BY Zenon DEF Sh!fs_write_file, ShP!fs_write_file, Sh!Min, ShP!Min, Sh!HasData, ShP!HasData,
     Sh!NULL, ShP!NULL, Sh!REGULAR, ShP!REGULAR, Sh!NODATA, ShP!NODATA, Sh!Result, ShP!Result
<1>6. \A s, n : Sh!fs_read_file(s, n) = ShP!fs_read_file(s, n)
  BY Zenon DEF Sh!fs_read_file, ShP!fs_read_file, Sh!Min, ShP!Min, Sh!NUL, ShP!NUL
<1>7. \A s, n : Sh!fs_delete_node(s, n) = ShP!fs_delete_node(s, n)
  BY <1>4, SameNames, SameFind DEF Sh!fs_delete_node, ShP!fs_delete_node
<1> QED BY <1>1, <1>2, <1>3, <1>4, <1>5, <1>6, <1>7

(* Copying and moving. *)
LEMMA SameCopy ==
    /\ \A s, p, q : Sh!fs_copy_file(s, p, q) = ShP!fs_copy_file(s, p, q)
    /\ \A s, p, q : Sh!fs_move_file(s, p, q) = ShP!fs_move_file(s, p, q)
<1>1. \A s, p, q : Sh!fs_copy_file(s, p, q) = ShP!fs_copy_file(s, p, q)
  BY SameNames, SameFind, SamePaths, SameNodes DEF Sh!fs_copy_file, ShP!fs_copy_file
<1>2. \A s, p, q : Sh!fs_move_file(s, p, q) = ShP!fs_move_file(s, p, q)
  BY <1>1, SameNames, SamePaths, SameNodes DEF Sh!fs_move_file, ShP!fs_move_file
<1> QED BY <1>1, <1>2

(* The commands on files, and the save. *)
LEMMA SameCommands ==
    /\ \A s, a : Sh!cmd_touch(s, a) = ShP!cmd_touch(s, a)
    /\ \A s, a : Sh!cmd_rm(s, a) = ShP!cmd_rm(s, a)
    /\ \A s, a, b : Sh!cmd_cp(s, a, b) = ShP!cmd_cp(s, a, b)
    /\ \A s, a, b : Sh!cmd_mv(s, a, b) = ShP!cmd_mv(s, a, b)
    /\ \A s, a, t : Sh!cmd_write(s, a, t) = ShP!cmd_write(s, a, t)
    /\ \A s, a, t : Sh!editor_save_file(s, a, t) = ShP!editor_save_file(s, a, t)
<1>1. ASSUME NEW s, NEW a, NEW y
      PROVE  Sh!create_here(s, a, y) = ShP!create_here(s, a, y)
  <2> DEFINE node == Sh!fs_create_file(s, a, y)
             added == Sh!fs_add_child(node.fs, s.current_dir, node.ret)
  <2>1. node = ShP!fs_create_file(s, a, y)
    BY SameNodes, Zenon
  <2>2. added = ShP!fs_add_child(node.fs, s.current_dir, node.ret)
    BY SameNodes, Zenon
  <2>3. Sh!NULL = ShP!NULL
    BY SameNames, Zenon
  <2>4. /\ Sh!create_here(s, a, y) = IF node.ret = Sh!NULL THEN Sh!Outcome(node.fs, FALSE)
                                     ELSE Sh!Outcome(added.fs, added.ret = 0)
        /\ ShP!create_here(s, a, y) = IF node.ret = ShP!NULL THEN ShP!Outcome(node.fs, FALSE)
                                      ELSE ShP!Outcome(added.fs, added.ret = 0)
    BY <2>1, <2>2, Zenon DEF Sh!create_here, ShP!create_here
  <2> HIDE DEF node, added
  <2>5. Sh!Outcome(node.fs, FALSE) = ShP!Outcome(node.fs, FALSE)
    BY Zenon DEF Sh!Outcome, ShP!Outcome
  <2>6. Sh!Outcome(added.fs, added.ret = 0) = ShP!Outcome(added.fs, added.ret = 0)
    BY Zenon DEF Sh!Outcome, ShP!Outcome
  <2>7. CASE node.ret = Sh!NULL
    BY <2>3, <2>4, <2>5, <2>7, Zenon
  <2>8. CASE node.ret # Sh!NULL
    BY <2>3, <2>4, <2>6, <2>8, Zenon
  <2> QED BY <2>7, <2>8
<1>2. \A s, a : Sh!cmd_touch(s, a) = ShP!cmd_touch(s, a)
  BY <1>1, SameNames, SameFind DEF Sh!cmd_touch, ShP!cmd_touch
<1>3. \A s, n : Sh!unlink(s, n) = ShP!unlink(s, n)
  BY SameNodes DEF Sh!unlink, ShP!unlink
<1>4. \A s, a : Sh!cmd_rm(s, a) = ShP!cmd_rm(s, a)
  BY <1>3, SameNames, SameFind, SamePaths DEF Sh!cmd_rm, ShP!cmd_rm
<1>5. \A s, a, b : Sh!cmd_cp(s, a, b) = ShP!cmd_cp(s, a, b)
  BY SameCopy, SameNames DEF Sh!cmd_cp, ShP!cmd_cp
<1>6. \A s, a, b : Sh!cmd_mv(s, a, b) = ShP!cmd_mv(s, a, b)
  BY SameCopy, SameNames DEF Sh!cmd_mv, ShP!cmd_mv
<1>7. ASSUME NEW s, NEW a, NEW t
      PROVE  Sh!cmd_write(s, a, t) = ShP!cmd_write(s, a, t)
  <2> DEFINE found == Sh!fs_resolve_path(s, a)
             node  == Sh!fs_create_file(s, a, Sh!REGULAR)
             added == Sh!fs_add_child(node.fs, s.current_dir, node.ret)
  <2>1. /\ ShP!fs_resolve_path(s, a) = found
        /\ ShP!fs_create_file(s, a, ShP!REGULAR) = node
        /\ ShP!fs_add_child(node.fs, s.current_dir, node.ret) = added
        /\ Sh!fs_delete_node(added.fs, node.ret) = ShP!fs_delete_node(added.fs, node.ret)
        /\ Sh!fs_write_file(s, found, t) = ShP!fs_write_file(s, found, t)
        /\ Sh!fs_write_file(added.fs, node.ret, t) = ShP!fs_write_file(added.fs, node.ret, t)
    BY SameNames, SamePaths, SameNodes, Zenon
  <2> HIDE DEF found, node, added
  <2> QED BY <2>1, SameNames, SameFind, Zenon DEF Sh!cmd_write, ShP!cmd_write, found, node, added
<1>8. \A s, a, t : Sh!editor_save_file(s, a, t) = ShP!editor_save_file(s, a, t)
  BY SameNames, SamePaths, SameNodes DEF Sh!editor_save_file, ShP!editor_save_file
<1> QED BY <1>2, <1>4, <1>5, <1>6, <1>7, <1>8

(* Lines, texts and how the editor's state is written down. *)
LEMMA SameTexts ==
    /\ Ed!Line = EdP!Line /\ Ed!Texts = EdP!Texts /\ Ed!Mode = EdP!Mode
    /\ \A e : Ed!Row(e) = EdP!Row(e)
    /\ \A e, l : Ed!SetRow(e, l) = EdP!SetRow(e, l)
    /\ \A s, i, x : Ed!Splice(s, i, x) = EdP!Splice(s, i, x)
    /\ \A s : Ed!Front(s) = EdP!Front(s)
    /\ \A s, i : Ed!RemoveAt(s, i) = EdP!RemoveAt(s, i)
    /\ \A m : Ed!In(m) <=> EdP!In(m)
    /\ \A e : Ed!Becomes(e) <=> EdP!Becomes(e)
<1>1. Ed!Line = EdP!Line
  BY Zenon DEF Ed!Line, EdP!Line
<1>2. Ed!Texts = EdP!Texts
  BY <1>1, Zenon DEF Ed!Texts, EdP!Texts
<1> QED BY <1>1, <1>2, Zenon DEF Ed!Mode, EdP!Mode, Ed!Row, EdP!Row, Ed!SetRow, EdP!SetRow,
   Ed!Splice, EdP!Splice, Ed!Front, EdP!Front, Ed!RemoveAt, EdP!RemoveAt, Ed!In, EdP!In,
   Ed!Becomes, EdP!Becomes

(* What a file's text is read into, and what is saved. *)
LEMMA SameOpen ==
    /\ \A x : Ed!editor_open(x) = EdP!editor_open(x)
    /\ \A x : Ed!run_editor(x) = EdP!run_editor(x)
    /\ \A t : Ed!content(t) = EdP!content(t)
<1>1. \A p, c : Ed!ReadChar(p, c) = EdP!ReadChar(p, c)
  BY Zenon DEF Ed!ReadChar, EdP!ReadChar
<1>2. \A x : Ed!ReadRows(x) = EdP!ReadRows(x)
  BY Zenon DEF Ed!ReadRows, EdP!ReadRows, Ed!ReadChar, EdP!ReadChar
<1>3. \A x : Ed!editor_open(x) = EdP!editor_open(x)
  BY <1>2, Zenon DEF Ed!editor_open, EdP!editor_open
<1>4. \A x : Ed!run_editor(x) = EdP!run_editor(x)
  BY <1>3, Zenon DEF Ed!run_editor, EdP!run_editor
<1>5. \A t : Ed!content(t) = EdP!content(t)
  BY Zenon DEF Ed!content, EdP!content, Ed!FlattenSeq, EdP!FlattenSeq
<1> QED BY <1>3, <1>4, <1>5

(* The keys. *)
LEMMA SameKeys == Ed!Key <=> EdP!Key
<1>1. \A e, x, y : Ed!editor_move_cursor(e, x, y) = EdP!editor_move_cursor(e, x, y)
  BY Zenon DEF Ed!editor_move_cursor, EdP!editor_move_cursor
<1>2. \A e, c : Ed!editor_insert_char(e, c) = EdP!editor_insert_char(e, c)
  BY SameTexts, Zenon DEF Ed!editor_insert_char, EdP!editor_insert_char
<1>3. \A e : Ed!editor_delete_char(e) = EdP!editor_delete_char(e)
  BY SameTexts, Zenon DEF Ed!editor_delete_char, EdP!editor_delete_char
<1>4. \A e : Ed!open_below(e) = EdP!open_below(e)
  BY SameTexts, Zenon DEF Ed!open_below, EdP!open_below
<1>5. \A e : Ed!delete_under(e) = EdP!delete_under(e)
  BY SameTexts, Zenon DEF Ed!delete_under, EdP!delete_under
<1>6. \A e : Ed!delete_line(e) = EdP!delete_line(e)
  BY SameTexts, Zenon DEF Ed!delete_line, EdP!delete_line
<1>7. /\ Ed!Move <=> EdP!Move
      /\ Ed!InsertMode <=> EdP!InsertMode
      /\ Ed!AppendMode <=> EdP!AppendMode
  BY <1>1, SameTexts, Zenon DEF Ed!Move, EdP!Move, Ed!InsertMode, EdP!InsertMode, Ed!AppendMode, EdP!AppendMode
<1>8. /\ Ed!OpenBelow <=> EdP!OpenBelow
      /\ Ed!DeleteUnder <=> EdP!DeleteUnder
      /\ Ed!DeleteLine <=> EdP!DeleteLine
      /\ Ed!CommandMode <=> EdP!CommandMode
  BY <1>4, <1>5, <1>6, SameTexts, Zenon DEF Ed!OpenBelow, EdP!OpenBelow, Ed!DeleteUnder, EdP!DeleteUnder,
     Ed!DeleteLine, EdP!DeleteLine, Ed!CommandMode, EdP!CommandMode
<1>9. /\ Ed!LeaveInsert <=> EdP!LeaveInsert
      /\ Ed!Backspace <=> EdP!Backspace
      /\ \A c : Ed!Insert(c) <=> EdP!Insert(c)
  BY <1>2, <1>3, SameTexts, Zenon DEF Ed!LeaveInsert, EdP!LeaveInsert, Ed!Backspace, EdP!Backspace,
     Ed!Insert, EdP!Insert
<1>10. /\ Ed!LeaveCommand <=> EdP!LeaveCommand
       /\ Ed!EraseCommand <=> EdP!EraseCommand
       /\ \A c : Ed!TypeCommand(c) <=> EdP!TypeCommand(c)
  BY SameTexts, Zenon DEF Ed!LeaveCommand, EdP!LeaveCommand, Ed!EraseCommand, EdP!EraseCommand,
     Ed!TypeCommand, EdP!TypeCommand
<1> QED BY <1>7, <1>8, <1>9, <1>10, Zenon DEF Ed!Key, EdP!Key

(* The types and the first state. *)
LEMMA SameStart ==
    /\ Sh!TypeOK <=> ShP!WellTyped(fs)
    /\ Sh!fs_init = ShP!fs_init
<1>1. Sh!String = ShP!String
  BY SameNames, Zenon DEF Sh!String, ShP!String, Sh!Segment, ShP!Segment
<1>2. Sh!Buffer = ShP!Buffer
  BY SameNames, Zenon DEF Sh!Buffer, ShP!Buffer
<1>3. Sh!fs_node_t = ShP!fs_node_t
  BY <1>1, <1>2, SameNames, Zenon DEF Sh!fs_node_t, ShP!fs_node_t
<1>4. Sh!filesystem_t = ShP!filesystem_t
  BY <1>1, <1>3, Zenon DEF Sh!filesystem_t, ShP!filesystem_t
<1>5. Sh!TypeOK <=> ShP!WellTyped(fs)
  BY <1>4, SameNames, Zenon DEF Sh!TypeOK, Sh!WellTyped, ShP!WellTyped
<1>6. Sh!fs_init = ShP!fs_init
  BY Zenon DEF Sh!fs_init, ShP!fs_init, Sh!fs_create_file, ShP!fs_create_file, Sh!kmalloc, ShP!kmalloc,
     Sh!Result, ShP!Result, Sh!NUL, ShP!NUL, Sh!NULL, ShP!NULL, Sh!REGULAR, ShP!REGULAR,
     Sh!NODATA, ShP!NODATA, Sh!DIRECTORY, ShP!DIRECTORY, Sh!EMPTY, ShP!EMPTY, Sh!ROOT, ShP!ROOT
<1> QED BY <1>5, <1>6

(* Prefixes. *)
LEMMA SamePrefix ==
    /\ \A x, y : ShP!IsPrefix(x, y) <=> IsPrefix(x, y)
    /\ \A x, y : EdP!IsPrefix(x, y) <=> IsPrefix(x, y)
    /\ \A x : EdP!Front(x) = Front(x) /\ EdP!Last(x) = Last(x)
BY Zenon DEF IsPrefix, ShP!IsPrefix, EdP!IsPrefix, EdP!Front, Front, EdP!Last, Last

-------------------------------------------------------------------------------
(* What passes between the editor and the file system.                     *)

(* The editor's text fits a file. *)
LEMMA TextFits ==
    ASSUME NEW t \in EdP!Texts
    PROVE  EdP!content(t) \in Content
<1> DEFINE c == EdP!content(t)
<1>1. c \in Seq(Char \cup {NL})
  BY EditorAssumptions, EdP!ContentText
<1>2. Len(c) < EDITOR_MAX_LINES * EDITOR_MAX_LINE_LENGTH
  BY EditorAssumptions, EdP!ContentFits
<1>3. EDITOR_MAX_LINES * EDITOR_MAX_LINE_LENGTH <= MAX_FILE_SIZE
  BY FitAssumption
<1> HIDE DEF c
<1> DEFINE k == EDITOR_MAX_LINES * EDITOR_MAX_LINE_LENGTH
<1>4. k \in Nat /\ MAX_FILE_SIZE \in Nat /\ Len(c) \in Nat
  BY <1>1, SizesAssumption
<1>5. Len(c) < k /\ k <= MAX_FILE_SIZE
  BY <1>2, <1>3
<1> HIDE DEF k
<1>6. Len(c) < MAX_FILE_SIZE
  BY <1>4, <1>5
<1>7. c \in Content
  BY <1>1, <1>6, ContentSeq
<1> QED BY <1>7 DEF c

(* A path leads to a node or nowhere, and what the editor reads from there *)
(* is a text that a file can hold.                                         *)
LEMMA FileTextIn ==
    ASSUME NEW s, ShP!Sound(s), NEW a \in File
    PROVE  FileText(s, a) \in Content
<1> DEFINE n == ShP!fs_resolve_path(s, a)
<1>1. ShP!Good(s) /\ ShP!Ended(s)
  BY DEF ShP!Sound, ShP!Filed
<1>2. FileText(s, a) = IF ShP!HasData(s, n) THEN ShP!fs_read_file(s, n) ELSE << >>
  BY SameFind, SamePaths, SameNodes, Zenon DEF FileText
<1>3. a \in ShP!String /\ a # << >>
  BY FileAssumptions
<1>4. n \in ShP!Attached(s) \cup {ShP!NULL}
  BY <1>1, <1>3, FileAssumptions, ShP!ResolveAttached
<1> HIDE DEF n
<1>5. CASE ShP!HasData(s, n)
  <2>1. n \in ShP!Nodes(s)
    BY <1>4, <1>5 DEF ShP!HasData, ShP!Attached
  <2>2. ShP!Storable(ShP!fs_read_file(s, n))
    BY <1>1, <1>5, <2>1, FileAssumptions, ShP!ReadText
  <2> QED BY <1>2, <1>5, <2>2, ContentSeq DEF ShP!Storable
<1>6. CASE ~ShP!HasData(s, n)
  <2>1. << >> \in Seq(Char \cup {NL}) /\ Len(<< >>) < MAX_FILE_SIZE
    BY SizesAssumption
  <2> QED BY <1>2, <1>6, <2>1, ContentSeq
<1> QED BY <1>5, <1>6

(* The commands that are typed while the editor is off are commands of     *)
(* Shell.                                                                  *)
LEMMA CommandSound ==
    ASSUME ShP!Sound(fs), Command
    PROVE  ShP!Sound(fs')
<1>1. ShP!Command
  <2>1. Arg \subseteq File /\ Text \subseteq Content
    BY TextAssumption DEF File
  <2>2. ASSUME NEW a \in Arg, Sh!Touch(a) \/ Sh!Rm(a) PROVE ShP!Command
    <3>1. ShP!Touch(a) \/ ShP!Rm(a)
      BY <2>2, SameCommands, Zenon DEF Sh!Touch, ShP!Touch, Sh!Rm, ShP!Rm
    <3> QED BY <2>1, <3>1, Zenon DEF ShP!Command
  <2>3. ASSUME NEW a \in Arg, NEW b \in Arg, Sh!Cp(a, b) \/ Sh!Mv(a, b) PROVE ShP!Command
    <3>1. ShP!Cp(a, b) \/ ShP!Mv(a, b)
      BY <2>3, SameCommands, Zenon DEF Sh!Cp, ShP!Cp, Sh!Mv, ShP!Mv
    <3> QED BY <2>1, <3>1, Zenon DEF ShP!Command
  <2>4. ASSUME NEW a \in Arg, NEW t \in Text, Sh!Write(a, t) PROVE ShP!Command
    <3>1. ShP!Write(a, t)
      BY <2>4, SameCommands, Zenon DEF Sh!Write, ShP!Write
    <3> QED BY <2>1, <3>1, Zenon DEF ShP!Command
  <2> QED BY <2>2, <2>3, <2>4, Zenon DEF Command
<1> QED BY <1>1, FileAssumptions, ShP!CommandSound

(* An editor that has opened a text is in order. *)
LEMMA OpenedOK ==
    ASSUME NEW text \in Content
    PROVE  EdP!EdOK(Ed!run_editor(text))
BY EditorAssumptions, EdP!StartOK, SameOpen

(* So is the record that stands for none. *)
LEMMA NoEditorOK == EdP!EdOK(NoEditor) /\ NoEditor.mode = "EXIT"
<1> DEFINE e == Ed!run_editor(<< >>)
<1>1. << >> \in Content
  <2>1. << >> \in Seq(Char \cup {NL}) /\ Len(<< >>) < MAX_FILE_SIZE
    BY SizesAssumption
  <2> QED BY <2>1, ContentSeq
<1>2. EdP!EdOK(e)
  BY <1>1, OpenedOK
<1> HIDE DEF e
<1>3. /\ e.modified \in BOOLEAN /\ e.command \in Seq(CommandChar)
      /\ Len(e.command) <= MAX_COMMAND
  BY <1>2 DEF EdP!EdOK
<1>4. "EXIT" \in EdP!Mode
  BY DEF EdP!Mode
<1>5. EdP!EdOK([e EXCEPT !.modified = e.modified, !.mode = "EXIT", !.command = e.command])
  BY <1>2, <1>3, <1>4, EditorAssumptions, EdP!AfterCommand
<1>6. [e EXCEPT !.modified = e.modified, !.mode = "EXIT", !.command = e.command]
        = [e EXCEPT !.mode = "EXIT"]
  BY <1>2 DEF EdP!EdOK
<1>7. NoEditor = [e EXCEPT !.mode = "EXIT"]
  BY DEF NoEditor, e
<1> QED BY <1>2, <1>5, <1>6, <1>7 DEF EdP!EdOK

-------------------------------------------------------------------------------
(* The inductive invariant.                                                *)

(* An unmodified text is what opening its file shows, or what the file     *)
(* starts with.                                                            *)
Faithful ==
    ed.mode # "EXIT" /\ ~ed.modified =>
        \/ Ed!editor_open(FileText(fs, filename)) = ed.lines
        \/ IsPrefix(Ed!content(ed.lines), FileText(fs, filename))

Inv ==
    /\ ShP!Sound(fs)
    /\ EdP!EdOK(ed)
    /\ filename \in File
    /\ Faithful

(* What the editor's save of the text leaves in the file system: it has    *)
(* touched one file, the one that the path then leads to, if any, and that *)
(* file starts with the text.                                              *)
Kept(s, t, path, text) ==
    LET x == Sh!fs_resolve_path(t, path)
    IN  /\ ShP!Sound(t)
        /\ Sh!fs_resolve_path(s, path) \in {Sh!NULL, x}
        /\ \A n \in Sh!Nodes(s) \ {x} :
              [t.heap[n] EXCEPT !.children = << >>] = [s.heap[n] EXCEPT !.children = << >>]
        /\ Sh!HasData(t, x) =>
              t = s \/ (x \in ShP!Nodes(t) /\ IsPrefix(text, Sh!fs_read_file(t, x)))
        /\ FileText(t, path) = FileText(s, path) \/ IsPrefix(text, FileText(t, path))

(* The editor's save, seen from here. *)
LEMMA SavedKept ==
    ASSUME NEW s, ShP!Sound(s), NEW a \in File, NEW lines \in EdP!Texts,
           NEW text, text = Ed!content(lines),
           NEW r, r = Sh!editor_save_file(s, a, text)
    PROVE  Kept(s, r.fs, a, text) /\ (r.ok => text = << >>)
<1> DEFINE t == r.fs
           x == ShP!fs_resolve_path(t, a)
           old == ShP!fs_resolve_path(s, a)
<1>1. text \in Content
  BY SameOpen, TextFits
<1>2. r = ShP!editor_save_file(s, a, text)
  BY SameCommands
<1>3. /\ Len(Truncate(a)) = Len(a) \/ a = Append(Truncate(a), ShP!EMPTY)
      /\ Truncate(a) # <<ShP!EMPTY>>
  BY NamesAssumption, SameNames
<1>4. t = r.fs /\ x = ShP!fs_resolve_path(t, a) /\ old = ShP!fs_resolve_path(s, a)
  OBVIOUS
<1> HIDE DEF t, x, old
<1>5. /\ ShP!Sound(t) /\ (r.ok => text = << >>)
      /\ old \in {ShP!NULL, x}
      /\ \A n \in ShP!Nodes(s) \ {x} :
            [t.heap[n] EXCEPT !.children = << >>] = [s.heap[n] EXCEPT !.children = << >>]
      /\ ShP!HasData(t, x) =>
            t = s \/ (x \in ShP!Nodes(t) /\ ShP!IsPrefix(text, ShP!fs_read_file(t, x)))
      /\ ~ShP!HasData(t, x) => ~ShP!HasData(s, old)
  BY <1>1, <1>2, <1>3, <1>4, FileAssumptions, ShP!SaveKeeps
<1> USE DEF t, x, old
<1>6. /\ FileText(t, a) = IF ShP!HasData(t, x) THEN ShP!fs_read_file(t, x) ELSE << >>
      /\ FileText(s, a) = IF ShP!HasData(s, old) THEN ShP!fs_read_file(s, old) ELSE << >>
  BY SameFind, SamePaths, SameNodes, Zenon DEF FileText
<1>7. x = Sh!fs_resolve_path(t, a) /\ old = Sh!fs_resolve_path(s, a)
  BY SamePaths, Zenon
<1>8. t = s => x = old
  OBVIOUS
<1> HIDE DEF t, x, old
<1>9. FileText(t, a) = FileText(s, a) \/ IsPrefix(text, FileText(t, a))
  <2>1. CASE ~ShP!HasData(t, x)
    <3>1. FileText(t, a) = << >> /\ FileText(s, a) = << >>
      BY <1>5, <1>6, <2>1
    <3> QED BY <3>1
  <2>2. CASE ShP!HasData(t, x) /\ t = s
    BY <2>2
  <2>3. CASE ShP!HasData(t, x) /\ t # s
    <3>1. FileText(t, a) = ShP!fs_read_file(t, x) /\ IsPrefix(text, ShP!fs_read_file(t, x))
      BY <1>5, <1>6, <2>3, SamePrefix
    <3> QED BY <3>1
  <2> QED BY <2>1, <2>2, <2>3
<1>10. Kept(s, t, a, text)
  <2>1. Sh!HasData(t, x) =>
            t = s \/ (x \in ShP!Nodes(t) /\ IsPrefix(text, Sh!fs_read_file(t, x)))
    BY <1>5, SameFind, SameNodes, SamePrefix, Zenon
  <2>2. /\ old \in {Sh!NULL, x}
        /\ \A n \in Sh!Nodes(s) \ {x} :
              [t.heap[n] EXCEPT !.children = << >>] = [s.heap[n] EXCEPT !.children = << >>]
    BY <1>5, SameNames, Zenon
  <2> QED BY <1>5, <1>7, <1>9, <2>1, <2>2, Zenon DEF Kept
<1> QED BY <1>5, <1>10 DEF t

(* What Enter in COMMAND mode may do: save or not, and leave or not.       *)
(* modified is cleared only by a save that reported success, and the       *)
(* editor left only on q! or with modified clear; q alone saves nothing.   *)
LEMMA CommandEffect ==
    ASSUME NEW s, NEW e, EdP!EdOK(e), NEW r,
           r = Sh!editor_save_file(s, filename, Ed!content(e.lines)), r.ok \in BOOLEAN
    PROVE  \E t \in {s, r.fs}, b \in BOOLEAN, m \in {e.mode, "EXIT"} :
             /\ editor_process_command(s, e) =
                  [fs |-> t, ed |-> [e EXCEPT !.modified = b, !.mode = m, !.command = << >>]]
             /\ b = e.modified \/ (t = r.fs /\ r.ok)
             /\ m = "EXIT" => e.mode = "EXIT" \/ ~b \/ e.command = <<"q", "!">>
             /\ e.command = <<"q">> => t = s /\ b = e.modified
<1> DEFINE saved == editor_save_file(s, e)
           R(t, b, m) == [fs |-> t,
                          ed |-> [e EXCEPT !.modified = b, !.mode = m, !.command = << >>]]
           p == editor_process_command(s, e)
           c == e.modified /\ ~r.ok
           Good(t, b, m) == /\ p = R(t, b, m)
                            /\ b = e.modified \/ (t = r.fs /\ r.ok)
                            /\ m = "EXIT" => e.mode = "EXIT" \/ ~b \/ e.command = <<"q", "!">>
                            /\ e.command = <<"q">> => t = s /\ b = e.modified
<1> SUFFICES \E t \in {s, r.fs}, b \in BOOLEAN, m \in {e.mode, "EXIT"} : Good(t, b, m)
  OBVIOUS
<1>1. e.modified \in BOOLEAN /\ c \in BOOLEAN
  BY DEF EdP!EdOK
<1>2. saved = [fs |-> r.fs, ed |-> [e EXCEPT !.modified = c]]
  BY DEF editor_save_file
<1>3. [e EXCEPT !.modified = c].modified = c
  BY DEF EdP!EdOK
<1>4. /\ <<"w">> # <<"q">> /\ <<"w">> # <<"q", "!">> /\ <<"w">> # <<"w", "q">>
      /\ <<"q">> # <<"q", "!">> /\ <<"q">> # <<"w", "q">> /\ <<"q", "!">> # <<"w", "q">>
  OBVIOUS
<1>5. c = e.modified \/ (r.fs = r.fs /\ r.ok)
  BY <1>1
<1> HIDE DEF saved, c, p, R
<1>6. CASE e.command = <<"w">>
  <2>1. p = [saved EXCEPT !.ed.command = << >>]
    BY <1>4, <1>6 DEF editor_process_command, saved, p
  <2>2. p = R(r.fs, c, e.mode)
    BY <1>2, <2>1 DEF EdP!EdOK, R
  <2>3. Good(r.fs, c, e.mode)
    BY <1>4, <1>5, <1>6, <2>2
  <2> QED BY <1>1, <2>3
<1>7. CASE e.command = <<"q">> /\ ~e.modified
  <2> DEFINE y == [e EXCEPT !.mode = "EXIT"]
  <2>1. p = [[fs |-> s, ed |-> y] EXCEPT !.ed.command = << >>]
    BY <1>4, <1>7 DEF editor_process_command, p
  <2>2. p = R(s, e.modified, "EXIT")
    BY <2>1 DEF EdP!EdOK, R
  <2>3. Good(s, e.modified, "EXIT")
    BY <1>7, <2>2
  <2> QED BY <1>1, <2>3
<1>8. CASE e.command = <<"q", "!">>
  <2> DEFINE y == [e EXCEPT !.mode = "EXIT"]
  <2>1. p = [[fs |-> s, ed |-> y] EXCEPT !.ed.command = << >>]
    BY <1>4, <1>8 DEF editor_process_command, p
  <2>2. p = R(s, e.modified, "EXIT")
    BY <2>1 DEF EdP!EdOK, R
  <2>3. Good(s, e.modified, "EXIT")
    BY <1>8, <2>2
  <2> QED BY <1>1, <2>3
<1>9. CASE e.command = <<"w", "q">>
  <2>1. p = [[saved EXCEPT !.ed = IF @.modified THEN @ ELSE [@ EXCEPT !.mode = "EXIT"]]
               EXCEPT !.ed.command = << >>]
    BY <1>4, <1>9 DEF editor_process_command, saved, p
  <2>2. CASE c
    <3>1. p = R(r.fs, c, e.mode)
      BY <1>2, <1>3, <2>1, <2>2 DEF EdP!EdOK, R
    <3>2. Good(r.fs, c, e.mode)
      BY <1>4, <1>5, <1>9, <3>1
    <3> QED BY <1>1, <3>2
  <2>3. CASE ~c
    <3>1. p = R(r.fs, c, "EXIT")
      BY <1>2, <1>3, <2>1, <2>3 DEF EdP!EdOK, R
    <3>2. Good(r.fs, c, "EXIT")
      BY <1>4, <1>5, <1>9, <2>3, <3>1
    <3> QED BY <1>1, <3>2
  <2> QED BY <2>2, <2>3
<1>10. CASE /\ e.command # <<"w">> /\ ~(e.command = <<"q">> /\ ~e.modified)
            /\ e.command # <<"q", "!">> /\ e.command # <<"w", "q">>
  <2>1. p = [fs |-> s, ed |-> [e EXCEPT !.command = << >>]]
    BY <1>10 DEF editor_process_command, p
  <2>2. p = R(s, e.modified, e.mode)
    BY <2>1 DEF EdP!EdOK, R
  <2>3. Good(s, e.modified, e.mode)
    BY <2>2
  <2> QED BY <1>1, <2>3
<1> QED BY <1>6, <1>7, <1>8, <1>9, <1>10

(* A save reports success or failure. *)
LEMMA SaveReports ==
    ASSUME NEW s, NEW a, NEW text
    PROVE  Sh!editor_save_file(s, a, text).ok \in BOOLEAN
<1>1. \A x, b : Sh!Outcome(x, b).ok = b
  BY DEF Sh!Outcome
<1>2. \E x, y : Sh!editor_save_file(s, a, text) = Sh!Outcome(x, y = 0)
  BY Zenon DEF Sh!editor_save_file
<1>3. PICK x, y : Sh!editor_save_file(s, a, text) = Sh!Outcome(x, y = 0)
  BY <1>2
<1>4. Sh!editor_save_file(s, a, text).ok = (y = 0)
  BY <1>1, <1>3, Zenon
<1> QED BY <1>4

(* Enter in COMMAND mode. *)
LEMMA Enter ==
    ASSUME Inv, RunCommand
    PROVE  /\ fs' = fs \/ Kept(fs, fs', filename, Ed!content(ed.lines))
           /\ ShP!Sound(fs')
           /\ EdP!EdOK(ed')
           /\ filename' = filename
           /\ ed'.mode = "EXIT" \/
                /\ ed'.lines = ed.lines
                /\ \/ ed'.modified = ed.modified
                   \/ Ed!content(ed.lines) = << >>
           /\ ed'.mode = "EXIT" /\ ed.command = <<"q">> => fs' = fs /\ ~ed.modified
<1> DEFINE text == Ed!content(ed.lines)
           save == Sh!editor_save_file(fs, filename, text)
<1>1. /\ ShP!Sound(fs) /\ EdP!EdOK(ed) /\ filename \in File /\ ed.mode = "COMMAND"
      /\ ed.lines \in EdP!Texts
  BY DEF Inv, RunCommand, Ed!In, EdP!EdOK
<1>2. Kept(fs, save.fs, filename, text) /\ (save.ok => text = << >>)
  BY <1>1, SavedKept
<1>3. save.ok \in BOOLEAN
  BY SaveReports
<1> HIDE DEF text, save
<1>4. PICK t \in {fs, save.fs}, b \in BOOLEAN, m \in {ed.mode, "EXIT"} :
        /\ editor_process_command(fs, ed) =
             [fs |-> t, ed |-> [ed EXCEPT !.modified = b, !.mode = m, !.command = << >>]]
        /\ b = ed.modified \/ (t = save.fs /\ save.ok)
        /\ m = "EXIT" => ed.mode = "EXIT" \/ ~b \/ ed.command = <<"q", "!">>
        /\ ed.command = <<"q">> => t = fs /\ b = ed.modified
  BY <1>1, <1>3, CommandEffect DEF text, save
<1> DEFINE e == [ed EXCEPT !.modified = b, !.mode = m, !.command = << >>]
<1>5. /\ fs' = t /\ filename' = filename
      /\ ed' = IF e.mode = "EXIT" THEN NoEditor ELSE [e EXCEPT !.mode = "NORMAL"]
  <2> HIDE DEF e
  <2>1. editor_process_command(fs, ed) = [fs |-> t, ed |-> e]
    BY <1>4 DEF e
  <2> QED BY <2>1 DEF RunCommand
<1>6. e.mode = m
  BY <1>1 DEF EdP!EdOK
<1>7. t = fs \/ Kept(fs, t, filename, text)
  BY <1>2, <1>4
<1>8. ShP!Sound(t)
  BY <1>1, <1>7 DEF Kept
<1>9. CASE m = "EXIT"
  <2>1. ed' = NoEditor
    BY <1>5, <1>6, <1>9
  <2>2. EdP!EdOK(ed') /\ ed'.mode = "EXIT"
    BY <2>1, NoEditorOK
  <2>3. ed.command = <<"q">> => t = fs /\ ~ed.modified
    <3>1. <<"q">> # <<"q", "!">>
      OBVIOUS
    <3> QED BY <1>1, <1>4, <1>9, <3>1
  <2> QED BY <1>5, <1>7, <1>8, <2>2, <2>3 DEF text
<1>10. CASE m # "EXIT"
  <2>1. ed' = [ed EXCEPT !.modified = b, !.mode = "NORMAL", !.command = << >>]
    <3>1. [e EXCEPT !.mode = "NORMAL"] =
            [ed EXCEPT !.modified = b, !.mode = "NORMAL", !.command = << >>]
      BY <1>1 DEF EdP!EdOK
    <3> QED BY <1>5, <1>6, <1>10, <3>1
  <2>2. "NORMAL" \in EdP!Mode /\ << >> \in Seq(CommandChar) /\ Len(<< >>) <= MAX_COMMAND
    BY SizesAssumption DEF EdP!Mode
  <2>3. EdP!EdOK(ed')
    BY <1>1, <2>1, <2>2, EditorAssumptions, EdP!AfterCommand
  <2>4. ed'.lines = ed.lines /\ ed'.modified = b /\ ed'.mode = "NORMAL"
    BY <1>1, <2>1 DEF EdP!EdOK
  <2> QED BY <1>2, <1>4, <1>5, <1>7, <1>8, <2>3, <2>4 DEF text
<1> QED BY <1>9, <1>10

(* The empty text is in front of every file. *)
LEMMA EmptyPrefix ==
    ASSUME NEW S, NEW file \in Seq(S)
    PROVE  IsPrefix(<< >>, file)
<1>1. SubSeq(<< >>, 1, 0) = << >> /\ SubSeq(file, 1, 0) = << >>
  OBVIOUS
<1>2. Len(<< >>) = 0 /\ Len(file) \in Nat /\ Len(<< >>) <= Len(file)
  OBVIOUS
<1> QED BY <1>1, <1>2 DEF IsPrefix

(* An empty file opens as one empty line, which is saved as nothing. *)
LEMMA EmptyOpens ==
    /\ Ed!editor_open(<< >>) = << << >> >>
    /\ Ed!content(<< << >> >>) = << >>
<1>1. << >> \in Seq(Char \cup {NL})
  OBVIOUS
<1>2. EdP!ReadRows(<< >>)[0] = [full |-> << >>, row |-> << >>]
  BY <1>1, EditorAssumptions, EdP!ReadRowsSteps
<1>3. EdP!editor_open(<< >>) = << << >> >>
  BY <1>2 DEF EdP!editor_open
<1>4. EdP!content(<< << >> >>) = << >>
  BY EditorAssumptions, EdP!EmptyContent
<1> QED BY <1>3, <1>4, SameOpen

(* A key that does not leave the editor's own state. *)
LEMMA Stroke ==
    ASSUME Inv, Key
    PROVE  /\ fs' = fs /\ filename' = filename
           /\ EdP!EdOK(ed')
           /\ ed.mode # "EXIT" /\ ed'.mode # "EXIT"
           /\ ed'.modified \/ (~ed.modified /\ ed'.lines = ed.lines)
<1>1. EdP!Key /\ EdP!EdOK(ed)
  BY SameKeys DEF Inv, Key
<1>2. EdP!Keeps(ed, ed')
  BY <1>1, EditorAssumptions, EdP!KeyKeeps
<1>3. EdP!In("NORMAL") \/ EdP!In("INSERT") \/ EdP!In("COMMAND")
  BY <1>1, Zenon DEF EdP!Key, EdP!Move, EdP!InsertMode, EdP!AppendMode, EdP!OpenBelow, EdP!DeleteUnder,
     EdP!DeleteLine, EdP!CommandMode, EdP!LeaveInsert, EdP!Backspace, EdP!Insert, EdP!LeaveCommand,
     EdP!EraseCommand, EdP!TypeCommand
<1>4. ed.mode # "EXIT"
  BY <1>3 DEF EdP!In
<1> QED BY <1>2, <1>4 DEF Key, EdP!Keeps

(* The editor opens a file. *)
LEMMA Opened ==
    ASSUME Inv, EditFile \/ EditNothing
    PROVE  Inv' /\ ed.mode = "EXIT" /\ fs' = fs
<1>1. CASE EditFile
  <2>1. PICK path \in Arg : Edit(path, FileText(fs, path))
    BY <1>1 DEF EditFile
  <2>2. path \in File /\ ShP!Sound(fs)
    BY DEF Inv, File
  <2>3. FileText(fs, path) \in Content
    BY <2>2, FileTextIn
  <2>4. /\ ed' = Ed!run_editor(FileText(fs, path)) /\ filename' = path /\ fs' = fs
        /\ ed.mode = "EXIT"
    BY <2>1 DEF Edit
  <2>5. EdP!EdOK(ed')
    BY <2>3, <2>4, OpenedOK
  <2>6. ed'.lines = Ed!editor_open(FileText(fs', filename'))
    <3>1. ed'.lines = Ed!editor_open(FileText(fs, path))
      BY <2>4 DEF Ed!run_editor
    <3> QED BY <2>4, <3>1
  <2>7. Faithful'
    BY <2>6 DEF Faithful
  <2> QED BY <2>2, <2>4, <2>5, <2>7 DEF Inv
<1>2. CASE EditNothing
  <2>1. /\ ed' = Ed!run_editor(<< >>) /\ filename' = <<UNTITLED>> /\ fs' = fs
        /\ ed.mode = "EXIT"
    BY <1>2 DEF EditNothing, Edit
  <2>2. << >> \in Content
    <3>1. << >> \in Seq(Char \cup {NL}) /\ Len(<< >>) < MAX_FILE_SIZE
      BY SizesAssumption
    <3> QED BY <3>1, ContentSeq
  <2>3. EdP!EdOK(ed')
    BY <2>1, <2>2, OpenedOK
  <2>4. ed'.lines = << << >> >>
    BY <2>1, EmptyOpens DEF Ed!run_editor
  <2>5. Ed!content(ed'.lines) = << >>
    BY <2>4, EmptyOpens
  <2>6. filename' \in File /\ ShP!Sound(fs')
    BY <2>1 DEF Inv, File
  <2>7. IsPrefix(Ed!content(ed'.lines), FileText(fs', filename'))
    <3>1. FileText(fs', filename') \in Content
      BY <2>6, FileTextIn
    <3>2. FileText(fs', filename') \in Seq(Char \cup {NL})
      BY <3>1, ContentSeq
    <3> QED BY <2>5, <3>2, EmptyPrefix
  <2>8. Faithful'
    BY <2>7 DEF Faithful
  <2> QED BY <2>1, <2>3, <2>6, <2>8 DEF Inv
<1> QED BY <1>1, <1>2

(* Every step keeps the invariant. *)
LEMMA NextInv ==
    ASSUME Inv, [Next]_vars
    PROVE  Inv'
<1>1. ShP!Sound(fs) /\ EdP!EdOK(ed) /\ filename \in File /\ Faithful
  BY DEF Inv
<1>2. CASE Command
  <2>1. ShP!Sound(fs') /\ ed' = ed /\ filename' = filename /\ ed.mode = "EXIT"
    BY <1>1, <1>2, CommandSound DEF Command
  <2>2. Faithful'
    BY <2>1 DEF Faithful
  <2> QED BY <1>1, <2>1, <2>2 DEF Inv
<1>3. CASE EditFile \/ EditNothing
  BY <1>3, Opened
<1>4. CASE Key
  <2>1. /\ fs' = fs /\ filename' = filename /\ EdP!EdOK(ed')
        /\ ed.mode # "EXIT"
        /\ ed'.modified \/ (~ed.modified /\ ed'.lines = ed.lines)
    BY <1>4, Stroke
  <2>2. Faithful'
    BY <1>1, <2>1 DEF Faithful
  <2> QED BY <1>1, <2>1, <2>2 DEF Inv
<1>5. CASE RunCommand
  <2>1. /\ fs' = fs \/ Kept(fs, fs', filename, Ed!content(ed.lines))
        /\ ShP!Sound(fs') /\ EdP!EdOK(ed') /\ filename' = filename
        /\ ed'.mode = "EXIT" \/ /\ ed'.lines = ed.lines
                                /\ \/ ed'.modified = ed.modified
                                   \/ Ed!content(ed.lines) = << >>
    BY <1>5, Enter
  <2>2. \/ FileText(fs', filename) = FileText(fs, filename)
        \/ IsPrefix(Ed!content(ed.lines), FileText(fs', filename))
    BY <2>1 DEF Kept
  <2>3. ed.mode # "EXIT"
    BY <1>5 DEF RunCommand, Ed!In
  <2>4. ASSUME ed'.mode # "EXIT", ~ed'.modified
        PROVE  \/ Ed!editor_open(FileText(fs', filename)) = ed.lines
               \/ IsPrefix(Ed!content(ed.lines), FileText(fs', filename))
    <3>1. CASE ed'.modified = ed.modified
      BY <1>1, <2>2, <2>3, <2>4, <3>1 DEF Faithful
    <3>2. CASE Ed!content(ed.lines) = << >>
      <4>1. FileText(fs', filename) \in Content
        BY <1>1, <2>1, FileTextIn
      <4>2. FileText(fs', filename) \in Seq(Char \cup {NL})
        BY <4>1, ContentSeq
      <4> QED BY <3>2, <4>2, EmptyPrefix
    <3> QED BY <2>1, <2>4, <3>1, <3>2
  <2>5. Faithful'
    BY <2>1, <2>4 DEF Faithful
  <2> QED BY <1>1, <2>1, <2>5 DEF Inv
<1>6. CASE UNCHANGED vars
  <2>1. fs' = fs /\ ed' = ed /\ filename' = filename
    BY <1>6 DEF vars
  <2>2. Faithful'
    BY <1>1, <2>1 DEF Faithful
  <2> QED BY <1>1, <2>1, <2>2 DEF Inv
<1> QED BY <1>2, <1>3, <1>4, <1>5, <1>6 DEF Next

-------------------------------------------------------------------------------
(* The specification. *)

(* The invariant holds when the system starts. *)
LEMMA InitInv == Init => Inv
<1> SUFFICES ASSUME Init PROVE Inv
  OBVIOUS
<1>1. fs = ShP!fs_init
  BY SameStart DEF Init, Sh!Init
<1>2. ShP!Good(ShP!fs_init) /\ ShP!Filed(ShP!fs_init)
  BY FileAssumptions, ShP!InitGood
<1>3. ShP!Sound(fs)
  BY <1>1, <1>2 DEF ShP!Sound
<1>4. ed = NoEditor /\ filename = <<UNTITLED>>
  BY DEF Init
<1>5. EdP!EdOK(ed) /\ ed.mode = "EXIT"
  BY <1>4, NoEditorOK
<1> QED BY <1>3, <1>4, <1>5 DEF Inv, Faithful, File

(* A text that is not marked modified is in its file, in every behaviour   *)
(* of shell, editor and file system: no key, no save and no command in     *)
(* between clears modified with anything left to store.                    *)
THEOREM AlwaysFaithful == Spec => []Inv
<1>1. Inv /\ [Next]_vars => Inv'
  BY NextInv
<1> QED BY <1>1, InitInv, PTL DEF Spec

(* Neither part leaves its types, whatever the other hands it: a file for  *)
(* the editor to open, or a text for the file system to store.             *)
THEOREM SessionTypeCorrect == Spec => []TypeOK
<1>1. Inv => TypeOK
  <2> SUFFICES ASSUME Inv PROVE TypeOK
    OBVIOUS
  <2>1. Sh!TypeOK
    BY SameStart DEF Inv, ShP!Sound, ShP!Good
  <2>2. ed \in [lines : Ed!Texts, cursor_x : Nat, cursor_y : Nat,
                view_start_line : Nat, mode : Ed!Mode, modified : BOOLEAN,
                command : Seq(CommandChar), overrun : BOOLEAN]
    BY SameTexts DEF Inv, EdP!EdOK
  <2> QED BY <2>1, <2>2 DEF TypeOK, Inv
<1> QED BY <1>1, AlwaysFaithful, PTL

(* The steps from COMMAND mode are those of a key and of Enter. *)
LEMMA CommandSteps ==
    ASSUME Inv, [Next]_vars, ed.mode = "COMMAND"
    PROVE  Key \/ RunCommand \/ UNCHANGED vars
BY DEF Next, Command, EditFile, EditNothing, Edit

(* The editor touches no file but its own, whatever the path leads to and  *)
(* whichever part of the save fails.                                       *)
THEOREM TouchesItsFile == Spec => OnlyItsFile
<1> DEFINE A == ed.mode = "COMMAND" =>
                  /\ Sh!fs_resolve_path(fs, filename) \in
                       {Sh!NULL, Sh!fs_resolve_path(fs', filename)}
                  /\ \A n \in Sh!Nodes(fs) \ {Sh!fs_resolve_path(fs', filename)} :
                       [fs'.heap[n] EXCEPT !.children = << >>] =
                       [fs.heap[n] EXCEPT !.children = << >>]
<1>1. Inv /\ [Next]_vars => [A]_vars
  <2> SUFFICES ASSUME Inv, [Next]_vars, ed.mode = "COMMAND" PROVE A
    OBVIOUS
  <2>1. fs' = fs \/ Kept(fs, fs', filename, Ed!content(ed.lines))
    <3>1. CASE Key
      BY <3>1, Stroke
    <3>2. CASE RunCommand
      BY <3>2, Enter
    <3>3. CASE UNCHANGED vars
      BY <3>3 DEF vars
    <3> QED BY <3>1, <3>2, <3>3, CommandSteps
  <2>2. CASE fs' = fs
    BY <2>2
  <2>3. CASE Kept(fs, fs', filename, Ed!content(ed.lines))
    BY <2>3 DEF Kept
  <2> QED BY <2>1, <2>2, <2>3
<1>2. Spec => [][A]_vars
  BY <1>1, AlwaysFaithful, PTL DEF Spec
<1> QED BY <1>2 DEF OnlyItsFile

(* q leaves the editor only with a text that is in the file. *)
THEOREM QuitFaithful == Spec => QuitKeepsFile
<1> DEFINE A == ed.mode = "COMMAND" /\ ed.command = <<"q">> /\ ed'.mode = "EXIT" =>
                  \A text \in {FileText(fs', filename)} :
                    \/ Ed!editor_open(text) = ed.lines
                    \/ IsPrefix(Ed!content(ed.lines), text)
<1>1. Inv /\ [Next]_vars => [A]_vars
  <2> SUFFICES ASSUME Inv, [Next]_vars, ed.mode = "COMMAND", ed.command = <<"q">>,
                      ed'.mode = "EXIT"
               PROVE  \/ Ed!editor_open(FileText(fs', filename)) = ed.lines
                      \/ IsPrefix(Ed!content(ed.lines), FileText(fs', filename))
    OBVIOUS
  <2>1. fs' = fs /\ ~ed.modified
    <3>1. CASE Key
      BY <3>1, Stroke
    <3>2. CASE RunCommand
      BY <3>2, Enter
    <3>3. CASE UNCHANGED vars
      BY <3>3 DEF vars
    <3> QED BY <3>1, <3>2, <3>3, CommandSteps
  <2> QED BY <2>1 DEF Inv, Faithful
<1>2. Spec => [][A]_vars
  BY <1>1, AlwaysFaithful, PTL DEF Spec
<1> QED BY <1>2 DEF QuitKeepsFile

(* What was stored is what opening the file again shows, the last line     *)
(* perhaps with what an earlier, longer text has left behind it.           *)
THEOREM ReopenFaithful == Spec => ReopenShows
<1> DEFINE A == ed.mode = "COMMAND" /\ fs'.heap # fs.heap =>
                  \A n \in {Sh!fs_resolve_path(fs', filename)} :
                  Sh!HasData(fs', n) =>
                    \A again \in {Ed!editor_open(Sh!fs_read_file(fs', n))} :
                      LET last == Len(ed.lines)
                      IN  /\ IsPrefix(Front(ed.lines), again) \/ ed.lines = << << >> >>
                          /\ Last(ed.lines) # << >> =>
                               Len(again) >= last /\ IsPrefix(Last(ed.lines), again[last])
<1>1. Inv /\ [Next]_vars => [A]_vars
  <2> SUFFICES ASSUME Inv, [Next]_vars, ed.mode = "COMMAND", fs'.heap # fs.heap,
                      NEW n, n = Sh!fs_resolve_path(fs', filename), Sh!HasData(fs', n),
                      NEW again, again = Ed!editor_open(Sh!fs_read_file(fs', n))
               PROVE  /\ IsPrefix(Front(ed.lines), again) \/ ed.lines = << << >> >>
                      /\ Last(ed.lines) # << >> =>
                           Len(again) >= Len(ed.lines) /\ IsPrefix(Last(ed.lines), again[Len(ed.lines)])
    OBVIOUS
  <2>1. fs' # fs
    OBVIOUS
  <2>2. RunCommand
    <3>1. CASE Key
      BY <2>1, <3>1, Stroke
    <3>2. CASE UNCHANGED vars
      BY <2>1, <3>2 DEF vars
    <3> QED BY <3>1, <3>2, CommandSteps
  <2>3. Kept(fs, fs', filename, Ed!content(ed.lines)) /\ ShP!Sound(fs')
    BY <2>1, <2>2, Enter
  <2>4. IsPrefix(Ed!content(ed.lines), Sh!fs_read_file(fs', n))
    BY <2>1, <2>3 DEF Kept
  <2>5. ed.lines \in EdP!Texts
    BY DEF Inv, EdP!EdOK
  <2>6. Sh!fs_read_file(fs', n) \in Seq(Char \cup {NL})
    <3>1. Sh!fs_read_file(fs', n) = FileText(fs', filename)
      BY DEF FileText
    <3>2. FileText(fs', filename) \in Content
      BY <2>3, FileTextIn DEF Inv
    <3> QED BY <3>1, <3>2, ContentSeq
  <2> DEFINE file == Sh!fs_read_file(fs', n)
             lines == ed.lines
  <2>7. again = EdP!editor_open(file) /\ EdP!IsPrefix(EdP!content(lines), file)
    BY <2>4, SameOpen, SamePrefix, Zenon
  <2> HIDE DEF file, lines
  <2>8. /\ EdP!IsPrefix(EdP!Front(lines), again) \/ lines = << << >> >>
        /\ EdP!Last(lines) # << >> =>
             Len(again) >= Len(lines) /\ EdP!IsPrefix(EdP!Last(lines), again[Len(lines)])
    BY <2>5, <2>6, <2>7, EditorAssumptions, EdP!PrefixOpens DEF file, lines
  <2> QED BY <2>8, SamePrefix DEF lines
<1>2. Spec => [][A]_vars
  BY <1>1, AlwaysFaithful, PTL DEF Spec
<1> QED BY <1>2 DEF ReopenShows

===============================================================================
