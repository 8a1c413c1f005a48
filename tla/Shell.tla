--------------------------------- MODULE Shell ---------------------------------
(***************************************************************************)
(* The shell commands that act on the file system (process_command in      *)
(* src/kernel/kernel.c) and the editor's save (editor_save_file in         *)
(* src/kernel/editor.c), as the state machine that calls FileSystem.       *)
(*                                                                         *)
(* A command runs to its end inside the keyboard interrupt handler, with   *)
(* interrupts off, so one command is one step.  A command operator returns *)
(* [fs |-> the state it leaves, ok |-> it printed no error].  Commands     *)
(* with a missing operand only print a message, as do help, version, pwd   *)
(* and echo; what ls, cat, stat and tree read is given by operators.       *)
(*                                                                         *)
(* Of a path, the bytes are modelled as its length: a cd that overruns     *)
(* current_path is the last step of a behaviour.                           *)
(***************************************************************************)
EXTENDS FileSystem

CONSTANTS
    Arg,        \* what can be typed as a command's path or name operand
    Text        \* what can be typed as the text of write, or edited and saved

ASSUME InputAssumption ==
    /\ \A a \in Arg : a \in String /\ a # << >> /\ Truncate(a) \in String
    /\ \A a \in Arg : Truncate(<<Last(a)>>) \in String
    /\ Truncate(<<EMPTY, EMPTY>>) \in String
    /\ \A t \in Text : t \in Seq(Char) /\ Len(t) < MAX_FILE_SIZE

(* With an empty operand a command only prints a message. *)
ASSUME OperandAssumption == \A a \in Arg : Truncate(a) # <<EMPTY>>

(* An operand fits fs_resolve_path's copy with its '\0': the parser cuts it *)
(* to 63 characters, the copy has 256.                                     *)
ASSUME PathAssumption == \A a \in Arg : strlen(a) < MAX_PATH_LENGTH - 1

VARIABLE fs

Outcome(s, b) == [fs |-> s, ok |-> b]

-------------------------------------------------------------------------------
(* The commands. *)

(* mkdir and touch take the whole operand as the name of a new entry of    *)
(* the current directory.  A node that cannot be entered in the directory  *)
(* is abandoned, counted in total_files.                                   *)
create_here(s, arg, type) ==
    LET node  == fs_create_file(s, arg, type)
        added == fs_add_child(node.fs, s.current_dir, node.ret)
    IN  IF node.ret = NULL THEN Outcome(node.fs, FALSE)
        ELSE Outcome(added.fs, added.ret = 0)

cmd_mkdir(s, arg) ==
    IF fs_find_child(s, s.current_dir, arg) # NULL
    THEN Outcome(s, FALSE)
    ELSE create_here(s, arg, DIRECTORY)

cmd_touch(s, arg) ==
    IF fs_find_child(s, s.current_dir, arg) # NULL
    THEN Outcome(s, TRUE)
    ELSE create_here(s, arg, REGULAR)

(* rm and rmdir unlink the node and then call fs_delete_node, which looks  *)
(* for the same name in the same directory once more.                      *)
unlink(s, node) ==
    LET t == fs_remove_child(s, s.heap[node].parent, s.heap[node].name).fs
    IN  fs_delete_node(t, node).fs

(* Faulty: rmdir does not ask whether the directory is empty. *)
cmd_rmdir_not_empty(s, arg) ==
    LET node == fs_resolve_path(s, arg)
    IN  IF ~IsDirectory(s, node)
        THEN Outcome(s, FALSE)
        ELSE Outcome(unlink(s, node), TRUE)

cmd_rmdir(s, arg) ==
    LET node == fs_resolve_path(s, arg)
    IN  IF ~IsDirectory(s, node) \/ s.heap[node].children # << >>
        THEN Outcome(s, FALSE)
        ELSE Outcome(unlink(s, node), TRUE)

cmd_rm(s, arg) ==
    LET node == fs_resolve_path(s, arg)
    IN  IF node = NULL \/ IsDirectory(s, node)
        THEN Outcome(s, FALSE)
        ELSE Outcome(unlink(s, node), TRUE)

cmd_cp(s, arg1, arg2) ==
    LET r == fs_copy_file(s, arg1, arg2) IN Outcome(r.fs, r.ret = 0)

cmd_mv(s, arg1, arg2) ==
    LET r == fs_move_file(s, arg1, arg2) IN Outcome(r.fs, r.ret = 0)

(* cd . does nothing; cd / and cd .. drop the result of the change. *)
cmd_cd(s, arg) ==
    LET r == fs_change_directory(s, arg)
    IN  CASE arg = <<".">>  -> Outcome(s, TRUE)
          [] arg = <<"..">> -> Outcome(IF s.heap[s.current_dir].parent # NULL
                                       THEN r.fs ELSE s, TRUE)
          [] OTHER -> Outcome(r.fs, r.ret = 0 \/ arg = <<EMPTY, EMPTY>>)

(* write creates the file in the current directory when the path leads     *)
(* nowhere, and takes a count of 0 written bytes for success.              *)
cmd_write(s, arg, text) ==
    LET found == fs_resolve_path(s, arg)
        node  == fs_create_file(s, arg, REGULAR)
        added == fs_add_child(node.fs, s.current_dir, node.ret)
        put(t, n) == LET w == fs_write_file(t, n, text)
                     IN  Outcome(w.fs, w.ret = 0)
    IN  CASE found # NULL /\ IsDirectory(s, found) -> Outcome(s, FALSE)
          [] found # NULL /\ ~IsDirectory(s, found) -> put(s, found)
          [] found = NULL /\ node.ret = NULL -> Outcome(s, TRUE)
          [] found = NULL /\ node.ret # NULL /\ added.ret # 0 ->
                 Outcome(fs_delete_node(added.fs, node.ret).fs, FALSE)
          [] OTHER -> put(added.fs, node.ret)

(* Faulty: the save always makes a new file. *)
editor_save_file_anew(s, filename, text) ==
    LET node  == fs_create_file(s, filename, REGULAR)
        added == fs_add_child(node.fs, s.current_dir, node.ret)
        t     == IF node.ret # NULL THEN added.fs ELSE s
        w     == fs_write_file(t, node.ret, text)
    IN  Outcome(w.fs, w.ret = 0)

(* Faulty: the save removes the old file first. *)
editor_save_file_replaces(s, filename, text) ==
    LET old   == cmd_rm(s, filename).fs
        node  == fs_create_file(old, filename, REGULAR)
        added == fs_add_child(node.fs, s.current_dir, node.ret)
        t     == IF node.ret # NULL THEN added.fs ELSE old
        w     == fs_write_file(t, node.ret, text)
    IN  Outcome(w.fs, w.ret = 0)

(* The editor's save ignores a failed fs_add_child and writes the text     *)
(* into the abandoned node.                                                *)
editor_save_file(s, filename, text) ==
    LET found == fs_resolve_path(s, filename)
        node  == fs_create_file(s, filename, REGULAR)
        added == fs_add_child(node.fs, s.current_dir, node.ret)
        t     == IF found = NULL /\ node.ret # NULL THEN added.fs ELSE s
        file  == IF found = NULL THEN node.ret ELSE found
        w     == fs_write_file(t, file, text)
    IN  Outcome(w.fs, w.ret = 0)

-------------------------------------------------------------------------------
(* What the reading commands print, layout and colours aside; ok is FALSE  *)
(* when that is an error message.  None of them changes the state.         *)

(* ls and tree take the current directory when they have no operand. *)
directory(s, arg) ==
    LET node == fs_resolve_path(s, arg)
    IN  CASE arg = << >> -> s.current_dir
          [] arg # << >> /\ IsDirectory(s, node) -> node
          [] OTHER -> NULL

cmd_ls(s, arg) == [i \in DOMAIN s.heap[directory(s, arg)].children |->
                      s.heap[s.heap[directory(s, arg)].children[i]].name]

(* A file without a buffer prints nothing. *)
cmd_cat(s, arg) ==
    LET node == fs_resolve_path(s, arg)
        ok   == node # NULL /\ ~IsDirectory(s, node)
    IN  [ok |-> ok, text |-> IF ok THEN fs_read_file(s, node) ELSE << >>]

(* The size of a file, the number of entries of a directory. *)
cmd_stat(s, arg) ==
    LET node == fs_resolve_path(s, arg)
    IN  [ok    |-> node # NULL,
         count |-> CASE node = NULL -> 0
                     [] IsDirectory(s, node) -> Len(s.heap[node].children)
                     [] OTHER -> s.heap[node].size]

(* Faulty: the depth is not passed on. *)
tree_print_node_flat(s) ==
    LET print[n \in Nodes(s)] == [depth \in Nat |->
            <<[node |-> n, depth |-> depth]>> \o
            FlattenSeq([i \in DOMAIN s.heap[n].children |->
                           print[s.heap[n].children[i]][depth]])]
    IN  print

(* A node, then what is below it.  The lines are given as the node they    *)
(* name and how far they are indented.                                     *)
tree_print_node(s) ==
    LET print[n \in Nodes(s)] == [depth \in Nat |->
            <<[node |-> n, depth |-> depth]>> \o
            FlattenSeq([i \in DOMAIN s.heap[n].children |->
                           print[s.heap[n].children[i]][depth + 1]])]
    IN  print

(* The name of the directory and its entries both start at depth 0. *)
cmd_tree(s, arg) ==
    LET dir == directory(s, arg)
    IN  <<[node |-> dir, depth |-> 0]>> \o
        FlattenSeq([i \in DOMAIN s.heap[dir].children |->
                       tree_print_node(s)[s.heap[dir].children[i]][0]])

-------------------------------------------------------------------------------
(* The state machine: kernel_main calls fs_init, then every command comes  *)
(* from the keyboard.                                                      *)

Init == fs = fs_init

Mkdir(a)   == fs' = cmd_mkdir(fs, a).fs
Touch(a)   == fs' = cmd_touch(fs, a).fs
Rmdir(a)   == fs' = cmd_rmdir(fs, a).fs
Rm(a)      == fs' = cmd_rm(fs, a).fs
Cd(a)      == fs' = cmd_cd(fs, a).fs
Cp(a, b)   == fs' = cmd_cp(fs, a, b).fs
Mv(a, b)   == fs' = cmd_mv(fs, a, b).fs
Write(a, t) == t # << >> /\ fs' = cmd_write(fs, a, t).fs
Save(a, t) == fs' = editor_save_file(fs, a, t).fs

Command ==
    \/ \E a \in Arg : Mkdir(a) \/ Touch(a) \/ Rmdir(a) \/ Rm(a) \/ Cd(a)
    \/ \E a, b \in Arg : Cp(a, b) \/ Mv(a, b)
    \/ \E a \in Arg, t \in Text : Write(a, t) \/ Save(a, t)

(* A cd into a directory whose path does not fit current_path writes over  *)
(* the memory behind it, which ends the behaviour: nothing is claimed of   *)
(* the shell afterwards.                                                   *)
Next == PathFits(fs) /\ Command

Spec == Init /\ [][Next]_fs

-------------------------------------------------------------------------------
(* What the tree looks like from outside. *)

(* n is entered in the children[] of the directory it calls its parent. *)
Linked(s, n) ==
    \/ n = ROOT
    \/ s.heap[n].parent # NULL /\ n \in ToSet(s.heap[s.heap[n].parent].children)

(* n can be reached from the root.  Parents are older than their children. *)
Live(s, n) ==
    LET live[m \in Nodes(s)] ==
            m = ROOT \/ (Linked(s, m) /\ live[s.heap[m].parent])
    IN  live[n]

LinkedNodes(s) == {n \in Nodes(s) : Linked(s, n)}

LiveNodes(s) == {n \in Nodes(s) : Live(s, n)}

(* The type invariant: through every command, error paths included, the    *)
(* pointers lead to nodes, the counters are size_t values and no file is   *)
(* longer than its buffer.                                                 *)
TypeOK == WellTyped(fs)

(* The nodes form a tree: whatever is created, copied, moved, unlinked or  *)
(* abandoned, tree_print_node and the walk up to the root terminate and    *)
(* every entry is in one directory once.                                   *)
TreeShape ==
    AnchoredDirs(fs) /\ ParentsOlder(fs) /\ ChildrenLinked(fs) /\ NamesUnique(fs)

-------------------------------------------------------------------------------
(* Safety. *)

(* n lies at most k directories below the root, which is its own parent. *)
Within(s, n, k) ==
    \E up \in [0..k -> Nodes(s)] :
        /\ up[0] = n /\ up[k] = ROOT
        /\ \A i \in 1..k : up[i] = s.heap[up[i - 1]].parent

(* The prompt is the truth: current_path, written only by cd, resolves to  *)
(* the current directory as long as that directory has not been removed,   *)
(* lies no deeper than the MAX_DEPTH names fs_update_current_path keeps,   *)
(* and has a path that fits current_path with its '\0'.  Such a path also  *)
(* fits the copy fs_resolve_path makes of it.                              *)
PromptIsTrue ==
    Live(fs, fs.current_dir) /\ Within(fs, fs.current_dir, MAX_DEPTH) /\ PathFits(fs)
        => fs_resolve_path(fs, PathString(fs)) = fs.current_dir

(* The pool is accounted for to the byte, on the error paths too: each     *)
(* node ever created took NODE_SIZE bytes, each buffer MAX_FILE_SIZE.      *)
MemoryExact ==
    fs.memory_offset =
        NODE_SIZE * Len(fs.heap)
          + MAX_FILE_SIZE * Cardinality({n \in Nodes(fs) : fs.heap[n].data # NODATA})

(* fs_read_file hands out the bare buffer: whatever sequence of writes,    *)
(* copies and saves filled it, a '\0' ends it inside the buffer and no     *)
(* sooner than size.                                                       *)
ReadEndsInBuffer ==
    \A n \in Nodes(fs) : HasData(fs, n) =>
        /\ fs.heap[n].data[MAX_FILE_SIZE] = NUL
        /\ Len(fs_read_file(fs, n)) >= fs.heap[n].size

(* A mkdir, touch, cp or mv that reports an error has changed no node that *)
(* existed before it: what the failed cp or mv created is unlinked again.  *)
FailureLeavesTree ==
    \A p, q \in Arg :
        \A r \in {cmd_mkdir(fs, p), cmd_touch(fs, p), cmd_cp(fs, p, q), cmd_mv(fs, p, q)} :
            ~r.ok => SubSeq(r.fs.heap, 1, Len(fs.heap)) = fs.heap

(* A successful mv looks its source up a second time, after the new entry  *)
(* exists, and still unlinks the node it copied, no other; the new entry   *)
(* holds the source's text whenever it got a buffer.                       *)
MoveKeepsText ==
    \A p, q \in Arg : \A r \in {cmd_mv(fs, p, q)} :
        LET src == fs_resolve_path(fs, p)
            new == Len(fs.heap) + 1
        IN  r.ok =>
              /\ {n \in Nodes(r.fs) : Linked(r.fs, n)} =
                   ({n \in Nodes(fs) : Linked(fs, n)} \ {src}) \cup {new}
              /\ HasData(r.fs, new) =>
                   /\ r.fs.heap[new].size = fs.heap[src].size
                   /\ \A i \in 1..fs.heap[src].size :
                        r.fs.heap[new].data[i] = fs.heap[src].data[i]

(* tree shows the tree: from the root, every node that can be reached is  *)
(* printed once, after the directory it is in and one step further in than *)
(* it, and nothing else is printed, whatever has been removed, abandoned   *)
(* or given the name of something gone.                                    *)
TreePrintsTree ==
    \A out \in {cmd_tree(fs, <<EMPTY, EMPTY>>)} :
        /\ {out[i].node : i \in DOMAIN out} = LiveNodes(fs)
        /\ Len(out) = Cardinality(LiveNodes(fs))
        /\ \A i \in 2..Len(out) :
             \E j \in 1..(i - 1) :
                /\ out[j].node = fs.heap[out[i].node].parent
                /\ out[i].depth = (IF j = 1 THEN 0 ELSE out[j].depth + 1)
                /\ \A k \in (j + 1)..(i - 1) : out[k].depth >= out[i].depth

(* The commands that read agree on what there is: a name is listed by ls   *)
(* of a directory exactly when stat finds it there, and cat prints at      *)
(* least the bytes stat counts.  The directory is typed without a slash at *)
(* its end: two slashes in a row enclose a name no entry has.              *)
ReadersAgree ==
    \A dir \in {d \in Arg : Last(d) # EMPTY} \cup {<< >>} : directory(fs, dir) # NULL =>
        \A listed \in {ToSet(cmd_ls(fs, dir))}, n \in Name :
            \A stat \in {cmd_stat(fs, dir \o <<n>>)},
               cat \in {cmd_cat(fs, dir \o <<n>>)} :
                /\ <<n>> \in listed <=> stat.ok
                /\ cat.ok => Len(cat.text) >= stat.count

(* A step that unlinks nothing leaves every path that led somewhere        *)
(* leading to the same node: a new entry never hides an old one.           *)
ResolutionStable ==
    [][ (/\ fs'.heap # fs.heap
         /\ fs'.current_dir = fs.current_dir
         /\ LinkedNodes(fs) \subseteq LinkedNodes(fs'))
        => \A p \in Arg : fs_resolve_path(fs, p) # NULL =>
               fs_resolve_path(fs', p) = fs_resolve_path(fs, p) ]_fs

(* One command makes at most one node unreachable, and that node has       *)
(* nothing below it.                                                       *)
LosesOneLeaf ==
    [][ fs'.heap # fs.heap =>
          \A lost \in {LiveNodes(fs) \ LiveNodes(fs')} :
            /\ Cardinality(lost) <= 1
            /\ \A n \in lost : fs.heap[n].children = << >> ]_fs

(* While the current directory is part of the tree, total_files never      *)
(* falls behind the entries of the tree: a step that takes k entries away  *)
(* counts down by at most k.                                               *)
CountKeepsUp ==
    [][ fs' # fs /\ Live(fs, fs.current_dir) =>
          fs'.total_files - fs.total_files >=
            Cardinality(LinkedNodes(fs')) - Cardinality(LinkedNodes(fs)) ]_fs

-------------------------------------------------------------------------------
(* What the documentation and the comments promise and the code does not   *)
(* keep.  TLC refutes each of these, with the .cfg of its name.            *)

(* "mkdir projects/test    # Create subdirectory": a mkdir of a name below *)
(* an existing directory that reports no error makes that path resolve.    *)
MkdirCreatesSubdirectory ==
    \A p \in Arg \cap (Name \X Name) :
        LET r == cmd_mkdir(fs, p)
        IN  IsDirectory(fs, fs_resolve_path(fs, <<p[1]>>)) /\ r.ok
                => fs_resolve_path(r.fs, p) # NULL

(* "mv <src> <dest> - Move/rename file": a mv that reports no error keeps  *)
(* the text of the file, also when the pool has no room for a buffer.      *)
MoveLosesNothing ==
    \A p, q \in Arg :
        LET r == cmd_mv(fs, p, q)
        IN  r.ok /\ fs.heap[fs_resolve_path(fs, p)].size > 0
                => HasData(r.fs, Len(fs.heap) + 1)

(* "rmdir <dir>  - Remove empty directory": what rmdir takes out of the    *)
(* tree is a directory.                                                    *)
RmdirRemovesDirectories ==
    \A p \in Arg : \A n \in Nodes(fs) :
        Linked(fs, n) /\ ~Linked(cmd_rmdir(fs, p).fs, n) => IsDirectory(fs, n)

(* "Max Files: 128 total files/directories": creation is refused for want  *)
(* of a free file only when that many files have been created.             *)
RefusedOnlyAtLimit ==
    fs.total_files >= MAX_TOTAL_FILES => Len(fs.heap) >= MAX_TOTAL_FILES

(* "Path Length: 256 characters maximum": the path of the directory cd has *)
(* entered never needs more room than current_path has.                    *)
PathNeverTooLong == PathFits(fs)

===============================================================================
