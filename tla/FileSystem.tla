------------------------------ MODULE FileSystem ------------------------------
(***************************************************************************)
(* The in-memory file system of src/kernel/filesystem.c.                   *)
(*                                                                         *)
(* Every C function is an operator from a file-system state s (the statics *)
(* fs and memory_offset, and the nodes carved out of memory_pool) to       *)
(* [fs |-> the state it leaves, ret |-> what it returns].  The module has  *)
(* no variable of its own: the shell and the editor call these functions   *)
(* from the keyboard interrupt, one command at a time, and the state       *)
(* machine that issues the calls is module Shell.                          *)
(*                                                                         *)
(* A node is named by its place in allocation order: 1 is the root, and    *)
(* kfree() frees nothing, so a place is never used again.  NULL is 0.      *)
(*                                                                         *)
(* A C string is the sequence of its segments, what is left of it when it  *)
(* is cut at every '/': "a/b" is <<"a","b">>, "/a" is <<"","a">>, "/" is   *)
(* <<"","">> and "a/" is <<"a","">>.                                       *)
(***************************************************************************)
EXTENDS Integers, SequencesExt

CONSTANTS
    Name,               \* slash-free names other than "", "." and ".."
    Char,               \* the characters a text is made of
    Truncate(_),        \* what strncpy leaves of a name in node->name
    SegmentLength(_),   \* the characters of a segment
    NODE_SIZE,          \* sizeof(fs_node_t)
    POOL_SIZE,          \* sizeof(memory_pool)
    SIZE_RANGE,         \* 2^32, the number of values of a size_t
    MAX_FILE_SIZE,
    MAX_FILES_PER_DIR,
    MAX_TOTAL_FILES,
    MAX_DEPTH,          \* components kept by fs_update_current_path
    MAX_PATH_LENGTH     \* sizeof(current_path)

NULL == 0
ROOT == 1
REGULAR == "FILE_TYPE_REGULAR"
DIRECTORY == "FILE_TYPE_DIRECTORY"
NUL == "NUL"            \* the character '\0'
NODATA == << >>         \* node->data == NULL
EMPTY == ""             \* the segment before, after or between slashes

Segment == Name \cup {EMPTY, ".", ".."}
String == Seq(Segment)
Buffer == [1..MAX_FILE_SIZE -> Char \cup {NUL}]

ASSUME SizesAssumption ==
    /\ NODE_SIZE \in Nat \ {0}
    /\ MAX_FILE_SIZE \in Nat \ {0}
    /\ POOL_SIZE \in Nat
    /\ NODE_SIZE < POOL_SIZE
    /\ MAX_FILES_PER_DIR \in Nat
    /\ MAX_TOTAL_FILES \in Nat \ {0}
    /\ SIZE_RANGE \in Nat
    /\ MAX_TOTAL_FILES < SIZE_RANGE
    /\ MAX_DEPTH \in Nat
    /\ MAX_PATH_LENGTH \in Nat

ASSUME NamesAssumption == Name \cap {EMPTY, ".", ".."} = {}

ASSUME CharAssumption == NUL \notin Char

ASSUME LengthAssumption == \A seg \in Segment : SegmentLength(seg) \in Nat

-------------------------------------------------------------------------------
(* The types of filesystem.h.  child_count is the length of children.  The *)
(* time stamps and the global list through node->next are left out: they   *)
(* are written and never read.                                             *)

fs_node_t == [name     : String,
              type     : {REGULAR, DIRECTORY},
              size     : Nat,
              data     : Buffer \cup {NODATA},
              parent   : Nat,
              children : Seq(Nat)]

filesystem_t == [heap          : Seq(fs_node_t),
                 total_files   : Nat,
                 memory_offset : Nat,
                 current_dir   : Nat,
                 current_path  : Seq(String)]

Nodes(s) == 1..Len(s.heap)

(* A state whose pointers lead to nodes, whose counters are size_t values  *)
(* and whose file sizes fit the buffer.                                    *)
WellTyped(s) ==
    /\ s \in filesystem_t
    /\ s.total_files < SIZE_RANGE
    /\ s.memory_offset < POOL_SIZE
    /\ s.current_dir \in Nodes(s)
    /\ \A n \in Nodes(s) :
         /\ s.heap[n].size <= MAX_FILE_SIZE
         /\ s.heap[n].parent \in Nodes(s) \cup {NULL}
         /\ s.heap[n].children \in Seq(Nodes(s))

Result(s, r) == [fs |-> s, ret |-> r]

(* The characters of a string: those of its segments and the slashes       *)
(* between them.                                                           *)
strlen(str) ==
    Len(str) - 1 + SumFunction([i \in DOMAIN str |-> SegmentLength(str[i])])

-------------------------------------------------------------------------------
(* The bump allocator. *)

(* Faulty: > for >=, the last byte of the pool is handed out. *)
kmalloc_off_by_one(s, size) ==
    IF s.memory_offset + size > POOL_SIZE
    THEN Result(s, FALSE)
    ELSE Result([s EXCEPT !.memory_offset = @ + size], TRUE)

kmalloc(s, size) ==
    IF s.memory_offset + size >= POOL_SIZE
    THEN Result(s, FALSE)
    ELSE Result([s EXCEPT !.memory_offset = @ + size], TRUE)

(* Faulty: the node is allocated before the file limit is checked. *)
fs_create_file_late_check(s, name, type) ==
    LET node == kmalloc(s, NODE_SIZE)
        buf  == IF type = REGULAR THEN kmalloc(node.fs, MAX_FILE_SIZE)
                                  ELSE Result(node.fs, FALSE)
        new  == [name     |-> Truncate(name),
                 type     |-> type,
                 size     |-> 0,
                 data     |-> IF buf.ret THEN [i \in 1..MAX_FILE_SIZE |-> NUL]
                                         ELSE NODATA,
                 parent   |-> NULL,
                 children |-> << >>]
    IN  IF s.total_files >= MAX_TOTAL_FILES \/ ~node.ret
        THEN Result(node.fs, NULL)
        ELSE Result([buf.fs EXCEPT !.heap = Append(@, new),
                                   !.total_files = @ + 1],
                    Len(s.heap) + 1)

(* A regular file whose buffer cannot be allocated is still created, with  *)
(* a null data pointer.                                                    *)
fs_create_file(s, name, type) ==
    LET node == kmalloc(s, NODE_SIZE)
        buf  == IF type = REGULAR THEN kmalloc(node.fs, MAX_FILE_SIZE)
                                  ELSE Result(node.fs, FALSE)
        new  == [name     |-> Truncate(name),
                 type     |-> type,
                 size     |-> 0,
                 data     |-> IF buf.ret THEN [i \in 1..MAX_FILE_SIZE |-> NUL]
                                         ELSE NODATA,
                 parent   |-> NULL,
                 children |-> << >>]
    IN  IF s.total_files >= MAX_TOTAL_FILES \/ ~node.ret
        THEN Result(s, NULL)
        ELSE Result([buf.fs EXCEPT !.heap = Append(@, new),
                                   !.total_files = @ + 1],
                    Len(s.heap) + 1)

-------------------------------------------------------------------------------
(* Directories. *)

IsDirectory(s, n) == n # NULL /\ s.heap[n].type = DIRECTORY

(* The places of children[] that hold a node of the given name. *)
Matches(s, dir, name) ==
    {i \in DOMAIN s.heap[dir].children :
        s.heap[s.heap[dir].children[i]].name = name}

(* Faulty: only the first entry is compared. *)
fs_find_child_first(s, dir, name) ==
    IF IsDirectory(s, dir) /\ 1 \in Matches(s, dir, name)
    THEN s.heap[dir].children[1]
    ELSE NULL

fs_find_child(s, dir, name) ==
    IF IsDirectory(s, dir) /\ Matches(s, dir, name) # {}
    THEN s.heap[dir].children[Min(Matches(s, dir, name))]
    ELSE NULL

(* Faulty: an entry of the same name is not looked for. *)
fs_add_child_duplicate(s, dir, child) ==
    IF \/ ~IsDirectory(s, dir)
       \/ child = NULL
       \/ Len(s.heap[dir].children) >= MAX_FILES_PER_DIR
    THEN Result(s, -1)
    ELSE Result([s EXCEPT !.heap[dir].children = Append(@, child),
                          !.heap[child].parent = dir], 0)

(* Faulty: nor is it, and the new entry goes before the others. *)
fs_add_child_first(s, dir, child) ==
    IF \/ ~IsDirectory(s, dir)
       \/ child = NULL
       \/ Len(s.heap[dir].children) >= MAX_FILES_PER_DIR
    THEN Result(s, -1)
    ELSE Result([s EXCEPT !.heap[dir].children = <<child>> \o @,
                          !.heap[child].parent = dir], 0)

fs_add_child(s, dir, child) ==
    IF \/ ~IsDirectory(s, dir)
       \/ child = NULL
       \/ Len(s.heap[dir].children) >= MAX_FILES_PER_DIR
       \/ fs_find_child(s, dir, s.heap[child].name) # NULL
    THEN Result(s, -1)
    ELSE Result([s EXCEPT !.heap[dir].children = Append(@, child),
                          !.heap[child].parent = dir], 0)

(* children[] without its i-th entry, the later ones shifted down. *)
ShiftOut(children, i) ==
    [j \in 1..(Len(children) - 1) |->
        IF j < i THEN children[j] ELSE children[j + 1]]

fs_remove_child(s, dir, name) ==
    IF IsDirectory(s, dir) /\ Matches(s, dir, name) # {}
    THEN Result([s EXCEPT !.heap[dir].children =
                              ShiftOut(@, Min(Matches(s, dir, name)))], 0)
    ELSE Result(s, -1)

-------------------------------------------------------------------------------
(* Paths. *)

IsAbsolute(path) == Len(path) > 1 /\ path[1] = EMPTY

(* One turn of the loop of fs_resolve_path; a failed look-up returns at    *)
(* once, so NULL stays NULL.                                               *)
ResolveToken(s, current, token) ==
    CASE current = NULL -> NULL
      [] current # NULL /\ token = "."  -> current
      [] current # NULL /\ token = ".." -> s.heap[current].parent
      [] OTHER -> fs_find_child(s, current, <<token>>)

(* The loop stops at the end of the string, so an empty last segment (a    *)
(* trailing slash) is not a token; an empty segment elsewhere is one.      *)
Tokens(path) ==
    LET rest == IF IsAbsolute(path) THEN Tail(path) ELSE path
    IN  IF Last(rest) = EMPTY THEN Front(rest) ELSE rest

(* The values current takes as the loop goes through the tokens. *)
Walk(s, start, tokens) ==
    LET current[i \in 0..Len(tokens)] ==
            IF i = 0 THEN start
            ELSE ResolveToken(s, current[i - 1], tokens[i])
    IN  current

(* path_copy keeps MAX_PATH_LENGTH - 1 characters of what follows a leading *)
(* slash.  No path that is resolved is that long: an operand has 63 at the *)
(* most.                                                                   *)
fs_resolve_path(s, path) ==
    LET start  == IF IsAbsolute(path) THEN ROOT ELSE s.current_dir
        tokens == Tokens(path)
    IN  Walk(s, start, tokens)[Len(tokens)]

(* The current directory and the directories above it, as far as           *)
(* MAX_DEPTH; the root is repeated.                                        *)
Ancestors(s) ==
    LET node[i \in 0..MAX_DEPTH] ==
            IF i = 0 THEN s.current_dir
            ELSE IF node[i - 1] = ROOT THEN ROOT ELSE s.heap[node[i - 1]].parent
    IN  node

(* The names from the current directory up, at most MAX_DEPTH of them,     *)
(* written root first; << >> is the path "/".                              *)
fs_update_current_path(s) ==
    LET node  == Ancestors(s)
        depth == Min({i \in 0..MAX_DEPTH : node[i] = ROOT} \cup {MAX_DEPTH})
    IN  [s EXCEPT !.current_path =
            [k \in 1..depth |-> s.heap[node[depth - k]].name]]

(* current_path as the string that pwd and the prompt print. *)
PathString(s) ==
    IF s.current_path = << >> THEN <<EMPTY, EMPTY>>
    ELSE <<EMPTY>> \o FlattenSeq(s.current_path)

(* strcat has put the string and its '\0' inside current_path; it does not *)
(* ask.                                                                    *)
PathFits(s) == strlen(PathString(s)) < MAX_PATH_LENGTH

(* Faulty: the path is not updated. *)
fs_change_directory_no_update(s, path) ==
    LET target == fs_resolve_path(s, path)
    IN  CASE target = NULL -> Result(s, -1)
          [] target # NULL /\ ~IsDirectory(s, target) -> Result(s, -2)
          [] OTHER -> Result([s EXCEPT !.current_dir = target], 0)

fs_change_directory(s, path) ==
    LET target == fs_resolve_path(s, path)
    IN  CASE target = NULL -> Result(s, -1)
          [] target # NULL /\ ~IsDirectory(s, target) -> Result(s, -2)
          [] OTHER ->
               Result(fs_update_current_path([s EXCEPT !.current_dir = target]), 0)

(* Without a slash after its first character a path has the parent "/". *)
fs_get_parent_path(path) ==
    IF Len(path) = 1 \/ (Len(path) = 2 /\ path[1] = EMPTY) THEN <<EMPTY, EMPTY>>
    ELSE Front(path)

fs_get_filename(path) == <<Last(path)>>

-------------------------------------------------------------------------------
(* Files. *)

HasData(s, file) ==
    /\ file # NULL
    /\ s.heap[file].type = REGULAR
    /\ s.heap[file].data # NODATA

(* Faulty: the text goes after what the file holds already. *)
fs_write_file_append(s, file, text) ==
    LET old  == s.heap[file].size
        size == Min({old + Len(text), MAX_FILE_SIZE})
    IN  IF ~HasData(s, file)
        THEN Result(s, -1)
        ELSE Result([s EXCEPT !.heap[file].data =
                                  [i \in 1..MAX_FILE_SIZE |->
                                      IF i \in (old + 1)..size THEN text[i - old]
                                                              ELSE @[i]],
                              !.heap[file].size = size], size)

(* memcpy overwrites the first bytes; what the buffer held after them     *)
(* stays there.                                                            *)
fs_write_file(s, file, text) ==
    LET size == Min({Len(text), MAX_FILE_SIZE})
    IN  IF ~HasData(s, file)
        THEN Result(s, -1)
        ELSE Result([s EXCEPT !.heap[file].data =
                                  [i \in 1..MAX_FILE_SIZE |->
                                      IF i <= size THEN text[i] ELSE @[i]],
                              !.heap[file].size = size], size)

(* What a caller sees in the buffer that fs_read_file returns: the         *)
(* characters before the first '\0'.                                       *)
fs_read_file(s, file) ==
    LET data == s.heap[file].data
        end  == Min({i \in DOMAIN data : data[i] = NUL} \cup {Len(data) + 1})
    IN  SubSeq(data, 1, end - 1)

(* Faulty: the caller and the function both count the file out. *)
fs_delete_node_twice(s, node) ==
    IF \/ node \in {NULL, ROOT}
       \/ IsDirectory(s, node) /\ s.heap[node].children # << >>
    THEN Result(s, -1)
    ELSE LET t == fs_remove_child(s, s.heap[node].parent, s.heap[node].name).fs
         IN  Result([t EXCEPT !.total_files = (@ + SIZE_RANGE - 2) % SIZE_RANGE], 0)

(* total_files is decremented even when nothing was found to remove. *)
fs_delete_node(s, node) ==
    IF \/ node \in {NULL, ROOT}
       \/ IsDirectory(s, node) /\ s.heap[node].children # << >>
    THEN Result(s, -1)
    ELSE LET t == fs_remove_child(s, s.heap[node].parent, s.heap[node].name).fs
         IN  Result([t EXCEPT !.total_files = (@ + SIZE_RANGE - 1) % SIZE_RANGE], 0)

fs_copy_file(s, src_path, dest_path) ==
    LET src      == fs_resolve_path(s, src_path)
        dest_dir == fs_resolve_path(s, fs_get_parent_path(dest_path))
        dest     == fs_create_file(s, fs_get_filename(dest_path), REGULAR)
        written  == IF s.heap[src].data # NODATA /\ s.heap[src].size > 0
                    THEN fs_write_file(dest.fs, dest.ret,
                             SubSeq(s.heap[src].data, 1, s.heap[src].size)).fs
                    ELSE dest.fs
        added    == fs_add_child(written, dest_dir, dest.ret)
    IN  IF \/ src = NULL \/ IsDirectory(s, src)
           \/ ~IsDirectory(s, dest_dir)
           \/ dest.ret = NULL
        THEN Result(s, -1)
        ELSE IF added.ret # 0
             THEN Result(fs_delete_node(added.fs, dest.ret).fs, -1)
             ELSE Result(added.fs, 0)

(* Faulty: the source is removed though the copy failed. *)
fs_move_file_unchecked(s, src_path, dest_path) ==
    LET copy == fs_copy_file(s, src_path, dest_path)
        src  == fs_resolve_path(copy.fs, src_path)
    IN  IF src # NULL
        THEN Result(fs_delete_node(copy.fs, src).fs, copy.ret)
        ELSE Result(copy.fs, -1)

(* Faulty: the source stays where it was. *)
fs_move_file_keeps(s, src_path, dest_path) ==
    LET copy == fs_copy_file(s, src_path, dest_path)
        src  == fs_resolve_path(copy.fs, src_path)
    IN  IF copy.ret = 0 /\ src # NULL THEN Result(copy.fs, 0)
                                      ELSE Result(copy.fs, -1)

(* The source is looked up again, by path, in the state the copy left. *)
fs_move_file(s, src_path, dest_path) ==
    LET copy == fs_copy_file(s, src_path, dest_path)
        src  == fs_resolve_path(copy.fs, src_path)
    IN  IF copy.ret = 0 /\ src # NULL
        THEN Result(fs_delete_node(copy.fs, src).fs, 0)
        ELSE Result(copy.fs, -1)

-------------------------------------------------------------------------------
(* fs_init: the root is its own parent and the current directory. *)
fs_init ==
    LET blank == [heap |-> << >>, total_files |-> 0, memory_offset |-> 0,
                  current_dir |-> NULL, current_path |-> << >>]
        root  == fs_create_file(blank, <<EMPTY, EMPTY>>, DIRECTORY)
    IN  [root.fs EXCEPT !.heap[ROOT].parent = ROOT, !.current_dir = ROOT]

-------------------------------------------------------------------------------
(* The shape of the tree. *)

(* The root and the current directory are directories, and both have a     *)
(* parent to go to: ".." in fs_resolve_path never follows a null pointer.  *)
AnchoredDirs(s) ==
    /\ ROOT \in Nodes(s)
    /\ s.heap[ROOT].parent = ROOT
    /\ s.heap[ROOT].type = DIRECTORY
    /\ s.heap[s.current_dir].type = DIRECTORY
    /\ s.heap[s.current_dir].parent # NULL

(* A node is younger than the directory it was entered in, which has a     *)
(* parent itself: going up always ends at the root.                        *)
ParentsOlder(s) ==
    \A n \in Nodes(s) \ {ROOT} :
        /\ s.heap[n].parent < n
        /\ s.heap[n].parent # NULL =>
             /\ s.heap[s.heap[n].parent].type = DIRECTORY
             /\ s.heap[s.heap[n].parent].parent # NULL

(* children[] and parent agree, and only directories have children. *)
ChildrenLinked(s) ==
    \A d \in Nodes(s) : \A i \in DOMAIN s.heap[d].children :
        /\ s.heap[d].type = DIRECTORY
        /\ s.heap[d].children[i] # ROOT
        /\ s.heap[s.heap[d].children[i]].parent = d

(* No directory holds two entries of one name, though names are cut to 62  *)
(* characters after the shell has looked for the name as it was typed.     *)
NamesUnique(s) ==
    \A d \in Nodes(s) : \A i, j \in DOMAIN s.heap[d].children :
        s.heap[s.heap[d].children[i]].name = s.heap[s.heap[d].children[j]].name
            => i = j

===============================================================================
