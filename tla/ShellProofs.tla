----------------------------- MODULE ShellProofs -----------------------------
(***************************************************************************)
(* What Shell keeps, for every behaviour of the shell and every size of    *)
(* the file system.                                                        *)
(*                                                                         *)
(* TypeOK alone is not inductive: fs_update_current_path follows parent    *)
(* pointers up from the current directory, and reads the name of a node    *)
(* that does not exist unless every node on the way has a parent; and the  *)
(* parents form a tree only because fs_add_child is handed the youngest    *)
(* node, which has no parent yet.  Good is the conjunction of both, Filed  *)
(* what the pool and the buffers hold (module FileSystemProofs), and Sound *)
(* the two together is the inductive invariant.  That a command loses no   *)
(* more than a leaf needs one thing more, Standing: the directories above  *)
(* a removed current directory are in the tree, or nothing but files have  *)
(* taken their names.  That the prompt is true needs Addressed: the path   *)
(* is what the names above the current directory spell, and each of them   *)
(* is one that a path can hold.  What tree prints is a matter of Sound     *)
(* alone: an entry is younger than its directory, so the recursion ends.   *)
(***************************************************************************)
EXTENDS Shell, FileSystemProofs

(* What is typed as an operand is a path, and its last segment a name. *)
LEMMA ArgString ==
    ASSUME NEW a \in Arg
    PROVE  /\ a \in String /\ a # << >>
           /\ Truncate(a) \in String /\ Truncate(<<Last(a)>>) \in String
BY InputAssumption

(* What is typed as a text can be stored in a buffer. *)
LEMMA TextString ==
    ASSUME NEW t \in Text
    PROVE  t \in Seq(Char \cup {NUL}) /\ Storable(t)
<1>1. t \in Seq(Char) /\ Len(t) < MAX_FILE_SIZE
  BY InputAssumption
<1> QED BY <1>1, SeqMonotonic DEF Storable

(* fs_init leaves the root alone in its tree. *)
LEMMA InitGood == Good(fs_init) /\ Filed(fs_init) /\ Nodes(fs_init) = {ROOT}
<1> DEFINE blank == [heap |-> << >>, total_files |-> 0, memory_offset |-> 0,
                     current_dir |-> NULL, current_path |-> << >>]
           r == fs_create_file(blank, <<EMPTY, EMPTY>>, DIRECTORY)
           u == r.fs
           t == fs_init
<1>1. /\ NODE_SIZE \in Nat /\ POOL_SIZE \in Nat /\ 0 < POOL_SIZE /\ NODE_SIZE < POOL_SIZE
      /\ MAX_TOTAL_FILES \in Nat /\ MAX_TOTAL_FILES > 0
      /\ MAX_FILE_SIZE \in Nat /\ SIZE_RANGE \in Nat /\ MAX_TOTAL_FILES < SIZE_RANGE
  BY SizesAssumption
<1>2. /\ blank \in filesystem_t /\ blank.memory_offset = 0 /\ blank.total_files = 0
      /\ blank.heap = << >> /\ Len(blank.heap) = 0
  BY DEF filesystem_t, NULL
<1>3. t = [u EXCEPT !.heap[ROOT].parent = ROOT, !.current_dir = ROOT]
  BY DEF fs_init
<1> HIDE DEF blank
<1>4. r.ret = 1
  <2>1. kmalloc(blank, NODE_SIZE).ret = TRUE
    <3>1. ~(blank.memory_offset + NODE_SIZE >= POOL_SIZE)
      BY <1>1, <1>2
    <3> QED BY <3>1 DEF kmalloc, Result
  <2>2. ~(blank.total_files >= MAX_TOTAL_FILES)
    BY <1>1, <1>2
  <2>3. r.ret = Len(blank.heap) + 1
    BY <2>1, <2>2 DEF fs_create_file, Result
  <2> HIDE DEF r
  <2>4. 0 + 1 = 1
    OBVIOUS
  <2> QED BY <1>2, <2>3, <2>4
<1>5. /\ u \in filesystem_t /\ u.memory_offset < POOL_SIZE /\ u.total_files = 1
      /\ \E new \in fs_node_t :
           u.heap = Append(blank.heap, new) /\ new.children = << >>
             /\ new.type = DIRECTORY /\ new.size = 0
             /\ Paid(new, u.memory_offset - blank.memory_offset)
  <2>1. r # Result(blank, NULL)
    <3> HIDE DEF r
    <3>1. Result(blank, NULL).ret = 0
      BY DEF Result, NULL
    <3> QED BY <1>4, <3>1
  <2>2. Truncate(<<EMPTY, EMPTY>>) \in String
    BY InputAssumption
  <2>3. blank.memory_offset < POOL_SIZE
    BY <1>1, <1>2
  <2>4. /\ r.fs \in filesystem_t /\ r.fs.memory_offset < POOL_SIZE
        /\ r.fs.total_files = blank.total_files + 1
        /\ \E new \in fs_node_t :
             /\ r.fs.heap = Append(blank.heap, new)
             /\ new.parent = NULL /\ new.children = << >>
             /\ new.type = DIRECTORY /\ new.size = 0
             /\ new.name = Truncate(<<EMPTY, EMPTY>>)
             /\ Paid(new, r.fs.memory_offset - blank.memory_offset)
    BY <1>2, <2>1, <2>2, <2>3, CreateTyped
  <2> HIDE DEF r
  <2>5. blank.total_files + 1 = 1
    BY <1>2
  <2> QED BY <2>4, <2>5
<1>6. PICK new \in fs_node_t :
           u.heap = Append(blank.heap, new) /\ new.children = << >>
             /\ new.type = DIRECTORY /\ new.size = 0
             /\ Paid(new, u.memory_offset - blank.memory_offset)
  BY <1>5
<1> HIDE DEF r, u, t
<1>16. new.data = NODATA /\ u.memory_offset = NODE_SIZE
  <2>1. DIRECTORY # REGULAR
    BY DEF DIRECTORY, REGULAR
  <2>2. new.data = NODATA /\ u.memory_offset - blank.memory_offset = NODE_SIZE
    BY <1>6, <2>1 DEF Paid
  <2>3. u.memory_offset \in Nat
    BY <1>5 DEF filesystem_t
  <2> QED BY <1>1, <1>2, <2>2, <2>3
<1> DEFINE top == [new EXCEPT !.parent = ROOT]
           H == [u.heap EXCEPT ![ROOT] = top]
<1>7. /\ top \in fs_node_t /\ top.parent = ROOT /\ top.type = DIRECTORY
      /\ top.children = << >> /\ top.size = 0 /\ top.data = NODATA
  BY <1>6, <1>16 DEF fs_node_t, ROOT
<1>8. u.heap \in Seq(fs_node_t) /\ Len(u.heap) = 1 /\ u.heap[ROOT] = new
  <2>1. << >> \in Seq(fs_node_t)
    OBVIOUS
  <2> QED BY <1>2, <1>6, <2>1 DEF ROOT
<1>9. t = [[u EXCEPT !.heap = H] EXCEPT !.current_dir = ROOT]
  BY <1>3, <1>8
<1> HIDE DEF top
<1>10. H \in Seq(fs_node_t) /\ Len(H) = 1 /\ H[ROOT] = top
  BY <1>7, <1>8, ExceptSeq DEF ROOT
<1> HIDE DEF H
<1>11. /\ t \in filesystem_t /\ t.heap = H /\ t.current_dir = ROOT
       /\ t.total_files = 1 /\ t.memory_offset < POOL_SIZE
       /\ t.memory_offset = u.memory_offset
  BY <1>5, <1>9, <1>10 DEF filesystem_t, ROOT
<1>12. Nodes(t) = {ROOT} /\ t.heap[ROOT] = top
  <2>1. Len(t.heap) = 1 /\ t.heap[ROOT] = top
    BY <1>10, <1>11
  <2>2. 1..1 = {1}
    OBVIOUS
  <2> QED BY <2>1, <2>2 DEF Nodes, ROOT
<1>13. WellTyped(t)
  <2>1. << >> \in Seq(Nodes(t))
    OBVIOUS
  <2>2. t.total_files < SIZE_RANGE /\ 0 <= MAX_FILE_SIZE
    BY <1>1, <1>11
  <2> QED BY <1>7, <1>11, <1>12, <2>1, <2>2 DEF WellTyped
<1>14. AnchoredDirs(t) /\ ParentsOlder(t)
  BY <1>7, <1>11, <1>12 DEF AnchoredDirs, ParentsOlder, ROOT, NULL
<1>15. ChildrenLinked(t) /\ NamesUnique(t)
  <2>1. DOMAIN t.heap[ROOT].children = {}
    BY <1>7, <1>12
  <2> QED BY <1>12, <2>1 DEF ChildrenLinked, NamesUnique
<1>17. Filed(t)
  <2>1. Buffers(t) = {}
    BY <1>7, <1>12 DEF Buffers
  <2>2. Cardinality(Buffers(t)) = 0
    BY <2>1, FS_EmptySet
  <2>3. Len(t.heap) = 1 /\ t.memory_offset = NODE_SIZE
    BY <1>10, <1>11, <1>16
  <2>4. NODE_SIZE = NODE_SIZE * 1 + MAX_FILE_SIZE * 0
    BY <1>1
  <2>5. Exact(t)
    BY <2>2, <2>3, <2>4 DEF Exact
  <2>6. Ended(t)
    BY <2>1 DEF Ended
  <2>7. NoSize(t)
    BY <1>7, <1>12 DEF NoSize
  <2> QED BY <2>5, <2>6, <2>7 DEF Filed
<1> QED BY <1>12, <1>13, <1>14, <1>15, <1>17 DEF Good, t

-------------------------------------------------------------------------------
(* The commands. *)

(* A node was created and entered nowhere; it may have been counted out.   *)
Abandoned(s, t, c, type) ==
    /\ Loose(s, t, c, type)
    /\ t.total_files \in {s.total_files, s.total_files + 1}

(* mkdir and touch: nothing, a node that is abandoned, or a new entry of   *)
(* the current directory.                                                  *)
LEMMA CreateHereShape ==
    ASSUME NEW s, Good(s), NEW a \in Arg, NEW type \in {REGULAR, DIRECTORY}
    PROVE  LET r == create_here(s, a, type)
               c == Len(s.heap) + 1
           IN  /\ \/ r = Outcome(s, FALSE)
                  \/ r.ok = FALSE /\ Abandoned(s, r.fs, c, type)
                  \/ r.ok = TRUE /\ Grown(s, r.fs, s.current_dir, c, type)
               /\ r = Outcome(s, FALSE) \/ r.fs.heap[c].name = Truncate(a)
               /\ Filed(s) => Filed(r.fs)
<1> DEFINE r == create_here(s, a, type)
           c == Len(s.heap) + 1
           node == fs_create_file(s, a, type)
           added == fs_add_child(node.fs, s.current_dir, node.ret)
<1>1. \/ node = Result(s, NULL)
      \/ Good(node.fs) /\ Fresh(s, node.fs, node.ret, a, type)
  BY ArgString, CreateGood
<1>2. r = IF node.ret = NULL THEN Outcome(node.fs, FALSE)
          ELSE Outcome(added.fs, added.ret = 0)
  BY DEF create_here
<1> HIDE DEF node, r
<1>3. CASE node = Result(s, NULL)
  BY <1>2, <1>3 DEF Result, Outcome, r
<1>4. CASE Good(node.fs) /\ Fresh(s, node.fs, node.ret, a, type)
  <2>1. node.ret = c /\ node.fs.total_files = s.total_files + 1
    BY <1>4 DEF Fresh
  <2>2. Loose(s, node.fs, c, type) /\ c # NULL
    BY <1>4, <2>1, FreshLoose DEF Loose
  <2>3. s.current_dir \in Attached(s)
    BY RootAttached
  <2>4. \/ added = Result(node.fs, -1)
        \/ /\ added.ret = 0 /\ Grown(s, added.fs, s.current_dir, c, type)
           /\ added.fs.heap[c].name = node.fs.heap[c].name
    BY <2>1, <2>2, <2>3, LooseAdd
  <2>10. node.fs.heap[c].name = Truncate(a)
    BY <1>4, <2>1 DEF Fresh
  <2>5. Filed(s) => Filed(node.fs)
    BY <1>4, CreateFiled
  <2>6. Good(node.fs) /\ SameFiles(node.fs, added.fs)
    <3>1. /\ c \in Nodes(node.fs) \ {ROOT} /\ node.fs.heap[c].parent = NULL
          /\ \A m \in Nodes(node.fs) : m <= c
          /\ s.current_dir \in Attached(node.fs)
      BY <2>2, <2>3, LooseFit
    <3> QED BY <1>4, <2>1, <3>1, LinksOnly
  <2> HIDE DEF added, c
  <2>7. r = Outcome(added.fs, added.ret = 0)
    BY <1>2, <2>1, <2>2
  <2>8. CASE added = Result(node.fs, -1)
    <3>1. r.fs = node.fs /\ r.ok = FALSE
      <4>1. added.fs = node.fs /\ added.ret = -1
        BY <2>8 DEF Result
      <4>2. (added.ret = 0) = FALSE
        BY <4>1
      <4>3. r = Outcome(node.fs, FALSE)
        BY <2>7, <4>1, <4>2
      <4> QED BY <4>3 DEF Outcome
    <3> QED BY <2>1, <2>2, <2>5, <2>10, <3>1 DEF Abandoned, r, c
  <2>9. CASE /\ added.ret = 0 /\ Grown(s, added.fs, s.current_dir, c, type)
             /\ added.fs.heap[c].name = node.fs.heap[c].name
    <3>1. r.fs = added.fs /\ r.ok = TRUE
      BY <2>7, <2>9 DEF Outcome
    <3>2. Filed(s) => Filed(added.fs)
      BY <2>5, <2>6, <2>9, SameFiled DEF Grown
    <3> QED BY <2>9, <2>10, <3>1, <3>2 DEF r, c
  <2> QED BY <2>4, <2>8, <2>9
<1> QED BY <1>1, <1>3, <1>4

(* rm and rmdir unlink twice: by hand and in fs_delete_node. *)
LEMMA UnlinkGood ==
    ASSUME NEW s, Good(s), NEW n \in Nodes(s)
    PROVE  /\ Good(unlink(s, n))
           /\ Filed(s) => Filed(unlink(s, n))
<1> DEFINE t == fs_remove_child(s, s.heap[n].parent, s.heap[n].name).fs
<1>1. s.heap[n].parent \in Nodes(s) \cup {NULL}
  BY DEF Good, WellTyped
<1>2. Good(t) /\ SameLinks(s, t) /\ SameFiles(s, t)
  <2>1. s.heap[n].name \in String
    BY Types DEF Good
  <2> QED BY <1>1, <2>1, RemoveGood, LinksOnly
<1> HIDE DEF t
<1>3. n \in Nodes(t)
  BY <1>2 DEF SameLinks
<1>4. Good(fs_delete_node(t, n).fs) /\ SameFiles(t, fs_delete_node(t, n).fs)
  BY <1>2, <1>3, DeleteGood, LinksOnly
<1>5. Filed(s) => Filed(fs_delete_node(t, n).fs)
  BY <1>2, <1>4, SameFiled
<1> QED BY <1>4, <1>5 DEF unlink, t

(* rmdir and rm. *)
LEMMA RemovalGood ==
    ASSUME NEW s, Good(s), NEW a \in Arg
    PROVE  /\ Good(cmd_rmdir(s, a).fs) /\ (Filed(s) => Filed(cmd_rmdir(s, a).fs))
           /\ Good(cmd_rm(s, a).fs) /\ (Filed(s) => Filed(cmd_rm(s, a).fs))
<1> DEFINE n == fs_resolve_path(s, a)
<1>1. n \in Nodes(s) \cup {NULL}
  BY ArgString, ResolveAttached DEF Attached
<1>2. n # NULL => Good(unlink(s, n)) /\ (Filed(s) => Filed(unlink(s, n)))
  BY <1>1, UnlinkGood
<1>3. cmd_rmdir(s, a).fs = IF ~IsDirectory(s, n) \/ s.heap[n].children # << >>
                           THEN s ELSE unlink(s, n)
  BY DEF cmd_rmdir, Outcome
<1>4. cmd_rm(s, a).fs = IF n = NULL \/ IsDirectory(s, n) THEN s ELSE unlink(s, n)
  BY DEF cmd_rm, Outcome
<1>5. IsDirectory(s, n) => n # NULL
  BY DEF IsDirectory
<1> QED BY <1>2, <1>3, <1>4, <1>5

(* cd leaves nodes and counters alone. *)
Moved(s, t) ==
    /\ t.heap = s.heap
    /\ t.total_files = s.total_files
    /\ t.memory_offset = s.memory_offset

(* cd. *)
LEMMA CdGood ==
    ASSUME NEW s, Good(s), NEW a \in Arg
    PROVE  /\ Good(cmd_cd(s, a).fs)
           /\ Moved(s, cmd_cd(s, a).fs)
           /\ Filed(s) => Filed(cmd_cd(s, a).fs)
<1> DEFINE t == fs_change_directory(s, a).fs
<1>1. Good(t)
  BY ArgString, ChangeDirectoryGood
<1>2. cmd_cd(s, a).fs \in {s, t}
  BY DEF cmd_cd, Outcome
<1>3. Moved(s, t)
  <2> DEFINE n == fs_resolve_path(s, a)
             u == [s EXCEPT !.current_dir = n]
  <2>1. t = s \/ t = fs_update_current_path(u)
    BY DEF fs_change_directory, Result
  <2>2. Moved(s, u)
    BY Fields DEF Moved
  <2> HIDE DEF u
  <2>3. Moved(u, fs_update_current_path(u))
    BY DEF Moved, fs_update_current_path
  <2> HIDE DEF t
  <2> QED BY <2>1, <2>2, <2>3 DEF Moved
<1> HIDE DEF t
<1>4. SameFiles(s, t)
  BY <1>3 DEF SameFiles, Moved, Nodes
<1>5. Filed(s) => Filed(t)
  BY <1>1, <1>4, SameFiled
<1>6. Moved(s, s)
  BY DEF Moved
<1> QED BY <1>1, <1>2, <1>3, <1>5, <1>6

(* write and the editor's save change nothing, write the file they found,  *)
(* abandon a node or write into a new entry of the current directory.      *)
Stored(s, t, text) ==
    \/ t = s
    \/ \E n \in Nodes(s) : HasData(s, n) /\ Good(t) /\ Written(s, t, n, text)
    \/ Abandoned(s, t, Len(s.heap) + 1, REGULAR)
    \/ Grown(s, t, s.current_dir, Len(s.heap) + 1, REGULAR)

(* Writing the file that a path leads to. *)
LEMMA StoreFound ==
    ASSUME NEW s, Good(s), NEW n \in Nodes(s) \cup {NULL}, NEW text \in Text
    PROVE  LET t == fs_write_file(s, n, text).fs
           IN  Stored(s, t, text) /\ (Filed(s) => Filed(t))
<1> DEFINE t == fs_write_file(s, n, text).fs
<1>1. Good(t) /\ (IF HasData(s, n) THEN Written(s, t, n, text) ELSE t = s)
  BY TextString, WriteGood
<1>2. HasData(s, n) => n \in Nodes(s)
  BY DEF HasData
<1>3. Filed(s) => Filed(t)
  BY TextString, WriteFiled
<1> HIDE DEF t
<1> QED BY <1>1, <1>2, <1>3 DEF Stored, t

(* Writing the file that is made when the path leads nowhere, and the two  *)
(* ways it goes wrong.                                                     *)
LEMMA StoreNew ==
    ASSUME NEW s, Good(s), NEW a \in Arg, NEW text \in Text
    PROVE  LET node == fs_create_file(s, a, REGULAR)
               added == fs_add_child(node.fs, s.current_dir, node.ret)
               t == fs_write_file(added.fs, node.ret, text).fs
               v == fs_delete_node(added.fs, node.ret).fs
           IN  \/ node = Result(s, NULL)
               \/ /\ node.ret # NULL
                  /\ Stored(s, t, text) /\ (Filed(s) => Filed(t))
                  /\ added.ret # 0 => Stored(s, v, text) /\ (Filed(s) => Filed(v))
<1> DEFINE c == Len(s.heap) + 1
           node == fs_create_file(s, a, REGULAR)
           u == node.fs
           added == fs_add_child(u, s.current_dir, node.ret)
           t == fs_write_file(added.fs, node.ret, text).fs
           v == fs_delete_node(added.fs, node.ret).fs
<1>1. \/ node = Result(s, NULL)
      \/ Good(u) /\ Fresh(s, u, node.ret, a, REGULAR)
  BY ArgString, CreateGood
<1> HIDE DEF node
<1>2. CASE node = Result(s, NULL)
  BY <1>2 DEF node
<1>3. CASE Good(u) /\ Fresh(s, u, node.ret, a, REGULAR)
  <2>1. node.ret = c /\ u.total_files = s.total_files + 1
    BY <1>3 DEF Fresh
  <2>2. Loose(s, u, c, REGULAR) /\ c # NULL
    BY <1>3, <2>1, FreshLoose DEF Loose
  <2>3. s.current_dir \in Attached(s)
    BY RootAttached
  <2>4. \/ added = Result(u, -1)
        \/ added.ret = 0 /\ Grown(s, added.fs, s.current_dir, c, REGULAR)
    BY <2>1, <2>2, <2>3, LooseAdd
  <2>5. Filed(s) => Filed(u)
    BY <1>3, CreateFiled
  <2>6. SameFiles(u, added.fs)
    <3>1. /\ c \in Nodes(u) \ {ROOT} /\ u.heap[c].parent = NULL
          /\ \A m \in Nodes(u) : m <= c
          /\ s.current_dir \in Attached(u)
      BY <2>2, <2>3, LooseFit
    <3> QED BY <1>3, <2>1, <3>1, LinksOnly
  <2> HIDE DEF added, u, c
  <2>7. CASE added = Result(u, -1)
    <3>1. added.fs = u /\ added.ret = -1
      BY <2>7 DEF Result
    <3>2. Good(u) /\ c \in Nodes(u)
      BY <2>2 DEF Loose
    <3>3. /\ Loose(s, fs_write_file(u, c, text).fs, c, REGULAR)
          /\ fs_write_file(u, c, text).fs.total_files = u.total_files
      BY <2>2, TextString, LooseWrite
    <3>4. Filed(s) => Filed(fs_write_file(u, c, text).fs)
      BY <2>5, <3>2, TextString, WriteFiled
    <3>5. /\ Loose(s, fs_delete_node(u, c).fs, c, REGULAR)
          /\ fs_delete_node(u, c).fs.total_files = s.total_files
      BY <2>1, <2>2, LooseDelete
    <3>6. SameFiles(u, fs_delete_node(u, c).fs) /\ Good(fs_delete_node(u, c).fs)
      BY <3>2, <3>5, LinksOnly DEF Loose
    <3>7. Filed(s) => Filed(fs_delete_node(u, c).fs)
      BY <2>5, <3>2, <3>6, SameFiled
    <3>8. t = fs_write_file(u, c, text).fs /\ v = fs_delete_node(u, c).fs
      BY <2>1, <3>1
    <3> HIDE DEF t, v
    <3>9. Stored(s, t, text) /\ Stored(s, v, text)
      BY <2>1, <3>3, <3>5, <3>8 DEF Stored, Abandoned, c
    <3> QED BY <2>1, <2>2, <3>4, <3>7, <3>8, <3>9 DEF t, v, added, u, node, c
  <2>8. CASE added.ret = 0 /\ Grown(s, added.fs, s.current_dir, c, REGULAR)
    <3>1. Good(added.fs) /\ c \in Nodes(added.fs)
      BY <2>8 DEF Grown
    <3>2. Filed(s) => Filed(added.fs)
      BY <1>3, <2>5, <2>6, <3>1, SameFiled
    <3>3. Grown(s, fs_write_file(added.fs, c, text).fs, s.current_dir, c, REGULAR)
      BY <2>8, TextString, GrownWrite
    <3>4. Filed(s) => Filed(fs_write_file(added.fs, c, text).fs)
      BY <3>1, <3>2, TextString, WriteFiled
    <3>5. t = fs_write_file(added.fs, c, text).fs
      BY <2>1
    <3> HIDE DEF t
    <3>6. Stored(s, t, text)
      BY <3>3, <3>5 DEF Stored, c
    <3> QED BY <2>1, <2>2, <2>8, <3>4, <3>5, <3>6 DEF t, added, u, node, c
  <2> QED BY <2>4, <2>7, <2>8
<1> QED BY <1>1, <1>2, <1>3

(* write and the editor's save. *)
LEMMA StoreShape ==
    ASSUME NEW s, Good(s), NEW a \in Arg, NEW text \in Text
    PROVE  /\ Stored(s, cmd_write(s, a, text).fs, text)
           /\ Filed(s) => Filed(cmd_write(s, a, text).fs)
           /\ Stored(s, editor_save_file(s, a, text).fs, text)
           /\ Filed(s) => Filed(editor_save_file(s, a, text).fs)
<1> DEFINE found == fs_resolve_path(s, a)
           node == fs_create_file(s, a, REGULAR)
           added == fs_add_child(node.fs, s.current_dir, node.ret)
           OK(t) == Stored(s, t, text) /\ (Filed(s) => Filed(t))
<1>1. found \in Nodes(s) \cup {NULL}
  BY ArgString, ResolveAttached DEF Attached
<1>2. OK(fs_write_file(s, found, text).fs)
  BY <1>1, StoreFound
<1>3. \/ node = Result(s, NULL)
      \/ /\ node.ret # NULL
         /\ OK(fs_write_file(added.fs, node.ret, text).fs)
         /\ added.ret # 0 => OK(fs_delete_node(added.fs, node.ret).fs)
  BY StoreNew
<1>4. OK(s)
  BY DEF Stored
<1>5. fs_write_file(s, NULL, text).fs = s
  BY DEF fs_write_file, HasData, Result
<1> HIDE DEF OK
<1>6. OK(cmd_write(s, a, text).fs)
  <2>1. cmd_write(s, a, text).fs =
          CASE found # NULL /\ IsDirectory(s, found) -> s
            [] found # NULL /\ ~IsDirectory(s, found) -> fs_write_file(s, found, text).fs
            [] found = NULL /\ node.ret = NULL -> s
            [] found = NULL /\ node.ret # NULL /\ added.ret # 0 ->
                   fs_delete_node(added.fs, node.ret).fs
            [] OTHER -> fs_write_file(added.fs, node.ret, text).fs
    BY DEF cmd_write, Outcome
  <2> HIDE DEF found, node, added
  <2>2. CASE found # NULL
    BY <1>2, <1>4, <2>1, <2>2
  <2>3. CASE found = NULL /\ node = Result(s, NULL)
    <3>1. node.ret = NULL
      BY <2>3 DEF Result
    <3> QED BY <1>4, <2>1, <2>3, <3>1
  <2>4. CASE found = NULL /\ node # Result(s, NULL)
    BY <1>3, <2>1, <2>4
  <2> QED BY <2>2, <2>3, <2>4
<1>7. OK(editor_save_file(s, a, text).fs)
  <2> DEFINE t == IF found = NULL /\ node.ret # NULL THEN added.fs ELSE s
             file == IF found = NULL THEN node.ret ELSE found
  <2>1. editor_save_file(s, a, text).fs = fs_write_file(t, file, text).fs
    BY DEF editor_save_file, Outcome
  <2> HIDE DEF found, node, added
  <2>2. CASE found # NULL
    <3>1. t = s /\ file = found
      BY <2>2
    <3> HIDE DEF t, file
    <3> QED BY <1>2, <2>1, <3>1
  <2>3. CASE found = NULL /\ node = Result(s, NULL)
    <3>1. t = s /\ file = NULL
      BY <2>3 DEF Result
    <3> HIDE DEF t, file
    <3> QED BY <1>4, <1>5, <2>1, <3>1
  <2>4. CASE found = NULL /\ node # Result(s, NULL)
    <3>1. t = added.fs /\ file = node.ret
      BY <1>3, <2>4
    <3> HIDE DEF t, file
    <3> QED BY <1>3, <2>1, <2>4, <3>1
  <2> QED BY <2>2, <2>3, <2>4
<1> QED BY <1>6, <1>7 DEF OK

(* What was stored is a good state. *)
LEMMA StoredGood ==
    ASSUME NEW s, Good(s), NEW t, NEW text, Stored(s, t, text)
    PROVE  Good(t)
BY DEF Stored, Abandoned, Loose, Grown

-------------------------------------------------------------------------------
(* The theorems. *)

(* The inductive invariant: the types, the tree, the pool, the buffers. *)
Sound(s) == Good(s) /\ Filed(s)

Inv == Sound(fs)

(* Every command keeps the invariant. *)
LEMMA CommandSound ==
    ASSUME Sound(fs), Command
    PROVE  Sound(fs')
<1> USE DEF Sound
<1>0. Good(fs) /\ Filed(fs)
  OBVIOUS
<1>1. ASSUME NEW a \in Arg, NEW type \in {REGULAR, DIRECTORY}
      PROVE  Sound(create_here(fs, a, type).fs)
  <2> DEFINE r == create_here(fs, a, type)
             c == Len(fs.heap) + 1
  <2>1. /\ \/ r = Outcome(fs, FALSE)
           \/ Abandoned(fs, r.fs, c, type)
           \/ Grown(fs, r.fs, fs.current_dir, c, type)
        /\ Filed(r.fs)
    BY CreateHereShape
  <2> HIDE DEF r
  <2> QED BY <2>1 DEF Outcome, Abandoned, Loose, Grown, r
<1>2. ASSUME NEW a \in Arg, Mkdir(a) PROVE Sound(fs')
  <2>1. cmd_mkdir(fs, a).fs \in {fs, create_here(fs, a, DIRECTORY).fs}
    BY DEF cmd_mkdir, Outcome
  <2> QED BY <1>1, <1>2, <2>1 DEF Mkdir
<1>3. ASSUME NEW a \in Arg, Touch(a) PROVE Sound(fs')
  <2>1. cmd_touch(fs, a).fs \in {fs, create_here(fs, a, REGULAR).fs}
    BY DEF cmd_touch, Outcome
  <2> QED BY <1>1, <1>3, <2>1 DEF Touch
<1>4. ASSUME NEW a \in Arg, Rmdir(a) PROVE Sound(fs')
  BY <1>4, RemovalGood DEF Rmdir
<1>5. ASSUME NEW a \in Arg, Rm(a) PROVE Sound(fs')
  BY <1>5, RemovalGood DEF Rm
<1>6. ASSUME NEW a \in Arg, Cd(a) PROVE Sound(fs')
  BY <1>6, CdGood DEF Cd
<1>7. ASSUME NEW a \in Arg, NEW b \in Arg, Cp(a, b) PROVE Sound(fs')
  <2>1. Good(fs_copy_file(fs, a, b).fs) /\ Filed(fs_copy_file(fs, a, b).fs)
    BY ArgString, CopyGood, CopyShape
  <2> QED BY <1>7, <2>1 DEF Cp, cmd_cp, Outcome
<1>8. ASSUME NEW a \in Arg, NEW b \in Arg, Mv(a, b) PROVE Sound(fs')
  <2>1. Good(fs_move_file(fs, a, b).fs) /\ Filed(fs_move_file(fs, a, b).fs)
    BY ArgString, MoveGood
  <2> QED BY <1>8, <2>1 DEF Mv, cmd_mv, Outcome
<1>9. ASSUME NEW a \in Arg, NEW t \in Text, Write(a, t) PROVE Sound(fs')
  BY <1>9, StoreShape, StoredGood DEF Write
<1>10. ASSUME NEW a \in Arg, NEW t \in Text, Save(a, t) PROVE Sound(fs')
  BY <1>10, StoreShape, StoredGood DEF Save
<1> QED BY <1>2, <1>3, <1>4, <1>5, <1>6, <1>7, <1>8, <1>9, <1>10 DEF Command

(* The inductive invariant holds in every state the shell can reach. *)
THEOREM AlwaysSound == Spec => []Inv
<1>1. Init => Inv
  BY InitGood DEF Init, Inv, Sound
<1>2. Inv /\ [Next]_fs => Inv'
  <2> SUFFICES ASSUME Inv, [Next]_fs PROVE Inv'
    OBVIOUS
  <2>1. CASE Next
    BY <2>1, CommandSound DEF Inv, Next
  <2>2. CASE UNCHANGED fs
    BY <2>2 DEF Inv
  <2> QED BY <2>1, <2>2
<1> QED BY <1>1, <1>2, PTL DEF Spec

(* No command leaves the state of fs_init's types: pointers lead to nodes, *)
(* counters are size_t values, sizes fit the buffer.                       *)
THEOREM TypeCorrect == Spec => []TypeOK
<1>1. Inv => TypeOK
  BY DEF Inv, Sound, Good, TypeOK
<1> QED BY <1>1, AlwaysSound, PTL

(* Whatever is created, copied, moved, unlinked or abandoned, the nodes    *)
(* form a tree with unique names in every directory.                       *)
THEOREM TreeKept == Spec => []TreeShape
<1>1. Inv => TreeShape
  BY DEF Inv, Sound, Good, TreeShape
<1> QED BY <1>1, AlwaysSound, PTL

(* The pool is accounted for to the byte, whichever step failed. *)
THEOREM PoolAccounted == Spec => []MemoryExact
<1>1. Inv => MemoryExact
  BY DEF Inv, Sound, Filed, Exact, Buffers, MemoryExact
<1> QED BY <1>1, AlwaysSound, PTL

(* The characters fs_read_file hands out go at least as far as size. *)
LEMMA ReadReachesSize ==
    ASSUME NEW s, Good(s), Ended(s), NEW n \in Nodes(s), HasData(s, n)
    PROVE  /\ s.heap[n].data[MAX_FILE_SIZE] = NUL
           /\ Len(fs_read_file(s, n)) >= s.heap[n].size
<1> DEFINE data == s.heap[n].data
           size == s.heap[n].size
           T == {i \in DOMAIN data : data[i] = NUL} \cup {Len(data) + 1}
<1>1. n \in Buffers(s)
  BY DEF Buffers, HasData
<1>2. data[MAX_FILE_SIZE] = NUL /\ size < MAX_FILE_SIZE /\ \A i \in 1..size : data[i] # NUL
  BY <1>1 DEF Ended
<1>3. MAX_FILE_SIZE \in Nat
  BY SizesAssumption
<1>4. size \in Nat
  BY Types DEF Good, fs_node_t
<1>5. data \in Buffer
  <2>1. s.heap[n] \in fs_node_t
    BY Types DEF Good
  <2>2. data \in Buffer \cup {NODATA}
    BY <2>1 DEF fs_node_t
  <2> QED BY <2>2 DEF HasData
<1>6. /\ data \in Seq(Char \cup {NUL}) /\ DOMAIN data = 1..MAX_FILE_SIZE
      /\ Len(data) = MAX_FILE_SIZE
  BY <1>3, <1>5 DEF Buffer
<1>7. fs_read_file(s, n) = SubSeq(data, 1, Min(T) - 1)
  BY DEF fs_read_file
<1> HIDE DEF data, size
<1>8. T \in SUBSET Nat /\ T # {} /\ \A i \in T : i > size /\ i <= MAX_FILE_SIZE + 1
  BY <1>2, <1>3, <1>4, <1>6
<1>9. Min(T) \in T
  BY <1>8, MinNat
<1> HIDE DEF T
<1>10. Min(T) \in Nat /\ Min(T) > size /\ Min(T) <= MAX_FILE_SIZE + 1
  BY <1>8, <1>9
<1>11. Len(SubSeq(data, 1, Min(T) - 1)) = Min(T) - 1
  BY <1>3, <1>4, <1>6, <1>10
<1> QED BY <1>2, <1>4, <1>7, <1>10, <1>11 DEF data, size

(* Whatever sequence of writes, copies and saves filled a buffer, cat      *)
(* stops inside it and no sooner than its size.                            *)
THEOREM ReadStopsInBuffer == Spec => []ReadEndsInBuffer
<1>1. Inv => ReadEndsInBuffer
  BY ReadReachesSize DEF Inv, Sound, Filed, ReadEndsInBuffer
<1> QED BY <1>1, AlwaysSound, PTL

(* An error leaves every node that existed as it was: mkdir and touch. *)
LEMMA CreateFailure ==
    ASSUME NEW s, Good(s), NEW a \in Arg, NEW type \in {REGULAR, DIRECTORY},
           ~create_here(s, a, type).ok
    PROVE  SubSeq(create_here(s, a, type).fs.heap, 1, Len(s.heap)) = s.heap
<1> DEFINE r == create_here(s, a, type)
           c == Len(s.heap) + 1
<1>1. \/ r = Outcome(s, FALSE)
      \/ Abandoned(s, r.fs, c, type)
      \/ r.ok = TRUE
  BY CreateHereShape
<1> HIDE DEF r
<1>2. CASE r = Outcome(s, FALSE)
  <2>1. r.fs = s
    BY <1>2 DEF Outcome
  <2> QED BY <2>1, SamePrefix DEF r
<1>3. CASE Abandoned(s, r.fs, c, type)
  BY <1>3, LoosePrefix DEF Abandoned, r
<1>4. CASE r.ok = TRUE
  BY <1>4 DEF r
<1> QED BY <1>1, <1>2, <1>3, <1>4

(* The same for cp and mv. *)
LEMMA CopyFailure ==
    ASSUME NEW s, Good(s), NEW p \in Arg, NEW q \in Arg
    PROVE  /\ ~cmd_cp(s, p, q).ok =>
                SubSeq(cmd_cp(s, p, q).fs.heap, 1, Len(s.heap)) = s.heap
           /\ ~cmd_mv(s, p, q).ok =>
                SubSeq(cmd_mv(s, p, q).fs.heap, 1, Len(s.heap)) = s.heap
<1> DEFINE c == Len(s.heap) + 1
           OK(r) == r.ret # 0 => SubSeq(r.fs.heap, 1, Len(s.heap)) = s.heap
<1>1. OK(fs_copy_file(s, p, q))
  <2> DEFINE r == fs_copy_file(s, p, q)
  <2>1. r = Result(s, -1) \/ Loose(s, r.fs, c, REGULAR) \/ r.ret = 0
    BY ArgString, CopyShape
  <2> HIDE DEF r
  <2>2. r = Result(s, -1) => r.fs = s
    BY DEF Result
  <2>3. OK(r)
    BY <2>1, <2>2, SamePrefix, LoosePrefix
  <2> QED BY <2>3 DEF r
<1>2. OK(fs_move_file(s, p, q))
  <2> DEFINE r == fs_move_file(s, p, q)
             u == fs_delete_node(fs_copy_file(s, p, q).fs, fs_resolve_path(s, p)).fs
  <2>1. r = Result(s, -1) \/ Loose(s, r.fs, c, REGULAR) \/ r = Result(u, 0)
    BY ArgString, MoveShape
  <2> HIDE DEF r, u
  <2>2. r = Result(s, -1) => r.fs = s
    BY DEF Result
  <2>3. r = Result(u, 0) => r.ret = 0
    BY DEF Result
  <2>4. OK(r)
    BY <2>1, <2>2, <2>3, SamePrefix, LoosePrefix
  <2> QED BY <2>4 DEF r
<1> QED BY <1>1, <1>2 DEF cmd_cp, cmd_mv, Outcome

(* A mkdir, touch, cp or mv that reports an error changed no node that     *)
(* existed before it, whichever of its steps it was that failed.           *)
THEOREM FailureHarmless == Spec => []FailureLeavesTree
<1>1. Inv => FailureLeavesTree
  <2> SUFFICES ASSUME Good(fs), NEW p \in Arg, NEW q \in Arg
               PROVE  \A r \in {cmd_mkdir(fs, p), cmd_touch(fs, p),
                                 cmd_cp(fs, p, q), cmd_mv(fs, p, q)} :
                        ~r.ok => SubSeq(r.fs.heap, 1, Len(fs.heap)) = fs.heap
    BY DEF Inv, Sound, FailureLeavesTree
  <2> DEFINE OK(r) == ~r.ok => SubSeq(r.fs.heap, 1, Len(fs.heap)) = fs.heap
  <2>1. OK(cmd_mkdir(fs, p)) /\ OK(cmd_touch(fs, p))
    <3>1. OK(create_here(fs, p, DIRECTORY)) /\ OK(create_here(fs, p, REGULAR))
      BY CreateFailure
    <3>2. OK(Outcome(fs, FALSE)) /\ OK(Outcome(fs, TRUE))
      BY SamePrefix DEF Outcome
    <3> HIDE DEF OK
    <3> QED BY <3>1, <3>2 DEF cmd_mkdir, cmd_touch
  <2>2. OK(cmd_cp(fs, p, q)) /\ OK(cmd_mv(fs, p, q))
    BY CopyFailure
  <2> QED BY <2>1, <2>2
<1> QED BY <1>1, AlwaysSound, PTL

-------------------------------------------------------------------------------
(* What a command links and unlinks. *)

(* The shift takes out the one entry it is meant to. *)
LEMMA ShiftOutSet ==
    ASSUME NEW S, NEW e \in Seq(S), NEW k \in 1..Len(e),
           \A i, j \in 1..Len(e) : e[i] = e[j] => i = j
    PROVE  ToSet(ShiftOut(e, k)) = ToSet(e) \ {e[k]}
<1> DEFINE f == ShiftOut(e, k)
<1>1. Len(e) \in Nat /\ DOMAIN e = 1..Len(e) /\ k \in Nat /\ DOMAIN f = 1..(Len(e) - 1)
  BY DEF ShiftOut
<1>2. \A j \in 1..(Len(e) - 1) : f[j] = IF j < k THEN e[j] ELSE e[j + 1]
  BY DEF ShiftOut
<1> HIDE DEF f
<1>3. ASSUME NEW j \in 1..(Len(e) - 1) PROVE f[j] \in ToSet(e) \ {e[k]}
  <2>1. PICK i \in 1..Len(e) : f[j] = e[i] /\ i # k
    BY <1>1, <1>2
  <2> QED BY <1>1, <2>1 DEF ToSet
<1>4. ASSUME NEW i \in 1..Len(e), e[i] # e[k] PROVE \E j \in 1..(Len(e) - 1) : f[j] = e[i]
  <2>1. CASE i < k
    <3>1. i \in 1..(Len(e) - 1) /\ f[i] = e[i]
      BY <1>1, <1>2, <2>1
    <3> QED BY <3>1
  <2>2. CASE i > k
    <3>1. i - 1 \in 1..(Len(e) - 1) /\ f[i - 1] = e[i]
      <4>1. i - 1 \in 1..(Len(e) - 1) /\ ~(i - 1 < k) /\ (i - 1) + 1 = i
        BY <1>1, <2>2
      <4> QED BY <1>2, <4>1
    <3> QED BY <3>1
  <2>3. i # k
    BY <1>4
  <2> QED BY <1>1, <2>1, <2>2, <2>3
<1>5. ToSet(f) = {f[j] : j \in 1..(Len(e) - 1)} /\ ToSet(e) = {e[j] : j \in 1..Len(e)}
  BY <1>1 DEF ToSet
<1>6. ToSet(f) \subseteq ToSet(e) \ {e[k]}
  BY <1>3, <1>5
<1>7. ASSUME NEW y \in ToSet(e), y # e[k] PROVE y \in ToSet(f)
  <2>1. PICK i \in 1..Len(e) : y = e[i]
    BY <1>5
  <2>2. \E j \in 1..(Len(e) - 1) : f[j] = e[i]
    BY <1>4, <1>7, <2>1
  <2> QED BY <1>5, <2>1, <2>2
<1> QED BY <1>6, <1>7 DEF f

(* An entry shifted out of its directory is linked no longer, and every    *)
(* other node is linked as before.                                         *)
LEMMA DropUnlinks ==
    ASSUME NEW s, Good(s), NEW t, NEW d \in Nodes(s), NEW k \in DOMAIN s.heap[d].children,
           Dropped(s, t, d, k)
    PROVE  /\ s.heap[d].children[k] \in LinkedNodes(s)
           /\ LinkedNodes(t) = LinkedNodes(s) \ {s.heap[d].children[k]}
<1> DEFINE e == s.heap[d].children
           x == e[k]
<1>1. e \in Seq(Nodes(s)) /\ DOMAIN e = 1..Len(e) /\ x \in Nodes(s)
  BY Types DEF Good, WellTyped
<1>2. x # ROOT /\ s.heap[x].parent = d /\ d # NULL
  BY Types DEF Good, ChildrenLinked
<1>3. \A i, j \in 1..Len(e) : e[i] = e[j] => i = j
  BY <1>1 DEF Good, NamesUnique
<1> HIDE DEF e
<1>4. ToSet(ShiftOut(e, k)) = ToSet(e) \ {x}
  BY <1>1, <1>3, ShiftOutSet DEF e
<1>5. x \in ToSet(e)
  BY <1>1 DEF ToSet, e
<1> HIDE DEF x
<1>6. Nodes(t) = Nodes(s)
  BY DEF Dropped
<1>7. ASSUME NEW m \in Nodes(s) PROVE Linked(t, m) <=> Linked(s, m) /\ m # x
  <2> DEFINE p == s.heap[m].parent
  <2>1. t.heap[m].parent = p /\ p \in Nodes(s) \cup {NULL}
    BY DEF Dropped, Good, WellTyped
  <2>2. p # NULL =>
          t.heap[p].children = IF p = d THEN ShiftOut(e, k) ELSE s.heap[p].children
    BY <2>1 DEF Dropped, e
  <2>3. m = x => p = d
    BY <1>2
  <2>4. Linked(s, m) <=> (m = ROOT \/ (p # NULL /\ m \in ToSet(s.heap[p].children)))
    BY DEF Linked
  <2>5. Linked(t, m) <=> (m = ROOT \/ (p # NULL /\ m \in ToSet(t.heap[p].children)))
    BY <2>1 DEF Linked
  <2>6. CASE p = d
    <3>1. t.heap[p].children = ShiftOut(e, k) /\ s.heap[p].children = e /\ p # NULL
      BY <1>2, <2>2, <2>6 DEF e
    <3> QED BY <1>2, <1>4, <2>4, <2>5, <3>1
  <2>7. CASE p # d
    BY <1>2, <2>2, <2>3, <2>4, <2>5, <2>7
  <2> QED BY <2>6, <2>7
<1>8. Linked(s, x)
  BY <1>2, <1>5 DEF Linked, e
<1> QED BY <1>1, <1>6, <1>7, <1>8 DEF LinkedNodes, x, e

(* A new entry is linked, and every other node is linked as before. *)
LEMMA GrownLinks ==
    ASSUME NEW s, Good(s), NEW t, NEW d, NEW c, NEW type, Grown(s, t, d, c, type)
    PROVE  LinkedNodes(t) = LinkedNodes(s) \cup {c}
<1> DEFINE e == s.heap[d].children
<1>1. d \in Nodes(s) /\ d # NULL
  BY Types DEF Grown, Attached, Good
<1>2. e \in Seq(Nodes(s))
  BY <1>1 DEF Good, WellTyped
<1>3. t.heap[d].children = Append(e, c) /\ t.heap[c].parent = d
  BY <1>1 DEF Grown
<1> HIDE DEF e
<1>4. ToSet(Append(e, c)) = ToSet(e) \cup {c}
  <2>1. e \in Seq(Nodes(s) \cup {c})
    BY <1>2, SeqMonotonic
  <2>2. Len(e) \in Nat /\ DOMAIN e = 1..Len(e) /\ DOMAIN Append(e, c) = 1..(Len(e) + 1)
    BY <2>1
  <2>3. \A i \in 1..(Len(e) + 1) : Append(e, c)[i] = IF i <= Len(e) THEN e[i] ELSE c
    BY <2>1
  <2>4. ToSet(e) = {e[i] : i \in 1..Len(e)}
    BY <2>2 DEF ToSet
  <2>5. ToSet(Append(e, c)) = {Append(e, c)[i] : i \in 1..(Len(e) + 1)}
    BY <2>2 DEF ToSet
  <2>6. \A x : x \in ToSet(Append(e, c)) => x \in ToSet(e) \cup {c}
    BY <2>2, <2>3, <2>4, <2>5
  <2>7. \A i \in 1..Len(e) : i \in 1..(Len(e) + 1) /\ Append(e, c)[i] = e[i]
    BY <2>2, <2>3
  <2>8. Len(e) + 1 \in 1..(Len(e) + 1) /\ Append(e, c)[Len(e) + 1] = c
    BY <2>2, <2>3
  <2> QED BY <2>4, <2>5, <2>6, <2>7, <2>8
<1>5. c \notin Nodes(s) /\ Nodes(t) = Nodes(s) \cup {c}
  BY DEF Grown
<1>6. Linked(t, c)
  BY <1>1, <1>3, <1>4 DEF Linked
<1>7. ASSUME NEW m \in Nodes(s) PROVE Linked(t, m) <=> Linked(s, m)
  <2> DEFINE p == s.heap[m].parent
  <2>1. t.heap[m].parent = p /\ p \in Nodes(s) \cup {NULL}
    BY DEF Grown, Good, WellTyped
  <2>2. p # NULL =>
          t.heap[p].children = IF p = d THEN Append(e, c) ELSE s.heap[p].children
    BY <2>1 DEF Grown, e
  <2>3. m # c
    BY <1>5
  <2>4. Linked(s, m) <=> (m = ROOT \/ (p # NULL /\ m \in ToSet(s.heap[p].children)))
    BY DEF Linked
  <2>5. Linked(t, m) <=> (m = ROOT \/ (p # NULL /\ m \in ToSet(t.heap[p].children)))
    BY <2>1 DEF Linked
  <2>6. CASE p = d
    <3>1. t.heap[p].children = Append(e, c) /\ s.heap[p].children = e
      BY <1>1, <2>2, <2>6 DEF e
    <3> QED BY <1>4, <2>3, <2>4, <2>5, <3>1
  <2>7. CASE p # d
    BY <2>2, <2>4, <2>5, <2>7
  <2> QED BY <2>6, <2>7
<1> QED BY <1>5, <1>6, <1>7 DEF LinkedNodes

(* A file that a path leads to is linked. *)
LEMMA FileLinked ==
    ASSUME NEW s, Good(s), NEW path \in String, path # << >>,
           fs_resolve_path(s, path) # NULL, ~IsDirectory(s, fs_resolve_path(s, path))
    PROVE  Linked(s, fs_resolve_path(s, path))
<1> DEFINE P == {m \in Attached(s) : s.heap[m].type = DIRECTORY \/ Linked(s, m)}
<1>1. ROOT \in P /\ s.current_dir \in P
  BY RootAttached DEF Good, AnchoredDirs
<1>2. ASSUME NEW m \in P PROVE s.heap[m].parent \in P
  <2>1. s.heap[m].parent \in Attached(s)
    BY UpAttached
  <2>2. s.heap[s.heap[m].parent].type = DIRECTORY
    <3>1. CASE m = ROOT
      BY <3>1 DEF Good, AnchoredDirs
    <3>2. CASE m # ROOT
      BY <3>2 DEF Good, ParentsOlder, Attached
    <3> QED BY <3>1, <3>2
  <2> QED BY <2>1, <2>2
<1>3. ASSUME NEW m \in P, NEW i \in DOMAIN s.heap[m].children
      PROVE  s.heap[m].children[i] \in P
  <2> DEFINE x == s.heap[m].children[i]
  <2>1. m \in Nodes(s) /\ m # NULL /\ x \in Nodes(s)
    BY Types DEF Attached, Good
  <2>2. s.heap[x].parent = m
    BY <2>1 DEF Good, ChildrenLinked
  <2>3. x \in ToSet(s.heap[m].children)
    BY DEF ToSet
  <2> HIDE DEF x
  <2>4. x \in Attached(s) /\ Linked(s, x)
    BY <2>1, <2>2, <2>3 DEF Attached, Linked
  <2> QED BY <2>4 DEF x
<1>4. Closed(s, P)
  BY <1>2, <1>3 DEF Closed
<1> HIDE DEF P
<1>5. fs_resolve_path(s, path) \in P
  BY <1>1, <1>4, ResolveClosed
<1> QED BY <1>5 DEF P, IsDirectory

(* fs_delete_node unlinks the file it is given, no other. *)
LEMMA DeleteUnlinks ==
    ASSUME NEW s, Good(s), NEW n \in Nodes(s), Linked(s, n), n # ROOT,
           ~(IsDirectory(s, n) /\ s.heap[n].children # << >>)
    PROVE  LET t == fs_delete_node(s, n).fs
               d == s.heap[n].parent
               u == fs_remove_child(s, d, s.heap[n].name).fs
           IN  /\ t.heap = u.heap
               /\ t.total_files = (s.total_files + SIZE_RANGE - 1) % SIZE_RANGE
               /\ d \in Attached(s)
               /\ \E k \in DOMAIN s.heap[d].children :
                    s.heap[d].children[k] = n /\ Dropped(s, u, d, k)
               /\ LinkedNodes(u) = LinkedNodes(s) \ {n}
               /\ LinkedNodes(t) = LinkedNodes(s) \ {n}
<1> DEFINE t == fs_delete_node(s, n).fs
           d == s.heap[n].parent
           name == s.heap[n].name
           u == fs_remove_child(s, d, name).fs
           M == Matches(s, d, name)
           k == Min(M)
<1>1. d # NULL /\ n \in ToSet(s.heap[d].children)
  BY DEF Linked
<1>2. d \in Nodes(s) /\ n \in Attached(s)
  BY <1>1 DEF Good, WellTyped, Attached
<1>3. d \in Attached(s)
  BY <1>2, UpAttached
<1>4. PICK i \in DOMAIN s.heap[d].children : s.heap[d].children[i] = n
  BY <1>1 DEF ToSet
<1>5. IsDirectory(s, d)
  BY <1>1, <1>2, <1>4 DEF Good, ChildrenLinked, IsDirectory
<1>6. M # {} /\ M \in SUBSET Nat
  <2>1. i \in M
    BY <1>4 DEF Matches
  <2> QED BY <1>2, <2>1, MatchesNat DEF Good
<1>7. k \in DOMAIN s.heap[d].children
  <2>1. k \in M
    BY <1>6, MinNat
  <2> QED BY <2>1 DEF Matches
<1>8. s.heap[d].children[k] = n
  <2>1. fs_find_child(s, d, name) = n
    BY <1>2, <1>4, FindUnique
  <2>2. fs_find_child(s, d, name) = s.heap[d].children[k]
    BY <1>5, <1>6 DEF fs_find_child
  <2> QED BY <2>1, <2>2
<1>9. Dropped(s, u, d, k)
  BY <1>2, <1>5, <1>6, RemoveGood
<1>10. n # NULL
  BY Types DEF Good
<1>11. t.heap = u.heap /\ t.total_files = (u.total_files + SIZE_RANGE - 1) % SIZE_RANGE
  BY <1>10, DeleteGood
<1>12. u.total_files = s.total_files
  BY <1>9 DEF Dropped
<1> HIDE DEF t, u, k
<1>13. LinkedNodes(u) = LinkedNodes(s) \ {n}
  BY <1>2, <1>7, <1>8, <1>9, DropUnlinks
<1>14. LinkedNodes(t) = LinkedNodes(u)
  BY <1>11 DEF LinkedNodes, Linked, Nodes
<1> HIDE DEF d
<1> QED BY <1>3, <1>7, <1>8, <1>9, <1>11, <1>12, <1>13, <1>14 DEF t, u, d, k

(* What a successful mv does. *)
LEMMA MoveMoves ==
    ASSUME NEW s, Good(s), Filed(s), NEW p \in Arg, NEW q \in Arg, cmd_mv(s, p, q).ok
    PROVE  LET t == cmd_mv(s, p, q).fs
               src == fs_resolve_path(s, p)
               new == Len(s.heap) + 1
           IN  /\ LinkedNodes(t) = (LinkedNodes(s) \ {src}) \cup {new}
               /\ SameText(s, src, t, new)
<1> DEFINE r == fs_move_file(s, p, q)
           copied == fs_copy_file(s, p, q).fs
           src == fs_resolve_path(s, p)
           dir == fs_resolve_path(s, fs_get_parent_path(q))
           c == Len(s.heap) + 1
           d == copied.heap[src].parent
           u == fs_remove_child(copied, d, copied.heap[src].name).fs
<1>1. r.ret = 0 /\ cmd_mv(s, p, q).fs = r.fs
  BY DEF cmd_mv, Outcome
<1>2. /\ r = Result(fs_delete_node(copied, src).fs, 0)
      /\ Grown(s, copied, dir, c, REGULAR)
      /\ src \in Attached(s) /\ ~IsDirectory(s, src)
      /\ SameText(s, src, copied, c)
  <2>1. \/ r = Result(s, -1)
        \/ r.ret = -1
        \/ /\ r = Result(fs_delete_node(copied, src).fs, 0)
           /\ Grown(s, copied, dir, c, REGULAR)
           /\ src \in Attached(s) /\ ~IsDirectory(s, src)
           /\ SameText(s, src, copied, c)
    BY ArgString, MoveShape
  <2>2. r = Result(s, -1) => r.ret = -1
    BY DEF Result
  <2>3. r.ret # -1
    BY <1>1
  <2> HIDE DEF r
  <2> QED BY <2>1, <2>2, <2>3
<1>3. r.fs = fs_delete_node(copied, src).fs
  BY <1>2 DEF Result
<1>4. src \in Nodes(s) /\ src # NULL
  BY <1>2, Types DEF Attached, Good
<1>5. Linked(s, src)
  BY <1>2, <1>4, ArgString, FileLinked
<1> HIDE DEF r, copied, src, dir, c
<1>6. LinkedNodes(copied) = LinkedNodes(s) \cup {c} /\ Good(copied) /\ c \notin Nodes(s)
  BY <1>2, GrownLinks DEF Grown
<1>7. src \in Nodes(copied) /\ Linked(copied, src) /\ src # c
  BY <1>4, <1>5, <1>6 DEF LinkedNodes
<1>8. ~IsDirectory(copied, src) /\ src # ROOT
  BY <1>2, <1>4 DEF Grown, IsDirectory, Good, AnchoredDirs
<1>9. /\ LinkedNodes(r.fs) = LinkedNodes(copied) \ {src}
      /\ r.fs.heap = u.heap
      /\ \E k \in DOMAIN copied.heap[d].children : Dropped(copied, u, d, k)
  BY <1>3, <1>6, <1>7, <1>8, DeleteUnlinks
<1>10. LinkedNodes(r.fs) = (LinkedNodes(s) \ {src}) \cup {c}
  BY <1>6, <1>7, <1>9
<1>11. r.fs.heap[c].size = copied.heap[c].size /\ r.fs.heap[c].data = copied.heap[c].data
  <2>1. c \in Nodes(copied)
    BY <1>2 DEF Grown
  <2> HIDE DEF u, d
  <2> QED BY <1>9, <2>1 DEF Dropped
<1>12. SameText(s, src, r.fs, c)
  BY <1>2, <1>11 DEF SameText
<1> QED BY <1>1, <1>10, <1>12 DEF src, c

(* A mv that reports success has unlinked the file it copied and no other  *)
(* node, and what it copied has the text of the file.                      *)
THEOREM MoveMovesText == Spec => []MoveKeepsText
<1>1. Inv => MoveKeepsText
  <2> SUFFICES ASSUME Good(fs), Filed(fs), NEW p \in Arg, NEW q \in Arg, NEW r,
                      r = cmd_mv(fs, p, q), r.ok
               PROVE  LET src == fs_resolve_path(fs, p)
                          new == Len(fs.heap) + 1
                      IN  /\ {n \in Nodes(r.fs) : Linked(r.fs, n)} =
                               ({n \in Nodes(fs) : Linked(fs, n)} \ {src}) \cup {new}
                          /\ HasData(r.fs, new) =>
                               /\ r.fs.heap[new].size = fs.heap[src].size
                               /\ \A i \in 1..fs.heap[src].size :
                                    r.fs.heap[new].data[i] = fs.heap[src].data[i]
    BY DEF Inv, Sound, MoveKeepsText
  <2> DEFINE src == fs_resolve_path(fs, p)
             new == Len(fs.heap) + 1
  <2>1. /\ LinkedNodes(r.fs) = (LinkedNodes(fs) \ {src}) \cup {new}
        /\ SameText(fs, src, r.fs, new)
    BY MoveMoves
  <2> HIDE DEF src, new
  <2> QED BY <2>1 DEF LinkedNodes, SameText, HasData, src, new
<1> QED BY <1>1, AlwaysSound, PTL

-------------------------------------------------------------------------------
(* What one command can do to the tree. *)

(* The k-th entry of d is shifted out of the heap. *)
Shifted(s, t, d, k) == \E u : Dropped(s, u, d, k) /\ t.heap = u.heap

(* rm or rmdir of n: an entry that has n's name leaves n's directory, if   *)
(* there is one, and the file is counted out.                              *)
Taken(s, t, n) ==
    LET d == s.heap[n].parent
    IN  /\ Good(t)
        /\ t.current_dir = s.current_dir
        /\ t.total_files = (s.total_files + SIZE_RANGE - 1) % SIZE_RANGE
        /\ n # ROOT /\ d \in Attached(s) /\ s.heap[d].type = DIRECTORY
        /\ \/ t.heap = s.heap /\ Matches(s, d, s.heap[n].name) = {}
           \/ \E k \in Matches(s, d, s.heap[n].name) : Shifted(s, t, d, k)

(* rm and rmdir: what fs_delete_node looks for is gone already. *)
LEMMA UnlinkShape ==
    ASSUME NEW s, Good(s), NEW n \in Attached(s),
           ~(IsDirectory(s, n) /\ s.heap[n].children # << >>)
    PROVE  unlink(s, n) = s \/ Taken(s, unlink(s, n), n)
<1> DEFINE d == s.heap[n].parent
           name == s.heap[n].name
           M == Matches(s, d, name)
           k == Min(M)
           u == fs_remove_child(s, d, name).fs
           t == fs_delete_node(u, n).fs
<1>1. d \in Attached(s) /\ d \in Nodes(s) /\ n \in Nodes(s) /\ n # NULL /\ d # NULL
  BY UpAttached, Types DEF Attached, Good
<1>2. s.heap[d].type = DIRECTORY
  BY <1>1 DEF Good, AnchoredDirs, ParentsOlder
<1>3. Good(u) /\ (IF M # {} THEN Dropped(s, u, d, k) ELSE u = s)
  <2>1. IsDirectory(s, d)
    BY <1>1, <1>2 DEF IsDirectory
  <2> QED BY <1>1, <2>1, RemoveGood
<1>4. unlink(s, n) = t
  BY DEF unlink
<1>5. CASE n = ROOT
  <2>1. IsDirectory(s, n)
    BY <1>1, <1>5 DEF Good, AnchoredDirs, IsDirectory
  <2>2. d = n /\ s.heap[n].children = << >>
    BY <1>5, <2>1 DEF Good, AnchoredDirs
  <2>3. M = {}
    BY <2>2 DEF Matches
  <2>4. t = s
    BY <1>1, <1>3, <1>5, <2>3, DeleteGood
  <2> QED BY <1>4, <2>4
<1>6. CASE n # ROOT
  <2>1. d # n
    BY <1>1, <1>6, Types DEF Good, ParentsOlder
  <2>2. M \in SUBSET Nat /\ (M # {} => k \in M)
    BY <1>1, MatchesNat, MinNat DEF Good
  <2>3. M # {} => k \in DOMAIN s.heap[d].children
    BY <2>2 DEF Matches
  <2> HIDE DEF k, M
  <2>4. /\ u.current_dir = s.current_dir /\ u.total_files = s.total_files
        /\ Nodes(u) = Nodes(s)
        /\ u.heap[n].parent = d /\ u.heap[n].name = name /\ u.heap[n].type = s.heap[n].type
        /\ u.heap[n].children = s.heap[n].children
    BY <1>1, <1>3, <2>1 DEF Dropped
  <2>5. Matches(u, d, name) = {}
    <3>1. CASE M = {}
      BY <1>3, <3>1 DEF M
    <3>2. CASE M # {}
      <4> DEFINE e == s.heap[d].children
      <4>1. u.heap[d].children = ShiftOut(e, k)
        BY <1>1, <1>3, <3>2 DEF Dropped
      <4>2. e \in Seq(Nodes(s)) /\ DOMAIN e = 1..Len(e)
        BY <1>1, Types DEF Good, WellTyped
      <4>3. k \in 1..Len(e) /\ s.heap[e[k]].name = name
        <5>1. k \in M
          BY <2>2, <3>2
        <5> QED BY <4>2, <5>1 DEF M, Matches
      <4>4. \A i, j \in 1..Len(e) : s.heap[e[i]].name = s.heap[e[j]].name => i = j
        BY <1>1, <4>2 DEF Good, NamesUnique
      <4>5. \A m \in Nodes(s) : u.heap[m].name = s.heap[m].name
        BY <1>3, <3>2 DEF Dropped
      <4> HIDE DEF e
      <4>6. ASSUME NEW j \in DOMAIN ShiftOut(e, k) PROVE u.heap[ShiftOut(e, k)[j]].name # name
        <5> DEFINE i == IF j < k THEN j ELSE j + 1
        <5>1. j \in Nat /\ i \in 1..Len(e) /\ ShiftOut(e, k)[j] = e[i]
          BY <4>2, <4>3, ShiftOutSeq
        <5>2. i # k /\ e[i] \in Nodes(s)
          BY <4>2, <4>3, <5>1
        <5> HIDE DEF i
        <5> QED BY <4>3, <4>4, <4>5, <5>1, <5>2
      <4> QED BY <4>1, <4>6 DEF Matches
    <3> QED BY <3>1, <3>2
  <2> HIDE DEF u
  <2>6. ~(IsDirectory(u, n) /\ u.heap[n].children # << >>)
    BY <2>4 DEF IsDirectory
  <2>7. fs_remove_child(u, d, name).fs = u
    BY <2>5 DEF fs_remove_child, Result
  <2>8. /\ Good(t) /\ t.current_dir = u.current_dir
        /\ t.heap = u.heap
        /\ t.total_files = (u.total_files + SIZE_RANGE - 1) % SIZE_RANGE
    <3>1. n \in Nodes(u)
      BY <1>1, <2>4
    <3>2. /\ Good(t) /\ SameLinks(u, t)
          /\ t.heap = fs_remove_child(u, u.heap[n].parent, u.heap[n].name).fs.heap
          /\ t.total_files = (fs_remove_child(u, u.heap[n].parent, u.heap[n].name).fs.total_files
                                + SIZE_RANGE - 1) % SIZE_RANGE
      BY <1>1, <1>3, <1>6, <2>6, <3>1, DeleteGood
    <3>3. fs_remove_child(u, u.heap[n].parent, u.heap[n].name).fs = u
      BY <2>4, <2>7
    <3> HIDE DEF t
    <3> QED BY <3>2, <3>3 DEF SameLinks
  <2> HIDE DEF t
  <2>9. \/ t.heap = s.heap /\ M = {}
        \/ \E j \in M : Shifted(s, t, d, j)
    BY <1>3, <2>2, <2>8 DEF Shifted
  <2>10. Taken(s, t, n)
    BY <1>1, <1>2, <1>6, <2>4, <2>8, <2>9 DEF Taken, M
  <2> QED BY <1>4, <2>10 DEF t
<1> QED BY <1>5, <1>6

(* A mv of src that succeeds: a new entry, then the old one taken out. *)
Renamed(s, t, src) ==
    \E u, dir, d, k :
        /\ Grown(s, u, dir, Len(s.heap) + 1, REGULAR)
        /\ src \in Attached(s) /\ ~IsDirectory(s, src) /\ Linked(s, src)
        /\ d = s.heap[src].parent /\ k \in DOMAIN u.heap[d].children
        /\ u.heap[d].children[k] = src
        /\ Shifted(u, t, d, k)
        /\ LinkedNodes(t) = (LinkedNodes(s) \ {src}) \cup {Len(s.heap) + 1}
        /\ t.total_files = (s.total_files + 1 + SIZE_RANGE - 1) % SIZE_RANGE
        /\ t.current_dir = s.current_dir

(* A new directory has the name that was typed. *)
Called(t, c, type) == type = REGULAR \/ \E a \in Arg : t.heap[c].name = Truncate(a)

(* What a command can do: nothing to the tree, abandon a node, enter a new *)
(* one (a directory only in the current directory), write a file, take an  *)
(* entry out, or both of these for a mv.                                   *)
Step(s, t) ==
    /\ Good(t)
    /\ \/ /\ Moved(s, t)
          /\ \/ t.current_dir = s.current_dir
             \/ \E a \in Arg : t.current_dir = fs_resolve_path(s, a)
       \/ \E type : /\ Abandoned(s, t, Len(s.heap) + 1, type)
                    /\ Called(t, Len(s.heap) + 1, type)
       \/ \E dir, type : /\ Grown(s, t, dir, Len(s.heap) + 1, type)
                         /\ type = REGULAR \/ dir = s.current_dir
                         /\ Called(t, Len(s.heap) + 1, type)
       \/ \E n \in Nodes(s) : \E text : HasData(s, n) /\ Written(s, t, n, text)
       \/ \E a \in Arg : LET n == fs_resolve_path(s, a)
                          IN  /\ n \in Attached(s)
                              /\ ~(IsDirectory(s, n) /\ s.heap[n].children # << >>)
                              /\ Taken(s, t, n)
       \/ \E a \in Arg : Renamed(s, t, fs_resolve_path(s, a))

(* rm and rmdir. *)
LEMMA RemovalStep ==
    ASSUME NEW s, Good(s), NEW a \in Arg
    PROVE  Step(s, cmd_rmdir(s, a).fs) /\ Step(s, cmd_rm(s, a).fs)
<1> DEFINE n == fs_resolve_path(s, a)
<1>1. n \in Attached(s) \cup {NULL}
  BY ArgString, ResolveAttached
<1>2. Step(s, s)
  BY DEF Step, Moved
<1>3. n # NULL /\ ~(IsDirectory(s, n) /\ s.heap[n].children # << >>) => Step(s, unlink(s, n))
  <2> SUFFICES ASSUME n # NULL, ~(IsDirectory(s, n) /\ s.heap[n].children # << >>)
               PROVE  Step(s, unlink(s, n))
    OBVIOUS
  <2>1. n \in Attached(s)
    BY <1>1
  <2>2. CASE unlink(s, n) = s
    BY <1>2, <2>2
  <2>3. CASE Taken(s, unlink(s, n), n)
    <3> DEFINE t == unlink(s, n)
    <3>1. Good(t)
      BY <2>3 DEF Taken
    <3> HIDE DEF t
    <3> QED BY <2>1, <2>3, <3>1 DEF Step, t
  <2> HIDE DEF n
  <2> QED BY <2>1, <2>2, <2>3, UnlinkShape
<1>4. cmd_rmdir(s, a).fs = IF ~IsDirectory(s, n) \/ s.heap[n].children # << >>
                           THEN s ELSE unlink(s, n)
  BY DEF cmd_rmdir, Outcome
<1>5. cmd_rm(s, a).fs = IF n = NULL \/ IsDirectory(s, n) THEN s ELSE unlink(s, n)
  BY DEF cmd_rm, Outcome
<1>6. IsDirectory(s, n) => n # NULL
  BY DEF IsDirectory
<1> HIDE DEF n
<1> QED BY <1>2, <1>3, <1>4, <1>5, <1>6

(* cp and mv. *)
LEMMA CopyStep ==
    ASSUME NEW s, Good(s), NEW p \in Arg, NEW q \in Arg
    PROVE  Step(s, cmd_cp(s, p, q).fs) /\ Step(s, cmd_mv(s, p, q).fs)
<1> DEFINE c == Len(s.heap) + 1
           src == fs_resolve_path(s, p)
           dir == fs_resolve_path(s, fs_get_parent_path(q))
           u == fs_copy_file(s, p, q).fs
<1>1. Step(s, s)
  BY DEF Step, Moved
<1>2. \A t : Loose(s, t, c, REGULAR) /\ t.total_files = s.total_files => Step(s, t)
  BY DEF Step, Abandoned, Loose, Called
<1>3. Step(s, fs_copy_file(s, p, q).fs)
  <2> DEFINE r == fs_copy_file(s, p, q)
  <2>1. \/ r = Result(s, -1)
        \/ Loose(s, r.fs, c, REGULAR) /\ r.fs.total_files = s.total_files
        \/ Grown(s, r.fs, dir, c, REGULAR)
    BY ArgString, CopyShape
  <2>2. r = Result(s, -1) => r.fs = s
    BY DEF Result
  <2>3. ASSUME Grown(s, r.fs, dir, c, REGULAR) PROVE Step(s, r.fs)
    <3>1. Good(r.fs)
      BY <2>3 DEF Grown
    <3> HIDE DEF r, dir
    <3> QED BY <2>3, <3>1 DEF Step, Called
  <2> HIDE DEF r
  <2>4. Step(s, r.fs)
    BY <1>1, <1>2, <2>1, <2>2, <2>3
  <2> QED BY <2>4 DEF r
<1>4. Step(s, fs_move_file(s, p, q).fs)
  <2> DEFINE r == fs_move_file(s, p, q)
             t == fs_delete_node(u, src).fs
  <2>1. \/ r = Result(s, -1)
        \/ Loose(s, r.fs, c, REGULAR) /\ r.fs.total_files = s.total_files
        \/ /\ r = Result(t, 0)
           /\ Grown(s, u, dir, c, REGULAR)
           /\ src \in Attached(s) /\ ~IsDirectory(s, src)
    BY ArgString, MoveShape
  <2>2. r = Result(s, -1) => r.fs = s
    BY DEF Result
  <2>3. r = Result(t, 0) => r.fs = t
    BY DEF Result
  <2>4. ASSUME Grown(s, u, dir, c, REGULAR), src \in Attached(s), ~IsDirectory(s, src)
        PROVE  Step(s, t)
    <3> DEFINE d == u.heap[src].parent
               v == fs_remove_child(u, d, u.heap[src].name).fs
    <3>1. src \in Nodes(s) /\ src # NULL
      BY <2>4, Types DEF Attached, Good
    <3>2. Linked(s, src)
      BY <2>4, <3>1, ArgString, FileLinked
    <3> HIDE DEF u, src, dir, c
    <3>3. LinkedNodes(u) = LinkedNodes(s) \cup {c} /\ Good(u) /\ c \notin Nodes(s)
      BY <2>4, GrownLinks DEF Grown
    <3>4. src \in Nodes(u) /\ Linked(u, src) /\ src # c
      BY <3>1, <3>2, <3>3 DEF LinkedNodes
    <3>5. ~IsDirectory(u, src) /\ src # ROOT /\ d = s.heap[src].parent
      BY <2>4, <3>1 DEF Grown, IsDirectory, Good, AnchoredDirs
    <3>6. /\ t.heap = v.heap
          /\ t.total_files = (u.total_files + SIZE_RANGE - 1) % SIZE_RANGE
          /\ \E k \in DOMAIN u.heap[d].children :
               u.heap[d].children[k] = src /\ Dropped(u, v, d, k)
          /\ LinkedNodes(t) = LinkedNodes(u) \ {src}
      BY <3>3, <3>4, <3>5, DeleteUnlinks
    <3>7. Good(t) /\ t.current_dir = u.current_dir
      BY <3>3, <3>4, DeleteGood DEF SameLinks
    <3>8. u.total_files = s.total_files + 1 /\ u.current_dir = s.current_dir
      BY <2>4 DEF Grown
    <3>9. LinkedNodes(t) = (LinkedNodes(s) \ {src}) \cup {c}
      BY <3>3, <3>4, <3>6
    <3> HIDE DEF t, v, d
    <3>10. \E k \in DOMAIN u.heap[d].children :
               u.heap[d].children[k] = src /\ Shifted(u, t, d, k)
      BY <3>6 DEF Shifted
    <3>11. /\ t.total_files = (s.total_files + 1 + SIZE_RANGE - 1) % SIZE_RANGE
           /\ t.current_dir = s.current_dir
      BY <3>6, <3>7, <3>8
    <3>12. Renamed(s, t, src)
      BY <2>4, <3>2, <3>5, <3>9, <3>10, <3>11 DEF Renamed, c
    <3> QED BY <3>7, <3>12 DEF Step, src
  <2> HIDE DEF r, t, u, src, dir, c
  <2>5. Step(s, r.fs)
    BY <1>1, <1>2, <2>1, <2>2, <2>3, <2>4
  <2> QED BY <2>5 DEF r
<1> QED BY <1>3, <1>4 DEF cmd_cp, cmd_mv, Outcome

(* cd goes where the path leads, or nowhere. *)
LEMMA CdStep ==
    ASSUME NEW s, Good(s), NEW a \in Arg
    PROVE  Step(s, cmd_cd(s, a).fs)
<1> DEFINE t == fs_change_directory(s, a).fs
           n == fs_resolve_path(s, a)
           u == [s EXCEPT !.current_dir = n]
<1>1. cmd_cd(s, a).fs \in {s, t}
  BY DEF cmd_cd, Outcome
<1>2. t = s \/ t = fs_update_current_path(u)
  BY DEF fs_change_directory, Result
<1>3. u.current_dir = n
  BY Fields
<1> HIDE DEF u
<1>4. fs_update_current_path(u).current_dir = u.current_dir
  BY DEF fs_update_current_path
<1> HIDE DEF t, n
<1>5. t.current_dir = s.current_dir \/ t.current_dir = n
  BY <1>2, <1>3, <1>4
<1>6. cmd_cd(s, a).fs.current_dir = s.current_dir \/ cmd_cd(s, a).fs.current_dir = n
  BY <1>1, <1>5
<1> QED BY <1>6, CdGood DEF Step, n

(* mkdir and touch, write and the editor's save. *)
LEMMA NewStep ==
    ASSUME NEW s, Good(s), NEW a \in Arg
    PROVE  /\ Step(s, cmd_mkdir(s, a).fs) /\ Step(s, cmd_touch(s, a).fs)
           /\ \A text \in Text : /\ Step(s, cmd_write(s, a, text).fs)
                                 /\ Step(s, editor_save_file(s, a, text).fs)
<1> DEFINE c == Len(s.heap) + 1
<1>1. Step(s, s)
  BY DEF Step, Moved
<1>2. ASSUME NEW t, NEW type, Called(t, c, type),
             Abandoned(s, t, c, type) \/ Grown(s, t, s.current_dir, c, type)
      PROVE  Step(s, t)
  <2>1. Good(t)
    BY <1>2 DEF Abandoned, Loose, Grown
  <2> QED BY <1>2, <2>1 DEF Step
<1>3. ASSUME NEW type \in {REGULAR, DIRECTORY} PROVE Step(s, create_here(s, a, type).fs)
  <2> DEFINE r == create_here(s, a, type)
  <2>1. \/ r = Outcome(s, FALSE)
        \/ Abandoned(s, r.fs, c, type)
        \/ Grown(s, r.fs, s.current_dir, c, type)
    BY CreateHereShape
  <2>4. r = Outcome(s, FALSE) \/ r.fs.heap[c].name = Truncate(a)
    BY CreateHereShape
  <2> HIDE DEF r, c
  <2>2. r = Outcome(s, FALSE) => r.fs = s
    BY DEF Outcome
  <2>5. r = Outcome(s, FALSE) \/ Called(r.fs, c, type)
    BY <2>4 DEF Called
  <2>3. Step(s, r.fs)
    BY <1>1, <1>2, <2>1, <2>2, <2>5
  <2> QED BY <2>3 DEF r
<1>4. cmd_mkdir(s, a).fs \in {s, create_here(s, a, DIRECTORY).fs}
  BY DEF cmd_mkdir, Outcome
<1>5. cmd_touch(s, a).fs \in {s, create_here(s, a, REGULAR).fs}
  BY DEF cmd_touch, Outcome
<1>6. ASSUME NEW t, NEW text \in Text, Stored(s, t, text) PROVE Step(s, t)
  <2>1. Good(t)
    BY <1>6, StoredGood
  <2>2. CASE \E n \in Nodes(s) : HasData(s, n) /\ Good(t) /\ Written(s, t, n, text)
    BY <2>1, <2>2 DEF Step
  <2>3. Called(t, c, REGULAR)
    BY DEF Called
  <2> QED BY <1>1, <1>2, <1>6, <2>2, <2>3 DEF Stored
<1> QED BY <1>1, <1>3, <1>4, <1>5, <1>6, StoreShape

(* Every command is such a step. *)
LEMMA NextStep ==
    ASSUME Good(fs), Next
    PROVE  Step(fs, fs')
<1>1. ASSUME NEW a \in Arg, Mkdir(a) \/ Touch(a) \/ Rmdir(a) \/ Rm(a) \/ Cd(a)
      PROVE  Step(fs, fs')
  BY <1>1, NewStep, RemovalStep, CdStep DEF Mkdir, Touch, Rmdir, Rm, Cd
<1>2. ASSUME NEW a \in Arg, NEW b \in Arg, Cp(a, b) \/ Mv(a, b) PROVE Step(fs, fs')
  BY <1>2, CopyStep DEF Cp, Mv
<1>3. ASSUME NEW a \in Arg, NEW t \in Text, Write(a, t) \/ Save(a, t) PROVE Step(fs, fs')
  BY <1>3, NewStep DEF Write, Save
<1> QED BY <1>1, <1>2, <1>3 DEF Next, Command

-------------------------------------------------------------------------------
(* Paths after a command. *)

(* A shift unlinks something. *)
LEMMA ShiftUnlinks ==
    ASSUME NEW s, Good(s), NEW t, NEW d \in Nodes(s), NEW k \in DOMAIN s.heap[d].children,
           Shifted(s, t, d, k)
    PROVE  /\ s.heap[d].children[k] \in LinkedNodes(s)
           /\ LinkedNodes(t) = LinkedNodes(s) \ {s.heap[d].children[k]}
<1>1. PICK u : Dropped(s, u, d, k) /\ t.heap = u.heap
  BY DEF Shifted
<1>2. LinkedNodes(t) = LinkedNodes(u)
  BY <1>1 DEF LinkedNodes, Linked, Nodes
<1> QED BY <1>1, <1>2, DropUnlinks

(* A step that unlinks nothing extends the tree. *)
LEMMA StepExtends ==
    ASSUME NEW s, Good(s), NEW t, Step(s, t), t.heap # s.heap,
           LinkedNodes(s) \subseteq LinkedNodes(t)
    PROVE  Extends(s, t)
<1>1. Good(t)
  BY DEF Step
<1>2. CASE Moved(s, t)
  BY <1>2 DEF Moved
<1>3. CASE \E type : Abandoned(s, t, Len(s.heap) + 1, type)
  BY <1>3, NewExtends DEF Abandoned
<1>4. CASE \E dir, type : Grown(s, t, dir, Len(s.heap) + 1, type)
  BY <1>4, NewExtends
<1>5. CASE \E n \in Nodes(s) : \E text : HasData(s, n) /\ Written(s, t, n, text)
  BY <1>1, <1>5 DEF Extends, Written
<1>6. CASE \E n \in Attached(s) : Taken(s, t, n)
  <2>1. PICK n \in Attached(s) : Taken(s, t, n)
    BY <1>6
  <2> DEFINE d == s.heap[n].parent
  <2>2. d \in Nodes(s) /\ \E k \in Matches(s, d, s.heap[n].name) : Shifted(s, t, d, k)
    BY <2>1 DEF Taken, Attached
  <2>3. PICK k \in Matches(s, d, s.heap[n].name) : Shifted(s, t, d, k)
    BY <2>2
  <2>4. k \in DOMAIN s.heap[d].children
    BY DEF Matches
  <2> QED BY <2>2, <2>3, <2>4, ShiftUnlinks
<1>7. CASE \E src : Renamed(s, t, src)
  <2>1. PICK src : Renamed(s, t, src)
    BY <1>7
  <2>2. src \in Nodes(s) /\ Linked(s, src) /\ src # Len(s.heap) + 1
    BY <2>1 DEF Renamed, Attached, Grown
  <2>3. LinkedNodes(t) = (LinkedNodes(s) \ {src}) \cup {Len(s.heap) + 1}
    BY <2>1 DEF Renamed
  <2>4. src \in LinkedNodes(s)
    BY <2>2 DEF LinkedNodes
  <2> QED BY <2>2, <2>3, <2>4
<1> QED BY <1>2, <1>3, <1>4, <1>5, <1>6, <1>7 DEF Step

(* A command that unlinks nothing leaves every path that led somewhere     *)
(* leading there: whatever name a new entry got, it hides no other.        *)
THEOREM PathsStay == Spec => ResolutionStable
<1> DEFINE A == (/\ fs'.heap # fs.heap
                 /\ fs'.current_dir = fs.current_dir
                 /\ LinkedNodes(fs) \subseteq LinkedNodes(fs'))
                => \A p \in Arg : fs_resolve_path(fs, p) # NULL =>
                       fs_resolve_path(fs', p) = fs_resolve_path(fs, p)
<1>1. Inv /\ [Next]_fs => [A]_fs
  <2> SUFFICES ASSUME Good(fs), Next PROVE A
    BY DEF Inv, Sound
  <2>1. Step(fs, fs')
    BY NextStep
  <2>2. \A p \in Arg : p \in String /\ p # << >>
    BY ArgString
  <2>3. fs'.heap # fs.heap /\ LinkedNodes(fs) \subseteq LinkedNodes(fs') => Extends(fs, fs')
    BY <2>1, StepExtends
  <2> QED BY <2>2, <2>3, ResolveExtends
<1> QED BY <1>1, AlwaysSound, PTL DEF Spec, ResolutionStable

-------------------------------------------------------------------------------
(* Which nodes can be reached, and how they are counted. *)

(* A node can be reached when it is linked and its parent can be. *)
LEMMA LiveUp ==
    ASSUME NEW s, Good(s), NEW n \in Nodes(s)
    PROVE  Live(s, n) <=> (n = ROOT \/ (Linked(s, n) /\ Live(s, s.heap[n].parent)))
<1> DEFINE Eq(f) == f = [m \in Nodes(s) |->
                            m = ROOT \/ (Linked(s, m) /\ f[s.heap[m].parent])]
           Up(A) == \A a \in A : a = ROOT \/ (Linked(s, a) /\ s.heap[a].parent \in A)
           L == {m \in Nodes(s) : \E A \in SUBSET Nodes(s) : m \in A /\ Up(A)}
           g == [m \in Nodes(s) |-> IF m \in L THEN TRUE ELSE FALSE]
<1>1. ASSUME NEW m \in Nodes(s)
      PROVE  m \in L <=> (m = ROOT \/ (Linked(s, m) /\ s.heap[m].parent \in L))
  <2>1. ASSUME m \in L, m # ROOT PROVE Linked(s, m) /\ s.heap[m].parent \in L
    <3>1. PICK A \in SUBSET Nodes(s) : m \in A /\ Up(A)
      BY <2>1
    <3>2. Linked(s, m) /\ s.heap[m].parent \in A
      BY <2>1, <3>1
    <3> QED BY <3>1, <3>2
  <2>2. ASSUME m = ROOT PROVE m \in L
    <3>1. {ROOT} \in SUBSET Nodes(s) /\ m \in {ROOT} /\ Up({ROOT})
      BY <2>2
    <3> QED BY <3>1
  <2>3. ASSUME Linked(s, m), s.heap[m].parent \in L PROVE m \in L
    <3>1. PICK A \in SUBSET Nodes(s) : s.heap[m].parent \in A /\ Up(A)
      BY <2>3
    <3>2. A \cup {m} \in SUBSET Nodes(s) /\ m \in A \cup {m} /\ Up(A \cup {m})
      BY <2>3, <3>1
    <3> QED BY <3>2
  <2> HIDE DEF L
  <2> QED BY <2>1, <2>2, <2>3
<1>2. Eq(g)
  <2> HIDE DEF L
  <2>1. ASSUME NEW m \in Nodes(s)
        PROVE  (m \in L) = (m = ROOT \/ (Linked(s, m) /\ g[s.heap[m].parent]))
    <3>1. CASE Linked(s, m) /\ m # ROOT
      <4>1. s.heap[m].parent \in Nodes(s)
        BY <3>1 DEF Linked, Good, WellTyped
      <4>2. g[s.heap[m].parent] = IF s.heap[m].parent \in L THEN TRUE ELSE FALSE
        BY <4>1
      <4>3. (m \in L) = (s.heap[m].parent \in L)
        BY <1>1, <3>1
      <4> HIDE DEF g
      <4>4. (m = ROOT \/ (Linked(s, m) /\ g[s.heap[m].parent])) = (s.heap[m].parent \in L)
        <5>1. CASE s.heap[m].parent \in L
          <6>1. g[s.heap[m].parent] = TRUE
            BY <4>2, <5>1
          <6> QED BY <3>1, <5>1, <6>1
        <5>2. CASE s.heap[m].parent \notin L
          <6>1. g[s.heap[m].parent] = FALSE
            BY <4>2, <5>2
          <6> QED BY <3>1, <5>2, <6>1
        <5> QED BY <5>1, <5>2
      <4> QED BY <4>3, <4>4
    <3>2. CASE ~(Linked(s, m) /\ m # ROOT)
      BY <1>1, <3>2
    <3> QED BY <3>1, <3>2
  <2>2. g = [m \in Nodes(s) |-> m = ROOT \/ (Linked(s, m) /\ g[s.heap[m].parent])]
    BY <2>1
  <2> QED BY <2>2
<1> DEFINE live == CHOOSE f : Eq(f)
<1>3. \A m : Live(s, m) = live[m]
  BY DEF Live
<1>4. Eq(live)
  <2> HIDE DEF Eq, g
  <2> QED BY <1>2
<1> HIDE DEF live
<1>5. live[n] = (n = ROOT \/ (Linked(s, n) /\ live[s.heap[n].parent]))
  BY <1>4
<1> QED BY <1>3, <1>5

(* What can be reached stays inside what can be reached. *)
LEMMA LiveClosed ==
    ASSUME NEW s, Good(s)
    PROVE  Closed(s, LiveNodes(s)) /\ ROOT \in LiveNodes(s)
<1> DEFINE P == LiveNodes(s)
<1>1. ROOT \in Nodes(s) /\ s.heap[ROOT].parent = ROOT /\ ROOT \in Attached(s)
  BY RootAttached DEF Good, AnchoredDirs
<1>2. ROOT \in P
  BY <1>1, LiveUp DEF LiveNodes
<1>3. ASSUME NEW m \in P PROVE m \in Attached(s) /\ s.heap[m].parent \in P
  <2>1. m \in Nodes(s) /\ Live(s, m)
    BY DEF LiveNodes
  <2>2. CASE m = ROOT
    BY <1>1, <1>2, <2>2
  <2>3. CASE m # ROOT
    <3>1. Linked(s, m) /\ Live(s, s.heap[m].parent)
      BY <2>1, <2>3, LiveUp
    <3>2. s.heap[m].parent # NULL /\ s.heap[m].parent \in Nodes(s)
      BY <2>1, <2>3, <3>1 DEF Linked, Good, WellTyped
    <3> QED BY <2>1, <3>1, <3>2 DEF LiveNodes, Attached
  <2> QED BY <2>2, <2>3
<1>4. ASSUME NEW m \in P, NEW i \in DOMAIN s.heap[m].children
      PROVE  s.heap[m].children[i] \in P
  <2> DEFINE x == s.heap[m].children[i]
  <2>1. m \in Nodes(s) /\ Live(s, m) /\ m # NULL /\ x \in Nodes(s)
    BY Types DEF LiveNodes, Good
  <2>2. s.heap[x].parent = m
    BY <2>1 DEF Good, ChildrenLinked
  <2>3. x \in ToSet(s.heap[m].children)
    BY DEF ToSet
  <2> HIDE DEF x
  <2>4. Linked(s, x)
    BY <2>1, <2>2, <2>3 DEF Linked
  <2>5. Live(s, x)
    BY <2>1, <2>2, <2>4, LiveUp
  <2> QED BY <2>1, <2>5 DEF x, LiveNodes
<1> HIDE DEF P
<1>5. Closed(s, P)
  BY <1>3, <1>4 DEF Closed
<1> QED BY <1>2, <1>5 DEF P

(* There are finitely many linked nodes. *)
LEMMA LinkedFinite ==
    ASSUME NEW s, Good(s)
    PROVE  IsFiniteSet(LinkedNodes(s)) /\ Cardinality(LinkedNodes(s)) \in Nat
<1>1. IsFiniteSet(Nodes(s))
  <2>1. Len(s.heap) \in Nat
    BY Types DEF Good
  <2> QED BY <2>1, FS_Interval DEF Nodes
<1>2. LinkedNodes(s) \subseteq Nodes(s)
  BY DEF LinkedNodes
<1> QED BY <1>1, <1>2, FS_Subset, FS_CardinalityType

(* The size_t counter, counted down, falls by one or wraps to the top. *)
LEMMA CountDown ==
    ASSUME NEW n \in Nat, n < SIZE_RANGE
    PROVE  LET m == (n + SIZE_RANGE - 1) % SIZE_RANGE
           IN  m \in Nat /\ m >= n - 1
<1>1. SIZE_RANGE \in Nat /\ SIZE_RANGE > 0
  BY SizesAssumption
<1>2. CASE n = 0
  <2>1. (n + SIZE_RANGE - 1) % SIZE_RANGE \in 0..(SIZE_RANGE - 1)
    BY <1>1
  <2> QED BY <1>1, <1>2, <2>1
<1>3. CASE n > 0
  <2>1. (n + SIZE_RANGE - 1) = (n - 1) + SIZE_RANGE
    BY <1>1
  <2>2. ((n - 1) + SIZE_RANGE) % SIZE_RANGE = n - 1
    BY <1>1, <1>3
  <2> QED BY <1>1, <1>3, <2>1, <2>2
<1> QED BY <1>2, <1>3

(* A node that was abandoned is not linked, and nothing else changed. *)
LEMMA LooseLinks ==
    ASSUME NEW s, Good(s), NEW t, NEW c, NEW type, Loose(s, t, c, type)
    PROVE  LinkedNodes(t) = LinkedNodes(s)
<1>1. Nodes(t) = Nodes(s) \cup {c} /\ c \notin Nodes(s)
  BY DEF Loose
<1>2. ~Linked(t, c)
  BY DEF Loose, Linked
<1>3. ASSUME NEW m \in Nodes(s) PROVE Linked(t, m) <=> Linked(s, m)
  <2> DEFINE p == s.heap[m].parent
  <2>1. t.heap[m] = s.heap[m] /\ (p # NULL => p \in Nodes(s))
    BY DEF Loose, Good, WellTyped
  <2>2. p # NULL => t.heap[p] = s.heap[p]
    BY <2>1 DEF Loose
  <2> QED BY <2>1, <2>2 DEF Linked
<1> QED BY <1>1, <1>2, <1>3 DEF LinkedNodes

(* Writing a file links nothing. *)
LEMMA WrittenLinks ==
    ASSUME NEW s, Good(s), NEW t, NEW n, NEW text, Written(s, t, n, text)
    PROVE  LinkedNodes(t) = LinkedNodes(s)
<1>1. Nodes(t) = Nodes(s)
  BY DEF Written
<1>2. ASSUME NEW m \in Nodes(s) PROVE Linked(t, m) <=> Linked(s, m)
  <2> DEFINE p == s.heap[m].parent
  <2>1. t.heap[m].parent = p /\ (p # NULL => p \in Nodes(s))
    BY DEF Written, Good, WellTyped
  <2>2. p # NULL => t.heap[p].children = s.heap[p].children
    BY <2>1 DEF Written
  <2> QED BY <2>1, <2>2 DEF Linked
<1> QED BY <1>1, <1>2 DEF LinkedNodes

(* While the current directory can be reached, so can what a path leads    *)
(* to, and rm and rmdir take out an entry for the file they count out.     *)
LEMMA TakenUnlinks ==
    ASSUME NEW s, Good(s), Live(s, s.current_dir), NEW t, NEW a \in Arg,
           fs_resolve_path(s, a) \in Attached(s), Taken(s, t, fs_resolve_path(s, a))
    PROVE  \E x \in LinkedNodes(s) : LinkedNodes(t) = LinkedNodes(s) \ {x}
<1> DEFINE n == fs_resolve_path(s, a)
           d == s.heap[n].parent
           M == Matches(s, d, s.heap[n].name)
<1>1. n \in LiveNodes(s)
  <2>1. s.current_dir \in LiveNodes(s)
    BY RootAttached DEF LiveNodes, Attached
  <2>2. n \in LiveNodes(s) \cup {NULL}
    BY <2>1, ArgString, LiveClosed, ResolveClosed
  <2>3. n # NULL
    BY Types DEF Good, Attached
  <2> QED BY <2>2, <2>3
<1>2. n # ROOT /\ d \in Nodes(s) /\ n \in Nodes(s)
  BY DEF Taken, Attached
<1>3. n \in ToSet(s.heap[d].children)
  BY <1>1, <1>2, LiveUp DEF LiveNodes, Linked
<1>4. M # {}
  BY <1>3 DEF Matches, ToSet
<1>5. PICK k \in M : Shifted(s, t, d, k)
  BY <1>4 DEF Taken
<1>6. k \in DOMAIN s.heap[d].children
  BY DEF Matches
<1> HIDE DEF n
<1> QED BY <1>2, <1>5, <1>6, ShiftUnlinks

(* A command counts at least what it links. *)
LEMMA StepCounts ==
    ASSUME NEW s, Good(s), Live(s, s.current_dir), NEW t, Step(s, t)
    PROVE  t.total_files - s.total_files >=
             Cardinality(LinkedNodes(t)) - Cardinality(LinkedNodes(s))
<1> DEFINE LS == LinkedNodes(s)
           LT == LinkedNodes(t)
           CS == Cardinality(LS)
           CT == Cardinality(LT)
           c == Len(s.heap) + 1
           f == s.total_files
           g == t.total_files
<1> SUFFICES g - f >= CT - CS
  OBVIOUS
<1>1. IsFiniteSet(LS) /\ CS \in Nat /\ CT \in Nat
  BY LinkedFinite DEF Step
<1>2. f \in Nat /\ f < SIZE_RANGE /\ g \in Nat /\ g < SIZE_RANGE
  BY Fields DEF Step
<1>3. c \notin LS
  <2>1. Len(s.heap) \in Nat
    BY Types DEF Good
  <2> QED BY <2>1 DEF LinkedNodes, Nodes
<1>4. ASSUME g >= f, LT = LS PROVE g - f >= CT - CS
  <2>1. CT = CS
    BY <1>4
  <2> HIDE DEF CT, CS, LT, LS, f, g
  <2> QED BY <1>1, <1>2, <1>4, <2>1
<1>5. CASE Moved(s, t)
  <2>1. LT = LS /\ g = f
    BY <1>5 DEF Moved, LinkedNodes, Linked, Nodes
  <2> QED BY <1>2, <1>4, <2>1
<1>6. CASE \E type : Abandoned(s, t, c, type)
  <2>1. LT = LS /\ (g = f \/ g = f + 1)
    BY <1>6, LooseLinks DEF Abandoned
  <2>2. g >= f
    BY <1>2, <2>1
  <2> QED BY <1>4, <2>1, <2>2
<1>7. CASE \E dir, type : Grown(s, t, dir, c, type)
  <2>1. LT = LS \cup {c}
    BY <1>7, GrownLinks
  <2>2. g = f + 1
    BY <1>7 DEF Grown
  <2>3. CT = CS + 1
    BY <1>1, <1>3, <2>1, FS_AddElement
  <2> HIDE DEF CT, CS, f, g
  <2> QED BY <1>1, <1>2, <2>2, <2>3
<1>8. CASE \E n \in Nodes(s) : \E text : HasData(s, n) /\ Written(s, t, n, text)
  <2>0. PICK n \in Nodes(s) : \E text : HasData(s, n) /\ Written(s, t, n, text)
    BY <1>8
  <2>1. PICK text : Written(s, t, n, text)
    BY <2>0
  <2>2. LT = LS
    BY <2>1, WrittenLinks
  <2>3. g = f
    BY <2>1 DEF Written
  <2> QED BY <1>2, <1>4, <2>2, <2>3
<1>9. ASSUME NEW a \in Arg, fs_resolve_path(s, a) \in Attached(s),
             Taken(s, t, fs_resolve_path(s, a))
      PROVE  g - f >= CT - CS
  <2>1. PICK x \in LS : LT = LS \ {x}
    BY <1>9, TakenUnlinks
  <2>2. CT = CS - 1
    BY <1>1, <2>1, FS_RemoveElement
  <2>3. g >= f - 1
    BY <1>2, <1>9, CountDown DEF Taken
  <2> HIDE DEF CT, CS, f, g
  <2> QED BY <1>1, <1>2, <2>2, <2>3
<1>10. CASE \E src : Renamed(s, t, src)
  <2>1. PICK src : Renamed(s, t, src)
    BY <1>10
  <2>2. src \in LS /\ LT = (LS \ {src}) \cup {c}
    BY <2>1 DEF Renamed, LinkedNodes, Attached
  <2>3. IsFiniteSet(LS \ {src}) /\ Cardinality(LS \ {src}) = CS - 1
    BY <1>1, <2>2, FS_RemoveElement
  <2>4. CT = Cardinality(LS \ {src}) + 1
    BY <1>3, <2>2, <2>3, FS_AddElement
  <2>5. g = (f + 1 + SIZE_RANGE - 1) % SIZE_RANGE
    BY <2>1 DEF Renamed
  <2> HIDE DEF CT, CS, f, g
  <2>6. g >= f
    <3>1. SIZE_RANGE \in Nat
      BY SizesAssumption
    <3>2. f + 1 + SIZE_RANGE - 1 = f + SIZE_RANGE
      BY <1>2, <3>1
    <3>3. (f + SIZE_RANGE) % SIZE_RANGE = f
      BY <1>2, <3>1
    <3> QED BY <1>2, <2>5, <3>2, <3>3
  <2>7. CT = CS
    BY <1>1, <2>3, <2>4
  <2> QED BY <1>1, <1>2, <2>6, <2>7
<1> HIDE DEF CT, CS, f, g
<1> QED BY <1>5, <1>6, <1>7, <1>8, <1>9, <1>10 DEF Step

(* As long as the current directory is part of the tree, total_files does  *)
(* not fall behind the number of entries, also when a step fails midway.   *)
THEOREM CountNotBehind == Spec => CountKeepsUp
<1>1. Inv /\ [Next]_fs =>
        [fs' # fs /\ Live(fs, fs.current_dir) =>
           fs'.total_files - fs.total_files >=
             Cardinality(LinkedNodes(fs')) - Cardinality(LinkedNodes(fs))]_fs
  <2> SUFFICES ASSUME Good(fs), Next, Live(fs, fs.current_dir)
               PROVE  fs'.total_files - fs.total_files >=
                        Cardinality(LinkedNodes(fs')) - Cardinality(LinkedNodes(fs))
    BY DEF Inv, Sound
  <2>1. Step(fs, fs')
    BY NextStep
  <2> QED BY <2>1, StepCounts
<1> QED BY <1>1, AlwaysSound, PTL DEF Spec, CountKeepsUp

-------------------------------------------------------------------------------
(* Where the current directory stands. *)

(* a is in its directory, or whatever has its name there is a file: rmdir  *)
(* of a, which goes by the name, cannot take out another directory.        *)
Harmless(s, a) ==
    \/ Linked(s, a)
    \/ \A i \in Matches(s, s.heap[a].parent, s.heap[a].name) :
         s.heap[s.heap[s.heap[a].parent].children[i]].type = REGULAR

Upward(s, A) ==
    /\ A \subseteq Attached(s)
    /\ \A a \in A : s.heap[a].parent \in A /\ Harmless(s, a)

(* m and every directory above it are so. *)
Placed(s) == {m \in Attached(s) : \E A \in SUBSET Attached(s) : m \in A /\ Upward(s, A)}

Standing(s) == s.current_dir \in Placed(s)

(* The root stands where it should, and so does what is above or below a   *)
(* node that does.                                                         *)
LEMMA PlacedClosed ==
    ASSUME NEW s, Good(s)
    PROVE  Closed(s, Placed(s)) /\ ROOT \in Placed(s)
<1>1. ROOT \in Placed(s)
  <2>1. ROOT \in Attached(s) /\ s.heap[ROOT].parent = ROOT
    BY RootAttached DEF Good, AnchoredDirs
  <2>2. Upward(s, {ROOT})
    BY <2>1 DEF Upward, Harmless, Linked
  <2> QED BY <2>1, <2>2 DEF Placed
<1>2. ASSUME NEW m \in Placed(s) PROVE s.heap[m].parent \in Placed(s)
  <2>1. PICK A \in SUBSET Attached(s) : m \in A /\ Upward(s, A)
    BY DEF Placed
  <2>2. s.heap[m].parent \in A
    BY <2>1 DEF Upward
  <2> QED BY <2>1, <2>2 DEF Placed
<1>3. ASSUME NEW m \in Placed(s), NEW i \in DOMAIN s.heap[m].children
      PROVE  s.heap[m].children[i] \in Placed(s)
  <2> DEFINE x == s.heap[m].children[i]
  <2>1. PICK A \in SUBSET Attached(s) : m \in A /\ Upward(s, A)
    BY DEF Placed
  <2>2. m \in Nodes(s) /\ m # NULL /\ x \in Nodes(s)
    BY <2>1, Types DEF Attached, Good
  <2>3. s.heap[x].parent = m
    BY <2>2 DEF Good, ChildrenLinked
  <2>4. x \in ToSet(s.heap[m].children)
    BY DEF ToSet
  <2> HIDE DEF x
  <2>5. x \in Attached(s) /\ Harmless(s, x)
    BY <2>2, <2>3, <2>4 DEF Attached, Linked, Harmless
  <2>6. Upward(s, A \cup {x})
    BY <2>1, <2>3, <2>5 DEF Upward
  <2>7. x \in Placed(s)
    BY <2>1, <2>5, <2>6 DEF Placed
  <2> QED BY <2>7 DEF x
<1>4. Placed(s) \subseteq Attached(s)
  BY DEF Placed
<1> QED BY <1>1, <1>2, <1>3, <1>4 DEF Closed

(* A path from a directory that stands leads to a node that does. *)
LEMMA ResolvePlaced ==
    ASSUME NEW s, Good(s), Standing(s), NEW a \in Arg, fs_resolve_path(s, a) # NULL
    PROVE  fs_resolve_path(s, a) \in Placed(s)
BY ArgString, PlacedClosed, ResolveClosed DEF Standing

(* A shift leaves names, types and parents, and every entry it leaves was  *)
(* there.                                                                  *)
LEMMA ShiftedEntries ==
    ASSUME NEW s, Good(s), NEW t, NEW d \in Nodes(s), NEW k \in DOMAIN s.heap[d].children,
           Shifted(s, t, d, k)
    PROVE  /\ Nodes(t) = Nodes(s)
           /\ \A m \in Nodes(s) : /\ t.heap[m].name = s.heap[m].name
                                  /\ t.heap[m].type = s.heap[m].type
                                  /\ t.heap[m].parent = s.heap[m].parent
           /\ \A m \in Nodes(s) : \A i \in DOMAIN t.heap[m].children :
                \E j \in DOMAIN s.heap[m].children :
                    /\ t.heap[m].children[i] = s.heap[m].children[j]
                    /\ m = d => j # k
<1>1. PICK u : Dropped(s, u, d, k) /\ t.heap = u.heap
  BY DEF Shifted
<1>2. Nodes(t) = Nodes(u)
  BY <1>1 DEF Nodes
<1>3. ASSUME NEW m \in Nodes(s), NEW i \in DOMAIN t.heap[m].children
      PROVE  \E j \in DOMAIN s.heap[m].children :
                    /\ t.heap[m].children[i] = s.heap[m].children[j]
                    /\ m = d => j # k
  <2>1. CASE m # d
    <3>1. t.heap[m].children = s.heap[m].children
      BY <1>1, <2>1 DEF Dropped
    <3> QED BY <1>3, <2>1, <3>1
  <2>2. CASE m = d
    <3> DEFINE e == s.heap[d].children
    <3>1. t.heap[m].children = ShiftOut(e, k)
      BY <1>1, <2>2 DEF Dropped
    <3>2. e \in Seq(Nodes(s)) /\ DOMAIN e = 1..Len(e)
      BY Types DEF Good, WellTyped
    <3> HIDE DEF e
    <3>3. i \in DOMAIN ShiftOut(e, k) /\ k \in 1..Len(e)
      BY <1>3, <3>1, <3>2 DEF e
    <3> DEFINE j == IF i < k THEN i ELSE i + 1
    <3>4. i \in Nat /\ j \in 1..Len(e) /\ ShiftOut(e, k)[i] = e[j]
      BY <3>2, <3>3, ShiftOutSeq
    <3>5. j # k
      BY <3>3, <3>4
    <3> HIDE DEF j
    <3> QED BY <2>2, <3>1, <3>2, <3>4, <3>5 DEF e
  <2> QED BY <2>1, <2>2
<1> QED BY <1>1, <1>2, <1>3 DEF Dropped

(* Taking an entry out leaves harmless what was. *)
LEMMA ShiftedPlaced ==
    ASSUME NEW s, Good(s), NEW t, NEW d \in Nodes(s), NEW k \in DOMAIN s.heap[d].children,
           Shifted(s, t, d, k)
    PROVE  Placed(s) \subseteq Placed(t)
<1> DEFINE x == s.heap[d].children[k]
<1>1. /\ Nodes(t) = Nodes(s)
      /\ \A m \in Nodes(s) : /\ t.heap[m].name = s.heap[m].name
                             /\ t.heap[m].type = s.heap[m].type
                             /\ t.heap[m].parent = s.heap[m].parent
      /\ \A m \in Nodes(s) : \A i \in DOMAIN t.heap[m].children :
           \E j \in DOMAIN s.heap[m].children :
               /\ t.heap[m].children[i] = s.heap[m].children[j]
               /\ m = d => j # k
  BY ShiftedEntries
<1>2. LinkedNodes(t) = LinkedNodes(s) \ {x}
  BY ShiftUnlinks
<1>3. Attached(t) = Attached(s)
  BY <1>1 DEF Attached
<1>4. x \in Nodes(s) /\ s.heap[x].parent = d
  BY Types DEF Good, ChildrenLinked
<1>5. ASSUME NEW a \in Attached(s), Harmless(s, a) PROVE Harmless(t, a)
  <2> DEFINE p == s.heap[a].parent
             name == s.heap[a].name
  <2>1. a \in Nodes(s) /\ p \in Nodes(s) /\ t.heap[a].parent = p /\ t.heap[a].name = name
    BY <1>1, UpAttached DEF Attached
  <2>2. CASE Linked(s, a) /\ a # x
    BY <1>1, <1>2, <2>1, <2>2 DEF LinkedNodes, Harmless
  <2>3. ASSUME NEW i \in Matches(t, p, name)
        PROVE  \E j \in Matches(s, p, name) :
                 /\ t.heap[p].children[i] = s.heap[p].children[j]
                 /\ p = d => j # k
    <3>1. i \in DOMAIN t.heap[p].children /\ t.heap[t.heap[p].children[i]].name = name
      BY DEF Matches
    <3>2. PICK j \in DOMAIN s.heap[p].children :
               /\ t.heap[p].children[i] = s.heap[p].children[j]
               /\ p = d => j # k
      BY <1>1, <2>1, <3>1
    <3>3. s.heap[p].children[j] \in Nodes(s)
      BY <2>1, Types DEF Good
    <3>4. s.heap[s.heap[p].children[j]].name = name
      BY <1>1, <3>1, <3>2, <3>3
    <3> QED BY <3>2, <3>4 DEF Matches
  <2>4. CASE a = x
    <3>1. p = d /\ k \in DOMAIN s.heap[d].children /\ s.heap[s.heap[d].children[k]].name = name
      BY <1>4, <2>4
    <3>2. \A j \in Matches(s, d, name) : j = k
      BY <3>1 DEF Matches, Good, NamesUnique
    <3>3. Matches(t, p, name) = {}
      BY <2>3, <3>1, <3>2
    <3> QED BY <2>1, <3>3 DEF Harmless
  <2>5. CASE ~Linked(s, a)
    <3>1. \A j \in Matches(s, p, name) : s.heap[s.heap[p].children[j]].type = REGULAR
      BY <1>5, <2>5 DEF Harmless
    <3>2. ASSUME NEW i \in Matches(t, p, name) PROVE t.heap[t.heap[p].children[i]].type = REGULAR
      <4>1. PICK j \in Matches(s, p, name) : t.heap[p].children[i] = s.heap[p].children[j]
        BY <2>3
      <4>2. s.heap[p].children[j] \in Nodes(s)
        BY <2>1, <4>1, Types DEF Good, Matches
      <4> QED BY <1>1, <3>1, <4>1, <4>2
    <3> QED BY <2>1, <3>2 DEF Harmless
  <2> QED BY <2>2, <2>4, <2>5
<1>6. ASSUME NEW A \in SUBSET Attached(s), Upward(s, A) PROVE Upward(t, A)
  <2>1. \A a \in A : a \in Nodes(s)
    BY DEF Attached
  <2> QED BY <1>1, <1>3, <1>5, <1>6, <2>1 DEF Upward
<1> QED BY <1>3, <1>6 DEF Placed

(* A node that stays loose, or a file written, changes nothing of this. *)
LEMMA SamePlaced ==
    ASSUME NEW s, Good(s), NEW t, LinkedNodes(s) \subseteq LinkedNodes(t),
           \A m \in Nodes(s) : /\ m \in Nodes(t)
                               /\ t.heap[m].name = s.heap[m].name
                               /\ t.heap[m].type = s.heap[m].type
                               /\ t.heap[m].parent = s.heap[m].parent
                               /\ t.heap[m].children = s.heap[m].children
    PROVE  Placed(s) \subseteq Placed(t)
<1>1. Attached(s) \subseteq Attached(t)
  BY DEF Attached
<1>2. ASSUME NEW a \in Attached(s), Harmless(s, a) PROVE Harmless(t, a)
  <2> DEFINE p == s.heap[a].parent
             name == s.heap[a].name
  <2>1. a \in Nodes(s) /\ p \in Nodes(s) /\ t.heap[a].parent = p /\ t.heap[a].name = name
    BY UpAttached DEF Attached
  <2>2. CASE Linked(s, a)
    BY <2>1, <2>2 DEF LinkedNodes, Harmless
  <2>3. CASE ~Linked(s, a)
    <3>1. \A j \in Matches(s, p, name) : s.heap[s.heap[p].children[j]].type = REGULAR
      BY <1>2, <2>3 DEF Harmless
    <3>2. t.heap[p].children = s.heap[p].children
      BY <2>1
    <3>3. ASSUME NEW i \in Matches(t, p, name) PROVE t.heap[t.heap[p].children[i]].type = REGULAR
      <4>1. i \in DOMAIN s.heap[p].children /\ t.heap[s.heap[p].children[i]].name = name
        BY <3>2 DEF Matches
      <4>2. s.heap[p].children[i] \in Nodes(s)
        BY <2>1, <4>1, Types DEF Good
      <4>3. i \in Matches(s, p, name)
        BY <4>1, <4>2 DEF Matches
      <4> QED BY <3>1, <3>2, <4>2, <4>3
    <3> QED BY <2>1, <3>3 DEF Harmless
  <2> QED BY <2>2, <2>3
<1>3. ASSUME NEW A \in SUBSET Attached(s), Upward(s, A) PROVE Upward(t, A)
  <2>1. \A a \in A : a \in Nodes(s)
    BY DEF Attached
  <2> QED BY <1>1, <1>2, <1>3, <2>1 DEF Upward
<1> QED BY <1>1, <1>3 DEF Placed

(* A new entry: a file, or a directory in the current directory, from      *)
(* which only what is older can be above.                                  *)
LEMMA GrownStanding ==
    ASSUME NEW s, Good(s), Standing(s), NEW t, NEW d, NEW c, NEW type,
           Grown(s, t, d, c, type), type = REGULAR \/ d = s.current_dir
    PROVE  Standing(t)
<1> DEFINE cd == s.current_dir
<1>1. PICK B \in SUBSET Attached(s) : cd \in B /\ Upward(s, B)
  BY DEF Standing, Placed
<1> DEFINE A == {a \in B : a <= cd}
<1>2. d \in Nodes(s) /\ cd \in Nat
  BY RootAttached, Types DEF Grown, Attached, Good
<1>3. /\ \A m \in Nodes(s) : /\ m \in Nodes(t) /\ m # c /\ m \in Nat
                             /\ t.heap[m].name = s.heap[m].name
                             /\ t.heap[m].type = s.heap[m].type
                             /\ t.heap[m].parent = s.heap[m].parent
                             /\ m # d => t.heap[m].children = s.heap[m].children
      /\ t.heap[c].type = type
      /\ t.current_dir = cd
      /\ t.heap[d].children = Append(s.heap[d].children, c)
  BY <1>2, Types DEF Grown, Good
<1>4. LinkedNodes(t) = LinkedNodes(s) \cup {c}
  BY GrownLinks
<1>5. Attached(s) \subseteq Attached(t)
  BY <1>3 DEF Attached
<1>6. ASSUME NEW a \in A PROVE s.heap[a].parent \in A
  <2>1. a \in B /\ a <= cd /\ s.heap[a].parent \in B
    BY <1>1 DEF Upward
  <2>2. a \in Nodes(s) /\ a \in Nat /\ s.heap[a].parent \in Nat
    BY <2>1, <1>1, Types DEF Attached, Good
  <2>3. s.heap[a].parent <= a
    BY <2>2 DEF Good, AnchoredDirs, ParentsOlder
  <2> QED BY <1>2, <2>1, <2>2, <2>3
<1>7. ASSUME NEW a \in A PROVE Harmless(t, a)
  <2> DEFINE p == s.heap[a].parent
             name == s.heap[a].name
             e == s.heap[p].children
  <2>1. a \in Attached(s) /\ Harmless(s, a) /\ a <= cd
    BY <1>1 DEF Upward
  <2>2. a \in Nodes(s) /\ p \in Nodes(s) /\ t.heap[a].parent = p /\ t.heap[a].name = name
    BY <1>3, <2>1, UpAttached DEF Attached
  <2>3. CASE Linked(s, a)
    BY <1>4, <2>2, <2>3 DEF LinkedNodes, Harmless
  <2>4. CASE ~Linked(s, a)
    <3>1. \A j \in Matches(s, p, name) : s.heap[e[j]].type = REGULAR
      BY <2>1, <2>4 DEF Harmless
    <3>2. e \in Seq(Nodes(s)) /\ DOMAIN e = 1..Len(e) /\ Len(e) \in Nat
      BY <2>2, Types DEF Good, WellTyped
    <3>3. ASSUME NEW i \in DOMAIN e, i \in Matches(t, p, name), t.heap[p].children[i] = e[i]
          PROVE  t.heap[t.heap[p].children[i]].type = REGULAR
      <4>1. e[i] \in Nodes(s) /\ t.heap[e[i]].name = name
        BY <3>2, <3>3 DEF Matches
      <4>2. i \in Matches(s, p, name)
        BY <1>3, <4>1 DEF Matches
      <4> QED BY <1>3, <3>1, <3>3, <4>1, <4>2
    <3>4. ASSUME NEW i \in Matches(t, p, name) PROVE t.heap[t.heap[p].children[i]].type = REGULAR
      <4>1. i \in DOMAIN t.heap[p].children
        BY DEF Matches
      <4>2. CASE p # d
        <5>1. t.heap[p].children = e
          BY <1>3, <2>2, <4>2
        <5> QED BY <3>3, <4>1, <5>1
      <4>3. CASE p = d
        <5>1. t.heap[p].children = Append(e, c)
          BY <1>3, <4>3
        <5> HIDE DEF e
        <5>2. i \in 1..(Len(e) + 1)
          BY <3>2, <4>1, <5>1
        <5>3. CASE i <= Len(e)
          <6>1. i \in DOMAIN e /\ t.heap[p].children[i] = e[i]
            BY <3>2, <5>1, <5>2, <5>3
          <6> QED BY <3>3, <6>1
        <5>4. CASE i = Len(e) + 1
          <6>1. t.heap[p].children[i] = c
            BY <3>2, <5>1, <5>4
          <6>2. type = REGULAR
            <7>1. a # ROOT
              BY <2>4 DEF Linked
            <7>2. p < a /\ a \in Nat /\ p \in Nat
              BY <2>2, <7>1, Types DEF Good, ParentsOlder
            <7>3. d # cd
              BY <1>2, <2>1, <4>3, <7>2
            <7> QED BY <7>3
          <6> QED BY <1>3, <6>1, <6>2
        <5> QED BY <3>2, <5>2, <5>3, <5>4
      <4> QED BY <4>2, <4>3
    <3> QED BY <2>2, <3>4 DEF Harmless
  <2> QED BY <2>3, <2>4
<1>8. Upward(t, A)
  <2>1. \A a \in A : a \in Nodes(s) /\ a \in Attached(s)
    BY <1>1 DEF Attached
  <2> HIDE DEF A
  <2> QED BY <1>3, <1>5, <1>6, <1>7, <2>1 DEF Upward
<1>9. cd \in A /\ A \in SUBSET Attached(t)
  BY <1>1, <1>2, <1>5
<1> HIDE DEF A
<1> QED BY <1>3, <1>8, <1>9 DEF Standing, Placed

(* The tree of a heap is placed as the heap is. *)
LEMMA HeapPlaced ==
    ASSUME NEW s, NEW t, t.heap = s.heap
    PROVE  Placed(t) = Placed(s)
<1>1. Nodes(t) = Nodes(s)
  BY DEF Nodes
<1>2. Attached(t) = Attached(s)
  BY <1>1 DEF Attached
<1>3. \A a : Harmless(t, a) <=> Harmless(s, a)
  BY DEF Harmless, Linked, Matches
<1>4. \A A : Upward(t, A) <=> Upward(s, A)
  BY <1>2, <1>3 DEF Upward
<1> QED BY <1>2, <1>4 DEF Placed

(* Every command leaves the current directory standing. *)
LEMMA StepStanding ==
    ASSUME NEW s, Good(s), Standing(s), NEW t, Step(s, t)
    PROVE  Standing(t)
<1> DEFINE c == Len(s.heap) + 1
<1>1. Good(t)
  BY DEF Step
<1>2. ASSUME Moved(s, t), t.current_dir = s.current_dir
                            \/ \E a \in Arg : t.current_dir = fs_resolve_path(s, a)
      PROVE  Standing(t)
  <2>1. Placed(t) = Placed(s)
    BY <1>2, HeapPlaced DEF Moved
  <2>2. t.current_dir # NULL
    BY <1>1, Types DEF Good, WellTyped
  <2>3. t.current_dir \in Placed(s)
    BY <1>2, <2>2, ResolvePlaced DEF Standing
  <2> QED BY <2>1, <2>3 DEF Standing
<1>3. ASSUME NEW type, Abandoned(s, t, c, type) PROVE Standing(t)
  <2>1. Loose(s, t, c, type)
    BY <1>3 DEF Abandoned
  <2>2. LinkedNodes(t) = LinkedNodes(s)
    BY <2>1, LooseLinks
  <2>3. \A m \in Nodes(s) : m \in Nodes(t) /\ t.heap[m] = s.heap[m]
    BY <2>1 DEF Loose
  <2>4. Placed(s) \subseteq Placed(t)
    BY <2>2, <2>3, SamePlaced
  <2>5. t.current_dir = s.current_dir
    BY <2>1 DEF Loose
  <2> QED BY <2>4, <2>5 DEF Standing
<1>4. ASSUME NEW dir, NEW type, Grown(s, t, dir, c, type), type = REGULAR \/ dir = s.current_dir
      PROVE  Standing(t)
  BY <1>4, GrownStanding
<1>5. ASSUME NEW n, NEW text, Written(s, t, n, text) PROVE Standing(t)
  <2>1. LinkedNodes(t) = LinkedNodes(s)
    BY <1>5, WrittenLinks
  <2>2. /\ t.current_dir = s.current_dir
        /\ \A m \in Nodes(s) : /\ m \in Nodes(t)
                               /\ t.heap[m].name = s.heap[m].name
                               /\ t.heap[m].type = s.heap[m].type
                               /\ t.heap[m].parent = s.heap[m].parent
                               /\ t.heap[m].children = s.heap[m].children
    BY <1>5 DEF Written
  <2>3. Placed(s) \subseteq Placed(t)
    BY <2>1, <2>2, SamePlaced
  <2> QED BY <2>2, <2>3 DEF Standing
<1>6. ASSUME NEW n, Taken(s, t, n) PROVE Standing(t)
  <2> DEFINE d == s.heap[n].parent
  <2>1. t.current_dir = s.current_dir /\ d \in Nodes(s)
    BY <1>6 DEF Taken, Attached
  <2>2. CASE t.heap = s.heap
    BY <2>1, <2>2, HeapPlaced DEF Standing
  <2>3. CASE t.heap # s.heap
    <3>1. PICK k \in Matches(s, d, s.heap[n].name) : Shifted(s, t, d, k)
      BY <1>6, <2>3 DEF Taken
    <3>2. k \in DOMAIN s.heap[d].children
      BY DEF Matches
    <3>3. Placed(s) \subseteq Placed(t)
      BY <2>1, <3>1, <3>2, ShiftedPlaced
    <3> QED BY <2>1, <3>3 DEF Standing
  <2> QED BY <2>2, <2>3
<1>7. ASSUME NEW src, Renamed(s, t, src) PROVE Standing(t)
  <2>1. PICK u, dir, d, k :
            /\ Grown(s, u, dir, c, REGULAR)
            /\ src \in Attached(s) /\ d = s.heap[src].parent
            /\ k \in DOMAIN u.heap[d].children
            /\ Shifted(u, t, d, k)
            /\ t.current_dir = s.current_dir
    BY <1>7 DEF Renamed
  <2>2. Standing(u)
    BY <2>1, GrownStanding
  <2>3. d \in Nodes(s)
    BY <2>1, UpAttached DEF Attached
  <2>4. Good(u) /\ d \in Nodes(u) /\ u.current_dir = s.current_dir
    BY <2>1, <2>3 DEF Grown
  <2>5. Placed(u) \subseteq Placed(t)
    BY <2>1, <2>4, ShiftedPlaced
  <2> QED BY <2>1, <2>2, <2>4, <2>5 DEF Standing
<1> QED BY <1>2, <1>3, <1>4, <1>5, <1>6, <1>7 DEF Step

(* What is linked in both states, with all that is above it but a leaf,    *)
(* can be reached in both.                                                 *)
LEMMA LiveKept ==
    ASSUME NEW s, Good(s), NEW t, Good(t), NEW x,
           x \in Nodes(s) => s.heap[x].children = << >>,
           LinkedNodes(s) \ {x} \subseteq LinkedNodes(t),
           \A m \in Nodes(s) : m \in Nodes(t) /\ t.heap[m].parent = s.heap[m].parent
    PROVE  LiveNodes(s) \ {x} \subseteq LiveNodes(t)
<1> DEFINE T == LiveNodes(s) \ (LiveNodes(t) \cup {x})
<1> SUFFICES ASSUME T # {} PROVE FALSE
  OBVIOUS
<1>1. T \in SUBSET Nat
  BY Types DEF LiveNodes, Good
<1>2. PICK m \in T : \A k \in T : m <= k
  BY <1>1, LeastNat
<1> DEFINE p == s.heap[m].parent
<1>3. m \in Nodes(s) /\ m \in Nodes(t) /\ Live(s, m) /\ ~Live(t, m) /\ m # x /\ m \in Nat
  BY <1>1, <1>2 DEF LiveNodes
<1>4. m # ROOT /\ Linked(s, m) /\ Live(s, p)
  BY <1>3, LiveUp
<1>5. p \in Nodes(s) /\ p # NULL /\ m \in ToSet(s.heap[p].children)
  BY <1>3, <1>4 DEF Linked, Good, WellTyped
<1>6. p # x
  BY <1>5 DEF ToSet
<1>7. p < m /\ p \in Nat
  BY <1>3, <1>4, <1>5, Types DEF Good, ParentsOlder
<1>8. p \in LiveNodes(s) /\ p \notin T
  <2>1. p \in LiveNodes(s)
    BY <1>4, <1>5 DEF LiveNodes
  <2>2. p \notin T
    BY <1>2, <1>3, <1>7
  <2> QED BY <2>1, <2>2
<1>9. Live(t, p) /\ t.heap[m].parent = p
  BY <1>3, <1>6, <1>8 DEF LiveNodes
<1>10. Linked(t, m)
  BY <1>3, <1>4 DEF LinkedNodes
<1> QED BY <1>3, <1>9, <1>10, LiveUp

(* Files have nothing below them. *)
LEMMA FileIsLeaf ==
    ASSUME NEW s, Good(s), NEW n \in Nodes(s), s.heap[n].type # DIRECTORY
    PROVE  s.heap[n].children = << >>
<1> DEFINE e == s.heap[n].children
<1>1. e \in Seq(Nodes(s)) /\ DOMAIN e = 1..Len(e) /\ Len(e) \in Nat
  BY Types DEF Good, WellTyped
<1>2. \A i \in DOMAIN e : FALSE
  BY DEF Good, ChildrenLinked
<1> HIDE DEF e
<1>3. Len(e) = 0
  <2>1. CASE Len(e) > 0
    <3>1. 1 \in DOMAIN e
      BY <1>1, <2>1
    <3> QED BY <1>2, <3>1
  <2> QED BY <1>1, <2>1
<1> QED BY <1>1, <1>3 DEF e

(* What rm or rmdir takes out is a leaf, though it goes by the name. *)
LEMMA TakenLeaf ==
    ASSUME NEW s, Good(s), NEW n \in Placed(s), NEW k,
           ~(IsDirectory(s, n) /\ s.heap[n].children # << >>),
           k \in Matches(s, s.heap[n].parent, s.heap[n].name), n # ROOT
    PROVE  s.heap[s.heap[s.heap[n].parent].children[k]].children = << >>
<1> DEFINE d == s.heap[n].parent
           x == s.heap[d].children[k]
<1>1. n \in Attached(s) /\ Harmless(s, n)
  BY DEF Placed, Upward
<1>2. n \in Nodes(s) /\ n # NULL /\ d \in Nodes(s)
  BY <1>1, UpAttached, Types DEF Attached, Good
<1>3. k \in DOMAIN s.heap[d].children /\ s.heap[x].name = s.heap[n].name
  BY DEF Matches
<1>4. x \in Nodes(s)
  BY <1>2, <1>3, Types DEF Good
<1>5. CASE Linked(s, n)
  <2>1. PICK i \in DOMAIN s.heap[d].children : s.heap[d].children[i] = n
    BY <1>5 DEF Linked, ToSet
  <2>2. i = k
    BY <1>2, <1>3, <2>1 DEF Good, NamesUnique
  <2>3. x = n
    BY <2>1, <2>2
  <2>4. s.heap[n].children = << >>
    BY <1>2, FileIsLeaf DEF IsDirectory
  <2> QED BY <2>3, <2>4
<1>6. CASE ~Linked(s, n)
  <2>1. s.heap[x].type = REGULAR
    BY <1>1, <1>6 DEF Harmless
  <2> QED BY <1>4, <2>1, FileIsLeaf DEF REGULAR, DIRECTORY
<1> QED BY <1>5, <1>6

(* A command takes at most one node out of reach, a leaf. *)
LEMMA StepLoses ==
    ASSUME NEW s, Good(s), Standing(s), NEW t, Step(s, t), t.heap # s.heap
    PROVE  \E x : /\ x \in Nodes(s) => s.heap[x].children = << >>
                  /\ LiveNodes(s) \ {x} \subseteq LiveNodes(t)
<1> DEFINE c == Len(s.heap) + 1
           Leaf(x) == x \in Nodes(s) => s.heap[x].children = << >>
           Above == \A m \in Nodes(s) : m \in Nodes(t) /\ t.heap[m].parent = s.heap[m].parent
<1>1. Good(t)
  BY DEF Step
<1>2. NULL \notin Nodes(s)
  BY Types DEF Good
<1>3. ASSUME NEW x, Leaf(x), LinkedNodes(s) \ {x} \subseteq LinkedNodes(t), Above
      PROVE  Leaf(x) /\ LiveNodes(s) \ {x} \subseteq LiveNodes(t)
  BY <1>1, <1>3, LiveKept
<1>4. ASSUME LinkedNodes(s) \subseteq LinkedNodes(t), Above
      PROVE  \E x : Leaf(x) /\ LiveNodes(s) \ {x} \subseteq LiveNodes(t)
  <2>1. Leaf(NULL) /\ LinkedNodes(s) \ {NULL} \subseteq LinkedNodes(t)
    BY <1>2, <1>4
  <2> HIDE DEF Leaf, Above
  <2> QED BY <1>3, <1>4, <2>1
<1>5. ~Moved(s, t)
  BY DEF Moved
<1>6. ASSUME NEW type, Abandoned(s, t, c, type)
      PROVE  LinkedNodes(s) \subseteq LinkedNodes(t) /\ Above
  BY <1>6, LooseLinks DEF Abandoned, Loose
<1>7. ASSUME NEW dir, NEW type, Grown(s, t, dir, c, type)
      PROVE  LinkedNodes(s) \subseteq LinkedNodes(t) /\ Above
  BY <1>7, GrownLinks DEF Grown
<1>8. ASSUME NEW n, NEW text, Written(s, t, n, text)
      PROVE  LinkedNodes(s) \subseteq LinkedNodes(t) /\ Above
  <2>1. LinkedNodes(t) = LinkedNodes(s)
    BY <1>8, WrittenLinks
  <2>2. Above
    BY <1>8 DEF Written
  <2> QED BY <2>1, <2>2
<1>9. ASSUME NEW a \in Arg, NEW n \in Attached(s), n = fs_resolve_path(s, a), Taken(s, t, n),
             ~(IsDirectory(s, n) /\ s.heap[n].children # << >>)
      PROVE  \E x : Leaf(x) /\ LiveNodes(s) \ {x} \subseteq LiveNodes(t)
  <2> DEFINE d == s.heap[n].parent
  <2>1. d \in Nodes(s) /\ n # ROOT
    BY <1>9 DEF Taken, Attached
  <2>2. PICK k \in Matches(s, d, s.heap[n].name) : Shifted(s, t, d, k)
    BY <1>9 DEF Taken
  <2>3. k \in DOMAIN s.heap[d].children
    BY DEF Matches
  <2> DEFINE x == s.heap[d].children[k]
  <2>4. n \in Placed(s)
    <3>1. n # NULL
      BY <1>2 DEF Attached
    <3> QED BY <1>9, <3>1, ResolvePlaced
  <2>5. Leaf(x)
    BY <1>9, <2>1, <2>4, TakenLeaf
  <2>6. LinkedNodes(t) = LinkedNodes(s) \ {x}
    BY <2>1, <2>2, <2>3, ShiftUnlinks
  <2>7. Above
    BY <2>1, <2>2, <2>3, ShiftedEntries
  <2> HIDE DEF x, Leaf, Above
  <2> QED BY <1>3, <2>5, <2>6, <2>7
<1>10. ASSUME NEW src, Renamed(s, t, src)
       PROVE  \E x : Leaf(x) /\ LiveNodes(s) \ {x} \subseteq LiveNodes(t)
  <2>1. PICK u, dir, d, k :
            /\ Grown(s, u, dir, c, REGULAR)
            /\ src \in Attached(s) /\ ~IsDirectory(s, src) /\ d = s.heap[src].parent
            /\ k \in DOMAIN u.heap[d].children
            /\ Shifted(u, t, d, k)
            /\ LinkedNodes(t) = (LinkedNodes(s) \ {src}) \cup {c}
    BY <1>10 DEF Renamed
  <2>2. d \in Nodes(s)
    BY <2>1, UpAttached DEF Attached
  <2>3. Good(u) /\ d \in Nodes(u)
    BY <2>1, <2>2 DEF Grown
  <2>4. Leaf(src)
    BY <1>2, <2>1, FileIsLeaf DEF IsDirectory
  <2>5. Above
    <3>1. /\ Nodes(t) = Nodes(u)
          /\ \A m \in Nodes(u) : t.heap[m].parent = u.heap[m].parent
      BY <2>1, <2>3, ShiftedEntries
    <3>2. \A m \in Nodes(s) : m \in Nodes(u) /\ u.heap[m].parent = s.heap[m].parent
      BY <2>1 DEF Grown
    <3> QED BY <3>1, <3>2
  <2>6. LinkedNodes(s) \ {src} \subseteq LinkedNodes(t)
    BY <2>1
  <2> HIDE DEF Leaf, Above
  <2> QED BY <1>3, <2>4, <2>5, <2>6
<1> DEFINE Lost == \E x : Leaf(x) /\ LiveNodes(s) \ {x} \subseteq LiveNodes(t)
<1> SUFFICES Lost
  OBVIOUS
<1> HIDE DEF Leaf, Above
<1>11. CASE \E type : Abandoned(s, t, c, type)
  BY <1>4, <1>6, <1>11
<1>12. CASE \E dir, type : Grown(s, t, dir, c, type)
  BY <1>4, <1>7, <1>12
<1>13. CASE \E n \in Nodes(s) : \E text : HasData(s, n) /\ Written(s, t, n, text)
  BY <1>4, <1>8, <1>13
<1> HIDE DEF Lost
<1>14. CASE \E a \in Arg : LET n == fs_resolve_path(s, a)
                          IN  /\ n \in Attached(s)
                              /\ ~(IsDirectory(s, n) /\ s.heap[n].children # << >>)
                              /\ Taken(s, t, n)
  BY <1>9, <1>14 DEF Lost
<1>15. CASE \E a \in Arg : Renamed(s, t, fs_resolve_path(s, a))
  BY <1>10, <1>15 DEF Lost
<1> QED BY <1>5, <1>11, <1>12, <1>13, <1>14, <1>15 DEF Step

(* The current directory and all above it stand: with AlwaysSound, an      *)
(* inductive invariant.                                                    *)
THEOREM AlwaysStanding == Spec => []Standing(fs)
<1>1. Init => Standing(fs)
  <2> SUFFICES ASSUME Init PROVE Standing(fs)
    OBVIOUS
  <2>1. Good(fs)
    BY InitGood DEF Init
  <2>2. fs.current_dir = ROOT
    BY DEF Init, fs_init
  <2> QED BY <2>1, <2>2, PlacedClosed DEF Standing
<1>2. Inv /\ Standing(fs) /\ [Next]_fs => Standing(fs)'
  <2> SUFFICES ASSUME Good(fs), Standing(fs), [Next]_fs PROVE Standing(fs')
    BY DEF Inv, Sound
  <2>1. CASE Next
    BY <2>1, NextStep, StepStanding
  <2>2. CASE UNCHANGED fs
    BY <2>2
  <2> QED BY <2>1, <2>2
<1> QED BY <1>1, <1>2, AlwaysSound, PTL DEF Spec

(* One command makes at most one node unreachable, and that node has       *)
(* nothing below it: also rmdir of a directory that is gone, whose name    *)
(* something else may have by now.                                         *)
THEOREM LosesLeaf == Spec => LosesOneLeaf
<1> DEFINE A == fs'.heap # fs.heap =>
                  \A lost \in {LiveNodes(fs) \ LiveNodes(fs')} :
                    /\ Cardinality(lost) <= 1
                    /\ \A n \in lost : fs.heap[n].children = << >>
<1>1. Inv /\ Standing(fs) /\ [Next]_fs => [A]_fs
  <2> SUFFICES ASSUME Good(fs), Standing(fs), Next, fs'.heap # fs.heap,
                      NEW lost, lost = LiveNodes(fs) \ LiveNodes(fs')
               PROVE  /\ Cardinality(lost) <= 1
                      /\ \A n \in lost : fs.heap[n].children = << >>
    BY DEF Inv, Sound
  <2>1. PICK x : /\ x \in Nodes(fs) => fs.heap[x].children = << >>
                 /\ LiveNodes(fs) \ {x} \subseteq LiveNodes(fs')
    BY NextStep, StepLoses
  <2>2. lost = {} \/ lost = {x}
    BY <2>1
  <2>3. Cardinality(lost) <= 1
    <3>1. Cardinality({}) = 0 /\ Cardinality({x}) = 1
      BY FS_EmptySet, FS_Singleton
    <3> QED BY <2>2, <3>1
  <2>4. \A n \in lost : n = x /\ n \in Nodes(fs)
    BY <2>2 DEF LiveNodes
  <2> QED BY <2>1, <2>3, <2>4
<1> QED BY <1>1, AlwaysSound, AlwaysStanding, PTL DEF Spec, LosesOneLeaf

-------------------------------------------------------------------------------
(* The commands that read. *)

(* A sequence with one more element. *)
LEMMA OneMoreSegment ==
    ASSUME NEW d \in Seq(Segment), d # << >>, NEW n \in Segment
    PROVE  LET e == d \o <<n>>
           IN  /\ e = Append(d, n) /\ e \in Seq(Segment) /\ e # << >>
               /\ Len(d) = 1 \/ Len(d) > 1
               /\ Len(e) > 1 /\ e[1] = d[1] /\ e[Len(e)] = n
               /\ Tail(d) \in Seq(Segment) /\ Tail(e) = Append(Tail(d), n)
               /\ Len(d) > 1 => Tail(d)[Len(Tail(d))] = d[Len(d)]
               /\ Tail(e)[Len(Tail(e))] = n
<1> DEFINE e == d \o <<n>>
           k == Len(d)
<1>1. k \in Nat /\ k > 0
  OBVIOUS
<1>2. e = Append(d, n)
  BY AppendIsConcat
<1> HIDE DEF e
<1>3. /\ e \in Seq(Segment) /\ e # << >> /\ Len(e) = k + 1 /\ e[k + 1] = n
      /\ \A i \in 1..k : e[i] = d[i]
  BY <1>2, AppendProperties
<1>4. Tail(e) = Append(Tail(d), n)
  BY <1>2, HeadTailAppend
<1>5. /\ Tail(d) \in Seq(Segment) /\ Len(Tail(d)) = k - 1
      /\ \A i \in 1..(k - 1) : Tail(d)[i] = d[i + 1]
  BY HeadTailProperties
<1>6. Tail(e)[Len(Tail(e))] = n
  <2>1. /\ Len(Append(Tail(d), n)) = Len(Tail(d)) + 1
        /\ Append(Tail(d), n)[Len(Tail(d)) + 1] = n
    BY <1>5, AppendProperties
  <2> QED BY <1>4, <2>1
<1>7. k = 1 \/ k > 1
  <2> HIDE DEF k
  <2> QED BY <1>1
<1>8. k > 1 => Tail(d)[Len(Tail(d))] = d[k]
  <2> HIDE DEF k
  <2>1. k > 1 => k - 1 \in 1..(k - 1) /\ (k - 1) + 1 = k
    BY <1>1
  <2> QED BY <1>5, <2>1
<1>9. Len(e) > 1 /\ e[1] = d[1] /\ e[Len(e)] = n
  <2> HIDE DEF k
  <2> QED BY <1>1, <1>3
<1> QED BY <1>2, <1>3, <1>4, <1>5, <1>6, <1>7, <1>8, <1>9 DEF e

(* The tokens of "dir/n" are those of "dir", then n. *)
LEMMA TokensChild ==
    ASSUME NEW d \in String, d # << >>, Last(d) # EMPTY, NEW n \in Name
    PROVE  LET e == d \o <<n>>
           IN  /\ e \in String /\ e # << >>
               /\ IsAbsolute(e) <=> IsAbsolute(d)
               /\ Tokens(d) \in String
               /\ Tokens(e) = Append(Tokens(d), n)
<1> DEFINE e == d \o <<n>>
<1>1. n \in Segment /\ n # EMPTY
  BY NamesAssumption DEF Segment
<1>2. d \in Seq(Segment) /\ d[Len(d)] # EMPTY
  BY DEF String, Last
<1>3. /\ e = Append(d, n) /\ e \in Seq(Segment) /\ e # << >>
      /\ Len(d) = 1 \/ Len(d) > 1
      /\ Len(e) > 1 /\ e[1] = d[1] /\ e[Len(e)] = n
      /\ Tail(d) \in Seq(Segment) /\ Tail(e) = Append(Tail(d), n)
      /\ Len(d) > 1 => Tail(d)[Len(Tail(d))] = d[Len(d)]
      /\ Tail(e)[Len(Tail(e))] = n
  BY <1>1, <1>2, OneMoreSegment
<1> HIDE DEF e
<1>4. d[1] = EMPTY => Len(d) > 1
  BY <1>2, <1>3, Zenon
<1>5. IsAbsolute(d) <=> d[1] = EMPTY
  BY <1>4, Zenon DEF IsAbsolute
<1>6. IsAbsolute(e) <=> d[1] = EMPTY
  <2>1. Len(e) > 1 /\ e[1] = d[1]
    BY <1>3
  <2>2. IsAbsolute(e) <=> e[1] = EMPTY
    BY <2>1, Zenon DEF IsAbsolute
  <2> QED BY <2>1, <2>2
<1>7. CASE d[1] = EMPTY
  <2>1. Tokens(d) = Tail(d)
    BY <1>2, <1>3, <1>5, <1>7, <1>4, Zenon DEF Tokens, Last
  <2>2. Tokens(e) = Tail(e)
    BY <1>1, <1>3, <1>6, <1>7, Zenon DEF Tokens, Last
  <2> QED BY <1>3, <1>5, <1>6, <2>1, <2>2, Zenon DEF String, e
<1>8. CASE d[1] # EMPTY
  <2>1. Tokens(d) = d
    BY <1>2, <1>5, <1>8, Zenon DEF Tokens, Last
  <2>2. Tokens(e) = e
    BY <1>1, <1>3, <1>6, <1>8, Zenon DEF Tokens, Last
  <2> QED BY <1>2, <1>3, <1>5, <1>6, <2>1, <2>2, Zenon DEF String, e
<1> QED BY <1>7, <1>8

(* A path with one more token leads one step further. *)
LEMMA WalkChild ==
    ASSUME NEW s, Good(s), NEW start \in Attached(s), NEW tokens \in String, NEW n \in Segment
    PROVE  LET more == Append(tokens, n)
           IN  Walk(s, start, more)[Len(more)]
                 = ResolveToken(s, Walk(s, start, tokens)[Len(tokens)], n)
<1> DEFINE k == Len(tokens)
           more == Append(tokens, n)
           w == Walk(s, start, tokens)
           v == Walk(s, start, more)
<1>1. k \in Nat /\ Len(more) = k + 1 /\ more[k + 1] = n /\ \A i \in 1..k : more[i] = tokens[i]
  BY DEF String
<1>2. w[0] = start /\ \A i \in 1..k : w[i] = ResolveToken(s, w[i - 1], tokens[i])
  BY <1>1, WalkAttached
<1>3. v[0] = start /\ \A i \in 1..(k + 1) : v[i] = ResolveToken(s, v[i - 1], more[i])
  <2>1. Len(more) \in Nat
    BY <1>1
  <2> HIDE DEF more
  <2>2. v[0] = start /\ \A i \in 1..Len(more) : v[i] = ResolveToken(s, v[i - 1], more[i])
    BY <2>1, WalkAttached
  <2> HIDE DEF v
  <2> QED BY <1>1, <2>2
<1> HIDE DEF w, v, more, k
<1> DEFINE P == {i \in 0..k : v[i] = w[i]}
<1>4. 0 \in P
  BY <1>1, <1>2, <1>3
<1>5. ASSUME NEW i \in Nat, i < k, i \in P PROVE i + 1 \in P
  <2>1. i + 1 \in 1..k /\ i + 1 \in 1..(k + 1) /\ (i + 1) - 1 = i
    BY <1>1, <1>5
  <2>2. /\ v[i + 1] = ResolveToken(s, v[i], more[i + 1])
        /\ w[i + 1] = ResolveToken(s, w[i], tokens[i + 1])
    BY <1>2, <1>3, <2>1
  <2>3. v[i + 1] = w[i + 1]
    BY <1>1, <1>5, <2>1, <2>2
  <2> QED BY <1>1, <2>1, <2>3
<1>6. k \in P
  <2> HIDE DEF P
  <2>1. \A i \in 0..k : i \in P
    BY <1>1, <1>4, <1>5, UpTo
  <2> QED BY <1>1, <2>1
<1>7. k + 1 \in 1..(k + 1) /\ (k + 1) - 1 = k
  BY <1>1
<1>8. v[k + 1] = ResolveToken(s, w[k], n)
  BY <1>1, <1>3, <1>6, <1>7
<1> QED BY <1>1, <1>8 DEF v, w, more, k

(* A path of one token leads one step from where it starts. *)
LEMMA WalkOne ==
    ASSUME NEW s, Good(s), NEW n
    PROVE  /\ ~(Len(<<n>>) > 1) /\ Last(<<n>>) = n
           /\ Walk(s, s.current_dir, <<n>>)[Len(<<n>>)] = ResolveToken(s, s.current_dir, n)
<1> DEFINE ts == <<n>>
           w == Walk(s, s.current_dir, ts)
<1>1. Len(ts) = 1 /\ ts[1] = n
  OBVIOUS
<1> HIDE DEF ts
<1>2. ~(Len(ts) > 1) /\ Last(ts) = n
  BY <1>1 DEF Last
<1>3. s.current_dir \in Attached(s) /\ Len(ts) \in Nat
  BY <1>1, RootAttached
<1>4. w[0] = s.current_dir /\ \A i \in 1..Len(ts) : w[i] = ResolveToken(s, w[i - 1], ts[i])
  BY <1>3, WalkAttached
<1> HIDE DEF w
<1>5. 1 \in 1..Len(ts) /\ 1 - 1 = 0
  BY <1>1
<1>6. w[1] = ResolveToken(s, w[0], ts[1])
  BY <1>4, <1>5
<1>7. w[Len(ts)] = ResolveToken(s, s.current_dir, n)
  BY <1>1, <1>4, <1>6
<1> QED BY <1>2, <1>7 DEF ts, w

(* "n" leads to the entry n of the current directory. *)
LEMMA ResolveHere ==
    ASSUME NEW s, Good(s), NEW n, n # EMPTY
    PROVE  fs_resolve_path(s, <<n>>) = ResolveToken(s, s.current_dir, n)
<1> DEFINE ts == <<n>>
<1>1. /\ ~(Len(ts) > 1)
      /\ Last(ts) = n
      /\ Walk(s, s.current_dir, ts)[Len(ts)] = ResolveToken(s, s.current_dir, n)
  BY WalkOne, Zenon
<1> HIDE DEF ts
<1>2. ~IsAbsolute(ts)
  BY <1>1, Zenon DEF IsAbsolute
<1>3. Tokens(ts) = ts
  BY <1>1, <1>2, Zenon DEF Tokens
<1>4. fs_resolve_path(s, ts) = Walk(s, s.current_dir, ts)[Len(ts)]
  BY <1>2, <1>3, Zenon DEF fs_resolve_path
<1> QED BY <1>1, <1>4, Zenon DEF ts

(* "dir/n" leads to the entry n of what "dir" leads to. *)
LEMMA ResolveBelow ==
    ASSUME NEW s, Good(s), NEW dir \in String, dir # << >>, Last(dir) # EMPTY, NEW n \in Name
    PROVE  fs_resolve_path(s, dir \o <<n>>) = ResolveToken(s, fs_resolve_path(s, dir), n)
<1> DEFINE e == dir \o <<n>>
           start == IF IsAbsolute(dir) THEN ROOT ELSE s.current_dir
<1>1. /\ IsAbsolute(e) <=> IsAbsolute(dir)
      /\ Tokens(dir) \in String
      /\ Tokens(e) = Append(Tokens(dir), n)
  BY TokensChild
<1> HIDE DEF e
<1>2. /\ fs_resolve_path(s, dir) = Walk(s, start, Tokens(dir))[Len(Tokens(dir))]
      /\ fs_resolve_path(s, e) = Walk(s, start, Tokens(e))[Len(Tokens(e))]
  BY <1>1 DEF fs_resolve_path
<1>3. start \in Attached(s) /\ n \in Segment
  BY RootAttached DEF Segment
<1> HIDE DEF start
<1>4. fs_resolve_path(s, e) = ResolveToken(s, fs_resolve_path(s, dir), n)
  BY <1>1, <1>2, <1>3, WalkChild
<1> QED BY <1>4 DEF e

(* Both as ls, stat, cat and tree find their directory. *)
LEMMA ResolveChild ==
    ASSUME NEW s, Good(s), NEW dir, dir = << >> \/ (dir \in Arg /\ Last(dir) # EMPTY),
           NEW n \in Name, directory(s, dir) # NULL
    PROVE  /\ directory(s, dir) \in Attached(s) /\ IsDirectory(s, directory(s, dir))
           /\ fs_resolve_path(s, dir \o <<n>>) = fs_find_child(s, directory(s, dir), <<n>>)
<1> DEFINE d == directory(s, dir)
<1>1. n \in Segment
  BY DEF Segment
<1>2. n \notin {EMPTY, ".", ".."}
  BY NamesAssumption
<1>3. ASSUME NEW m, m # NULL PROVE ResolveToken(s, m, n) = fs_find_child(s, m, <<n>>)
  BY <1>2, <1>3 DEF ResolveToken
<1>4. CASE dir = << >>
  <2>1. d = s.current_dir
    BY <1>4 DEF directory
  <2>2. s.current_dir \in Attached(s) /\ s.heap[s.current_dir].type = DIRECTORY
    BY RootAttached DEF Good, AnchoredDirs
  <2>3. d # NULL
    OBVIOUS
  <2> HIDE DEF d
  <2>4. d \in Attached(s) /\ IsDirectory(s, d)
    BY <2>1, <2>2, <2>3 DEF IsDirectory
  <2>5. dir \o <<n>> = <<n>>
    BY <1>4
  <2>6. fs_resolve_path(s, <<n>>) = ResolveToken(s, s.current_dir, n)
    BY <1>1, <1>2, ResolveHere
  <2> QED BY <1>3, <2>1, <2>3, <2>4, <2>5, <2>6 DEF d
<1>5. CASE dir \in Arg /\ Last(dir) # EMPTY
  <2>1. dir \in String /\ dir # << >>
    BY <1>5, ArgString
  <2>2. d = fs_resolve_path(s, dir) /\ IsDirectory(s, d) /\ d # NULL
    BY <2>1 DEF directory
  <2>3. fs_resolve_path(s, dir \o <<n>>) = ResolveToken(s, fs_resolve_path(s, dir), n)
    BY <1>5, <2>1, ResolveBelow
  <2> HIDE DEF d
  <2>4. d \in Attached(s)
    BY <2>1, <2>2, ResolveAttached
  <2> QED BY <1>3, <2>2, <2>3, <2>4 DEF d
<1> QED BY <1>4, <1>5

(* cat prints what stat counts, also for a file that never got a buffer. *)
LEMMA CatPrintsSize ==
    ASSUME NEW s, Good(s), Filed(s), NEW n \in Nodes(s), ~IsDirectory(s, n)
    PROVE  Len(fs_read_file(s, n)) >= s.heap[n].size
<1>1. n # NULL /\ s.heap[n] \in fs_node_t /\ s.heap[n].type = REGULAR
  <2>1. n # NULL /\ s.heap[n] \in fs_node_t
    BY Types DEF Good
  <2> QED BY <2>1 DEF IsDirectory, fs_node_t
<1>2. CASE s.heap[n].data # NODATA
  BY <1>1, <1>2, ReadReachesSize DEF HasData, Filed
<1>3. CASE s.heap[n].data = NODATA
  <2>1. s.heap[n].size = 0
    BY <1>3 DEF Filed, NoSize
  <2>2. fs_read_file(s, n) = << >>
    <3> DEFINE T == {i \in DOMAIN << >> : << >>[i] = NUL} \cup {Len(<< >>) + 1}
    <3>1. fs_read_file(s, n) = SubSeq(<< >>, 1, Min(T) - 1)
      BY <1>3 DEF fs_read_file, NODATA
    <3>2. T = {1}
      OBVIOUS
    <3>3. Min({1}) = 1
      BY MinNat
    <3> HIDE DEF T
    <3>4. fs_read_file(s, n) = SubSeq(<< >>, 1, 0)
      BY <3>1, <3>2, <3>3
    <3>5. SubSeq(<< >>, 1, 0) = << >>
      BY SubSeqEmpty
    <3> QED BY <3>4, <3>5
  <2>3. Len(<< >>) = 0
    OBVIOUS
  <2> QED BY <2>1, <2>2, <2>3
<1> QED BY <1>2, <1>3

(* ls, stat and cat agree on what a directory holds and how long it is. *)
THEOREM ReadersTellTheSame == Spec => []ReadersAgree
<1>1. Inv => ReadersAgree
  <2> SUFFICES ASSUME Good(fs), Filed(fs), NEW dir,
                      dir = << >> \/ (dir \in Arg /\ Last(dir) # EMPTY),
                      directory(fs, dir) # NULL, NEW n \in Name
               PROVE  LET listed == ToSet(cmd_ls(fs, dir))
                          stat == cmd_stat(fs, dir \o <<n>>)
                          cat == cmd_cat(fs, dir \o <<n>>)
                      IN  /\ <<n>> \in listed <=> stat.ok
                          /\ cat.ok => Len(cat.text) >= stat.count
    BY DEF Inv, Sound, ReadersAgree
  <2> DEFINE d == directory(fs, dir)
             m == fs_resolve_path(fs, dir \o <<n>>)
             e == fs.heap[d].children
  <2>1. d \in Attached(fs) /\ IsDirectory(fs, d) /\ m = fs_find_child(fs, d, <<n>>)
    BY ResolveChild
  <2>2. d \in Nodes(fs)
    BY <2>1 DEF Attached
  <2>3. m \in Nodes(fs) \cup {NULL}
    <3> HIDE DEF d, m
    <3>1. fs_find_child(fs, d, <<n>>) \in Attached(fs) \cup {NULL}
      BY <2>2, Find
    <3> QED BY <2>1, <3>1 DEF Attached
  <2>4. cmd_ls(fs, dir) = [i \in DOMAIN e |-> fs.heap[e[i]].name]
    BY DEF cmd_ls
  <2>5. cmd_stat(fs, dir \o <<n>>).ok <=> m # NULL
    BY DEF cmd_stat
  <2>6. cmd_cat(fs, dir \o <<n>>).ok <=> m # NULL /\ ~IsDirectory(fs, m)
    BY DEF cmd_cat
  <2>7. m # NULL /\ ~IsDirectory(fs, m) =>
          /\ cmd_cat(fs, dir \o <<n>>).text = fs_read_file(fs, m)
          /\ cmd_stat(fs, dir \o <<n>>).count = fs.heap[m].size
    BY DEF cmd_cat, cmd_stat
  <2> HIDE DEF m, d
  <2>8. <<n>> \in ToSet(cmd_ls(fs, dir)) <=> m # NULL
    <3>1. <<n>> \in ToSet(cmd_ls(fs, dir)) <=> Matches(fs, d, <<n>>) # {}
      BY <2>4 DEF ToSet, Matches
    <3>2. m = IF Matches(fs, d, <<n>>) # {} THEN e[Min(Matches(fs, d, <<n>>))] ELSE NULL
      BY <2>1 DEF fs_find_child
    <3>3. Matches(fs, d, <<n>>) # {} => e[Min(Matches(fs, d, <<n>>))] # NULL
      <4> SUFFICES ASSUME Matches(fs, d, <<n>>) # {} PROVE e[Min(Matches(fs, d, <<n>>))] # NULL
        OBVIOUS
      <4>1. Min(Matches(fs, d, <<n>>)) \in Matches(fs, d, <<n>>)
        BY <2>2, MatchesNat, MinNat DEF Good
      <4>2. Min(Matches(fs, d, <<n>>)) \in DOMAIN e
        BY <4>1 DEF Matches
      <4> QED BY <2>2, <4>2, Types DEF Good
    <3> QED BY <3>1, <3>2, <3>3
  <2>9. m # NULL /\ ~IsDirectory(fs, m) => Len(fs_read_file(fs, m)) >= fs.heap[m].size
    BY <2>3, CatPrintsSize
  <2> QED BY <2>5, <2>6, <2>7, <2>8, <2>9
<1> QED BY <1>1, AlwaysSound, PTL

-------------------------------------------------------------------------------
(* The prompt.  Only cd writes current_dir and current_path. *)

(* s has a place. *)
Placeful(s) == "current_dir" \in DOMAIN s /\ "current_path" \in DOMAIN s

(* t has the same. *)
Still(s, t) ==
    /\ DOMAIN t = DOMAIN s
    /\ t.current_dir = s.current_dir
    /\ t.current_path = s.current_path

(* Assigning to another field. *)
LEMMA FieldStill ==
    ASSUME NEW s, Placeful(s), NEW v
    PROVE  /\ Still(s, [s EXCEPT !.heap = v])
           /\ Still(s, [s EXCEPT !.memory_offset = v])
           /\ Still(s, [s EXCEPT !.total_files = v])
BY DEF Still, Placeful

(* One thing after another. *)
LEMMA StillTwice ==
    ASSUME NEW s, NEW t, NEW u, Placeful(s), Still(s, t), Still(t, u)
    PROVE  Still(s, u) /\ Placeful(t) /\ Placeful(u)
BY DEF Still, Placeful

(* Creating a node leaves the place alone. *)
LEMMA CreateStill ==
    ASSUME NEW s, Placeful(s), NEW name, NEW type
    PROVE  Still(s, fs_create_file(s, name, type).fs)
<1> DEFINE node == kmalloc(s, NODE_SIZE)
           buf == IF type = REGULAR THEN kmalloc(node.fs, MAX_FILE_SIZE)
                  ELSE Result(node.fs, FALSE)
           r == fs_create_file(s, name, type)
<1>0. Still(s, s)
  BY DEF Still
<1>1. ASSUME NEW t, Placeful(t), NEW size PROVE Still(t, kmalloc(t, size).fs)
  <2> DEFINE u == [t EXCEPT !.memory_offset = t.memory_offset + size]
  <2>1. Still(t, t) /\ Still(t, u)
    BY <1>1, FieldStill DEF Still
  <2>2. kmalloc(t, size).fs \in {t, u}
    BY DEF kmalloc, Result
  <2> HIDE DEF u
  <2> QED BY <2>1, <2>2
<1>2. Still(s, node.fs) /\ Placeful(node.fs)
  <2>1. Still(s, node.fs)
    BY <1>1
  <2> HIDE DEF node
  <2> QED BY <2>1 DEF Still, Placeful
<1> HIDE DEF node
<1>3. Still(node.fs, buf.fs)
  BY <1>1, <1>2 DEF Result, Still
<1>4. Still(s, buf.fs) /\ Placeful(buf.fs)
  <2> HIDE DEF buf
  <2> QED BY <1>2, <1>3, StillTwice
<1> DEFINE new == [name     |-> Truncate(name),
                   type     |-> type,
                   size     |-> 0,
                   data     |-> IF buf.ret THEN [i \in 1..MAX_FILE_SIZE |-> NUL]
                                           ELSE NODATA,
                   parent   |-> NULL,
                   children |-> << >>]
           u == [buf.fs EXCEPT !.heap = Append(buf.fs.heap, new)]
           v == [u EXCEPT !.total_files = u.total_files + 1]
           w == [buf.fs EXCEPT !.heap = Append(@, new), !.total_files = @ + 1]
<1>5. r = IF s.total_files >= MAX_TOTAL_FILES \/ ~node.ret
          THEN Result(s, NULL) ELSE Result(w, Len(s.heap) + 1)
  BY DEF fs_create_file, node
<1> HIDE DEF buf, new
<1>6. Still(buf.fs, w)
  BY <1>4 DEF Still, Placeful
<1>7. Still(s, w)
  BY <1>4, <1>6, StillTwice
<1> HIDE DEF w, r
<1>8. r.fs \in {s, w}
  BY <1>5 DEF Result
<1>9. Still(s, r.fs)
  BY <1>0, <1>7, <1>8
<1> QED BY <1>9 DEF r

(* So is entering a node in a directory, *)
LEMMA AddStill ==
    ASSUME NEW s, Placeful(s), NEW dir, NEW child
    PROVE  Still(s, fs_add_child(s, dir, child).fs)
<1> DEFINE w == [s EXCEPT !.heap[dir].children = Append(@, child), !.heap[child].parent = dir]
<1>1. Still(s, w) /\ Still(s, s)
  BY DEF Still, Placeful
<1>2. fs_add_child(s, dir, child).fs \in {s, w}
  BY DEF fs_add_child, Result
<1> HIDE DEF w
<1> QED BY <1>1, <1>2

(* taking an entry out of one, *)
LEMMA RemoveStill ==
    ASSUME NEW s, Placeful(s), NEW dir, NEW name
    PROVE  Still(s, fs_remove_child(s, dir, name).fs)
<1> DEFINE w == [s EXCEPT !.heap[dir].children = ShiftOut(@, Min(Matches(s, dir, name)))]
<1>1. Still(s, w) /\ Still(s, s)
  BY DEF Still, Placeful
<1>2. fs_remove_child(s, dir, name).fs \in {s, w}
  BY DEF fs_remove_child, Result
<1> HIDE DEF w
<1> QED BY <1>1, <1>2

(* deleting a node *)
LEMMA DeleteStill ==
    ASSUME NEW s, Placeful(s), NEW n
    PROVE  Still(s, fs_delete_node(s, n).fs)
<1> DEFINE t == fs_remove_child(s, s.heap[n].parent, s.heap[n].name).fs
           w == [t EXCEPT !.total_files = (@ + SIZE_RANGE - 1) % SIZE_RANGE]
<1>1. Still(s, t) /\ Placeful(t)
  BY RemoveStill DEF Still, Placeful
<1>2. fs_delete_node(s, n).fs \in {s, w}
  BY DEF fs_delete_node, Result
<1> HIDE DEF t
<1>3. Still(t, w)
  BY <1>1 DEF Still, Placeful
<1> HIDE DEF w
<1>4. Still(s, w) /\ Still(s, s)
  BY <1>1, <1>3 DEF Still
<1> QED BY <1>2, <1>4

(* and writing a file. *)
LEMMA WriteStill ==
    ASSUME NEW s, Placeful(s), NEW n, NEW text
    PROVE  Still(s, fs_write_file(s, n, text).fs)
<1> DEFINE size == Min({Len(text), MAX_FILE_SIZE})
           w == [s EXCEPT !.heap[n].data = [i \in 1..MAX_FILE_SIZE |->
                                               IF i <= size THEN text[i] ELSE @[i]],
                          !.heap[n].size = size]
<1>1. Still(s, w) /\ Still(s, s)
  BY DEF Still, Placeful
<1>2. fs_write_file(s, n, text).fs \in {s, w}
  BY DEF fs_write_file, Result
<1> HIDE DEF w
<1> QED BY <1>1, <1>2

(* So are the commands other than cd. *)
LEMMA CommandsStill ==
    ASSUME NEW s, Placeful(s), NEW a, NEW b, NEW text
    PROVE  /\ Still(s, cmd_mkdir(s, a).fs) /\ Still(s, cmd_touch(s, a).fs)
           /\ Still(s, cmd_rmdir(s, a).fs) /\ Still(s, cmd_rm(s, a).fs)
           /\ Still(s, cmd_cp(s, a, b).fs) /\ Still(s, cmd_mv(s, a, b).fs)
           /\ Still(s, cmd_write(s, a, text).fs)
           /\ Still(s, editor_save_file(s, a, text).fs)
<1>1. Still(s, s)
  BY DEF Still
<1>2. \A t, u : Still(s, t) /\ Still(t, u) => Still(s, u) /\ Placeful(t) /\ Placeful(u)
  BY StillTwice
<1>3. ASSUME NEW t, Still(s, t) PROVE Placeful(t)
  BY <1>1, <1>2, <1>3
<1>4. ASSUME NEW type PROVE Still(s, create_here(s, a, type).fs)
  <2> DEFINE node == fs_create_file(s, a, type)
             added == fs_add_child(node.fs, s.current_dir, node.ret)
  <2>1. create_here(s, a, type).fs \in {node.fs, added.fs}
    BY DEF create_here, Outcome
  <2>2. Still(s, node.fs)
    BY CreateStill
  <2>3. Still(node.fs, added.fs)
    BY <1>3, <2>2, AddStill
  <2>4. Still(s, added.fs)
    BY <1>2, <2>2, <2>3
  <2> QED BY <2>1, <2>2, <2>4
<1>5. ASSUME NEW n PROVE Still(s, unlink(s, n))
  <2> DEFINE t == fs_remove_child(s, s.heap[n].parent, s.heap[n].name).fs
  <2>1. Still(s, t)
    BY RemoveStill
  <2>2. unlink(s, n) = fs_delete_node(t, n).fs
    BY DEF unlink
  <2> HIDE DEF t
  <2>3. Still(t, fs_delete_node(t, n).fs)
    BY <1>3, <2>1, DeleteStill
  <2> QED BY <1>2, <2>1, <2>2, <2>3
<1>6. Still(s, fs_copy_file(s, a, b).fs)
  <2> DEFINE src == fs_resolve_path(s, a)
             dest == fs_create_file(s, fs_get_filename(b), REGULAR)
             data == SubSeq(s.heap[src].data, 1, s.heap[src].size)
             written == IF s.heap[src].data # NODATA /\ s.heap[src].size > 0
                        THEN fs_write_file(dest.fs, dest.ret, data).fs ELSE dest.fs
             dir == fs_resolve_path(s, fs_get_parent_path(b))
             added == fs_add_child(written, dir, dest.ret)
             gone == fs_delete_node(added.fs, dest.ret).fs
  <2>1. fs_copy_file(s, a, b).fs \in {s, added.fs, gone}
    BY DEF fs_copy_file, Result
  <2>2. Still(s, dest.fs)
    BY CreateStill
  <2> HIDE DEF dest, data, src, dir
  <2>3. Still(dest.fs, fs_write_file(dest.fs, dest.ret, data).fs) /\ Still(dest.fs, dest.fs)
    BY <1>3, <2>2, WriteStill DEF Still
  <2>4. Still(s, written)
    BY <1>2, <2>2, <2>3
  <2> HIDE DEF written
  <2>5. Still(written, added.fs)
    BY <1>3, <2>4, AddStill
  <2>6. Still(s, added.fs)
    BY <1>2, <2>4, <2>5
  <2> HIDE DEF added
  <2>7. Still(added.fs, gone)
    BY <1>3, <2>6, DeleteStill
  <2>8. Still(s, gone)
    BY <1>2, <2>6, <2>7
  <2> QED BY <1>1, <2>1, <2>6, <2>8
<1>7. Still(s, fs_move_file(s, a, b).fs)
  <2> DEFINE copy == fs_copy_file(s, a, b)
             src == fs_resolve_path(copy.fs, a)
             gone == fs_delete_node(copy.fs, src).fs
  <2>1. fs_move_file(s, a, b).fs \in {copy.fs, gone}
    BY DEF fs_move_file, Result
  <2>2. Still(s, copy.fs)
    BY <1>6
  <2> HIDE DEF copy, src
  <2>3. Still(copy.fs, gone)
    BY <1>3, <2>2, DeleteStill
  <2> QED BY <1>2, <2>1, <2>2, <2>3
<1> DEFINE found == fs_resolve_path(s, a)
           node == fs_create_file(s, a, REGULAR)
           added == fs_add_child(node.fs, s.current_dir, node.ret)
<1>8. Still(s, node.fs)
  BY CreateStill
<1>9. Still(s, added.fs)
  <2> HIDE DEF node
  <2>1. Still(node.fs, added.fs)
    BY <1>3, <1>8, AddStill
  <2> QED BY <1>2, <1>8, <2>1
<1>10. ASSUME NEW t, Still(s, t), NEW n
       PROVE  Still(s, fs_write_file(t, n, text).fs) /\ Still(s, fs_delete_node(t, n).fs)
  <2>1. Placeful(t)
    BY <1>3, <1>10
  <2>2. Still(t, fs_write_file(t, n, text).fs) /\ Still(t, fs_delete_node(t, n).fs)
    BY <2>1, WriteStill, DeleteStill
  <2> QED BY <1>2, <1>10, <2>2
<1>11. cmd_write(s, a, text).fs \in
         {s, fs_write_file(s, found, text).fs, fs_delete_node(added.fs, node.ret).fs,
          fs_write_file(added.fs, node.ret, text).fs}
  BY DEF cmd_write, Outcome
<1>12. \E t \in {s, added.fs} : \E n :
         editor_save_file(s, a, text).fs = fs_write_file(t, n, text).fs
  <2> DEFINE t == IF found = NULL /\ node.ret # NULL THEN added.fs ELSE s
             n == IF found = NULL THEN node.ret ELSE found
  <2>1. editor_save_file(s, a, text).fs = fs_write_file(t, n, text).fs
    BY DEF editor_save_file, Outcome
  <2>2. t \in {s, added.fs}
    OBVIOUS
  <2> HIDE DEF t, n
  <2> QED BY <2>1, <2>2
<1> HIDE DEF found, node, added
<1>13. cmd_mkdir(s, a).fs \in {s, create_here(s, a, DIRECTORY).fs}
  BY DEF cmd_mkdir, Outcome
<1>14. cmd_touch(s, a).fs \in {s, create_here(s, a, REGULAR).fs}
  BY DEF cmd_touch, Outcome
<1>15. \E n : cmd_rmdir(s, a).fs \in {s, unlink(s, n)}
  BY DEF cmd_rmdir, Outcome
<1>16. \E n : cmd_rm(s, a).fs \in {s, unlink(s, n)}
  BY DEF cmd_rm, Outcome
<1>17. cmd_cp(s, a, b).fs = fs_copy_file(s, a, b).fs
  BY DEF cmd_cp, Outcome
<1>18. cmd_mv(s, a, b).fs = fs_move_file(s, a, b).fs
  BY DEF cmd_mv, Outcome
<1>19. Still(s, cmd_write(s, a, text).fs)
  BY <1>1, <1>9, <1>10, <1>11
<1>20. Still(s, editor_save_file(s, a, text).fs)
  BY <1>1, <1>9, <1>10, <1>12
<1>21. Still(s, cmd_mkdir(s, a).fs) /\ Still(s, cmd_touch(s, a).fs)
  BY <1>1, <1>4, <1>13, <1>14
<1>22. Still(s, cmd_rmdir(s, a).fs) /\ Still(s, cmd_rm(s, a).fs)
  BY <1>1, <1>5, <1>15, <1>16
<1> QED BY <1>6, <1>7, <1>17, <1>18, <1>19, <1>20, <1>21, <1>22

(* Every step is still, or a cd. *)
LEMMA NextStill ==
    ASSUME Good(fs), Next
    PROVE  Still(fs, fs') \/ \E a \in Arg : Cd(a)
<1>1. Placeful(fs)
  BY Fields DEF Placeful
<1>2. ASSUME NEW a \in Arg, Mkdir(a) \/ Touch(a) \/ Rmdir(a) \/ Rm(a) PROVE Still(fs, fs')
  BY <1>1, <1>2, CommandsStill DEF Mkdir, Touch, Rmdir, Rm
<1>3. ASSUME NEW a \in Arg, NEW b \in Arg, Cp(a, b) \/ Mv(a, b) PROVE Still(fs, fs')
  BY <1>1, <1>3, CommandsStill DEF Cp, Mv
<1>4. ASSUME NEW a \in Arg, NEW t \in Text, Write(a, t) \/ Save(a, t) PROVE Still(fs, fs')
  BY <1>1, <1>4, CommandsStill DEF Write, Save
<1> QED BY <1>2, <1>3, <1>4 DEF Next, Command

(* The number of names that fs_update_current_path gathers, and the names. *)
UpDepth(s) == Min({i \in 0..MAX_DEPTH : Ancestors(s)[i] = ROOT} \cup {MAX_DEPTH})

Trail(s) == [k \in 1..UpDepth(s) |-> s.heap[Ancestors(s)[UpDepth(s) - k]].name]

(* The nodes of s are in t, with their names, types and parents. *)
Kept(s, t) ==
    \A m \in Nodes(s) : /\ m \in Nodes(t)
                        /\ t.heap[m].name = s.heap[m].name
                        /\ t.heap[m].type = s.heap[m].type
                        /\ t.heap[m].parent = s.heap[m].parent

(* How far up the names go. *)
LEMMA UpDepthIs ==
    ASSUME NEW s, Good(s)
    PROVE  /\ UpDepth(s) \in 0..MAX_DEPTH
           /\ UpDepth(s) = MAX_DEPTH \/ Ancestors(s)[UpDepth(s)] = ROOT
           /\ \A i \in 0..MAX_DEPTH : Ancestors(s)[i] = ROOT => UpDepth(s) <= i
<1> DEFINE T == {i \in 0..MAX_DEPTH : Ancestors(s)[i] = ROOT} \cup {MAX_DEPTH}
<1>1. MAX_DEPTH \in Nat
  BY SizesAssumption
<1>2. Min(T) \in T /\ \A i \in T : Min(T) <= i
  <2>1. T \in SUBSET Nat /\ T # {}
    BY <1>1
  <2> HIDE DEF T
  <2> QED BY <2>1, MinNat
<1>3. UpDepth(s) = Min(T)
  BY DEF UpDepth
<1> QED BY <1>1, <1>2, <1>3

(* The names depend on the current directory, the parents and the names. *)
LEMMA SameTrail ==
    ASSUME NEW s, Good(s), NEW t, Good(t), Kept(s, t), t.current_dir = s.current_dir
    PROVE  Trail(t) = Trail(s)
<1> DEFINE v == Ancestors(s)
           w == Ancestors(t)
           P == {i \in 0..MAX_DEPTH : w[i] = v[i]}
<1>1. MAX_DEPTH \in Nat
  BY SizesAssumption
<1>2. \A i \in 0..MAX_DEPTH : v[i] \in Nodes(s)
  BY AncestorsAttached DEF Attached
<1>3. v[0] = s.current_dir /\ w[0] = t.current_dir
  BY AncestorsAttached
<1>4. \A i \in 1..MAX_DEPTH :
        /\ v[i] = IF v[i - 1] = ROOT THEN ROOT ELSE s.heap[v[i - 1]].parent
        /\ w[i] = IF w[i - 1] = ROOT THEN ROOT ELSE t.heap[w[i - 1]].parent
  BY AncestorsAttached
<1> HIDE DEF v, w
<1>5. 0 \in P
  BY <1>1, <1>3
<1>6. ASSUME NEW i \in Nat, i < MAX_DEPTH, i \in P PROVE i + 1 \in P
  <2>1. i + 1 \in 1..MAX_DEPTH /\ (i + 1) - 1 = i /\ i \in 0..MAX_DEPTH
    BY <1>1, <1>6
  <2>2. t.heap[v[i]].parent = s.heap[v[i]].parent
    BY <1>2, <2>1 DEF Kept
  <2>3. w[i + 1] = v[i + 1]
    BY <1>4, <1>6, <2>1, <2>2
  <2> QED BY <2>1, <2>3
<1>7. \A i \in 0..MAX_DEPTH : i \in P
  <2> HIDE DEF P
  <2> QED BY <1>1, <1>5, <1>6, UpTo
<1>8. \A i \in 0..MAX_DEPTH : w[i] = v[i]
  BY <1>7
<1>9. {i \in 0..MAX_DEPTH : w[i] = ROOT} = {i \in 0..MAX_DEPTH : v[i] = ROOT}
  BY <1>8
<1>10. UpDepth(t) = UpDepth(s) /\ UpDepth(s) \in 0..MAX_DEPTH
  BY <1>9, UpDepthIs DEF UpDepth, v, w
<1>11. ASSUME NEW k \in 1..UpDepth(s)
       PROVE  t.heap[w[UpDepth(s) - k]].name = s.heap[v[UpDepth(s) - k]].name
  <2>1. UpDepth(s) - k \in 0..MAX_DEPTH
    BY <1>1, <1>10
  <2> QED BY <1>2, <1>8, <2>1 DEF Kept
<1> QED BY <1>10, <1>11 DEF Trail, v, w

(* No command renames a node or moves it to another directory, and a new   *)
(* directory has the name that was typed.                                  *)
LEMMA StepKept ==
    ASSUME NEW s, Good(s), NEW t, Step(s, t)
    PROVE  /\ Kept(s, t)
           /\ \A m \in Nodes(t) \ Nodes(s) : t.heap[m].type = DIRECTORY =>
                \E a \in Arg : t.heap[m].name = Truncate(a)
<1> DEFINE c == Len(s.heap) + 1
           New(m) == t.heap[m].type = DIRECTORY => \E a \in Arg : t.heap[m].name = Truncate(a)
           Fine == Kept(s, t) /\ \A m \in Nodes(t) \ Nodes(s) : New(m)
<1> SUFFICES Fine
  OBVIOUS
<1> HIDE DEF Fine
<1>1. ASSUME Moved(s, t) PROVE Fine
  BY <1>1 DEF Moved, Kept, Nodes, Fine
<1>2. ASSUME NEW type, Abandoned(s, t, c, type), Called(t, c, type) PROVE Fine
  <2>1. Kept(s, t) /\ Nodes(t) = Nodes(s) \cup {c} /\ t.heap[c].type = type
    BY <1>2 DEF Abandoned, Loose, Kept
  <2>2. New(c)
    BY <1>2, <2>1 DEF Called, REGULAR, DIRECTORY
  <2> HIDE DEF New
  <2> QED BY <2>1, <2>2 DEF Fine
<1>3. ASSUME NEW dir, NEW type, Grown(s, t, dir, c, type), Called(t, c, type) PROVE Fine
  <2>1. Kept(s, t) /\ Nodes(t) = Nodes(s) \cup {c} /\ t.heap[c].type = type
    BY <1>3 DEF Grown, Kept
  <2>2. New(c)
    BY <1>3, <2>1 DEF Called, REGULAR, DIRECTORY
  <2> HIDE DEF New
  <2> QED BY <2>1, <2>2 DEF Fine
<1>4. ASSUME NEW n, NEW text, Written(s, t, n, text) PROVE Fine
  BY <1>4 DEF Written, Kept, Fine
<1>5. ASSUME NEW n, Taken(s, t, n) PROVE Fine
  <2> DEFINE d == s.heap[n].parent
  <2>1. d \in Nodes(s)
    BY <1>5 DEF Taken, Attached
  <2>2. CASE t.heap = s.heap
    BY <2>2 DEF Kept, Nodes, Fine
  <2>3. CASE t.heap # s.heap
    <3>1. PICK k \in Matches(s, d, s.heap[n].name) : Shifted(s, t, d, k)
      BY <1>5, <2>3 DEF Taken
    <3>2. k \in DOMAIN s.heap[d].children
      BY DEF Matches
    <3> QED BY <2>1, <3>1, <3>2, ShiftedEntries DEF Kept, Fine
  <2> QED BY <2>2, <2>3
<1>6. ASSUME NEW src, Renamed(s, t, src) PROVE Fine
  <2>1. PICK u, dir, d, k :
            /\ Grown(s, u, dir, c, REGULAR)
            /\ src \in Attached(s) /\ d = s.heap[src].parent
            /\ k \in DOMAIN u.heap[d].children
            /\ Shifted(u, t, d, k)
    BY <1>6 DEF Renamed
  <2>2. d \in Nodes(s)
    BY <2>1, UpAttached DEF Attached
  <2>3. /\ Good(u) /\ d \in Nodes(u) /\ Kept(s, u)
        /\ Nodes(u) = Nodes(s) \cup {c} /\ u.heap[c].type = REGULAR
    BY <2>1, <2>2 DEF Grown, Kept
  <2>4. Kept(u, t) /\ Nodes(t) = Nodes(u)
    <3>1. Good(u) /\ d \in Nodes(u) /\ k \in DOMAIN u.heap[d].children /\ Shifted(u, t, d, k)
      BY <2>1, <2>3
    <3>2. /\ Nodes(t) = Nodes(u)
          /\ \A m \in Nodes(u) : /\ t.heap[m].name = u.heap[m].name
                                 /\ t.heap[m].type = u.heap[m].type
                                 /\ t.heap[m].parent = u.heap[m].parent
      BY <3>1, ShiftedEntries
    <3> QED BY <3>2 DEF Kept
  <2>5. Kept(s, t)
    BY <2>3, <2>4 DEF Kept
  <2>6. New(c)
    <3>1. t.heap[c].type = u.heap[c].type
      BY <2>3, <2>4 DEF Kept
    <3> QED BY <2>3, <3>1 DEF REGULAR, DIRECTORY
  <2> HIDE DEF New
  <2> QED BY <2>3, <2>4, <2>5, <2>6 DEF Fine
<1> QED BY <1>1, <1>2, <1>3, <1>4, <1>5, <1>6 DEF Step

(* A name that fs_resolve_path reads as one token, and looks up. *)
Single(s, a) == \E token : token \notin {".", ".."} /\ s.heap[a].name = <<token>>

Plain(s, A) == \A a \in A : s.heap[a].parent \in A /\ (a = ROOT \/ Single(s, a))

(* m and every directory above it, but the root, have such a name: others  *)
(* can be made (mkdir a/b, mkdir ..) and never be entered.                 *)
NamedUp(s) == {m \in Attached(s) : \E A \in SUBSET Attached(s) : m \in A /\ Plain(s, A)}

(* No directory has the empty name, the one that is no token at the end. *)
NoName == <<EMPTY>>

DirsNamed(s) ==
    \A m \in Nodes(s) \ {ROOT} : s.heap[m].type = DIRECTORY => s.heap[m].name # NoName

(* What PromptIsTrue rests on, the current directory removed or not. *)
Addressed(s) ==
    /\ s.current_path = Trail(s)
    /\ s.current_dir \in NamedUp(s)
    /\ DirsNamed(s)

(* No token leads from such a node to one that is not. *)
LEMMA NamedWalkable ==
    ASSUME NEW s, Good(s)
    PROVE  Walkable(s, NamedUp(s)) /\ ROOT \in NamedUp(s)
<1>1. ROOT \in NamedUp(s)
  <2>1. ROOT \in Attached(s) /\ s.heap[ROOT].parent = ROOT
    BY RootAttached DEF Good, AnchoredDirs
  <2>2. Plain(s, {ROOT})
    BY <2>1 DEF Plain
  <2> QED BY <2>1, <2>2 DEF NamedUp
<1>2. ASSUME NEW m \in NamedUp(s), NEW token
      PROVE  ResolveToken(s, m, token) \in NamedUp(s) \cup {NULL}
  <2>1. PICK A \in SUBSET Attached(s) : m \in A /\ Plain(s, A)
    BY DEF NamedUp
  <2>2. s.heap[m].parent \in NamedUp(s) /\ m \in Nodes(s) /\ m # NULL
    BY <2>1, Types DEF NamedUp, Plain, Attached, Good
  <2> DEFINE x == fs_find_child(s, m, <<token>>)
  <2>3. ASSUME token \notin {".", ".."}, x # NULL PROVE x \in NamedUp(s)
    <3>1. PICK i \in DOMAIN s.heap[m].children :
              x = s.heap[m].children[i] /\ s.heap[s.heap[m].children[i]].name = <<token>>
      BY <2>2, <2>3, FindEntry
    <3>2. x \in Nodes(s) /\ s.heap[x].parent = m
      BY <2>2, <3>1, Types DEF Good, ChildrenLinked
    <3>3. Single(s, x)
      BY <2>3, <3>1 DEF Single
    <3> HIDE DEF x
    <3>4. x \in Attached(s)
      BY <2>2, <3>2 DEF Attached
    <3>5. Plain(s, A \cup {x})
      BY <2>1, <3>2, <3>3 DEF Plain
    <3> QED BY <2>1, <3>4, <3>5 DEF NamedUp
  <2> DEFINE y == ResolveToken(s, m, token)
  <2>4. y = CASE token = "." -> m
              [] token = ".." -> s.heap[m].parent
              [] OTHER -> x
    BY <2>2 DEF ResolveToken
  <2> HIDE DEF x, y
  <2>5. y \in NamedUp(s) \cup {NULL}
    BY <2>2, <2>3, <2>4
  <2> QED BY <2>5 DEF y
<1> QED BY <1>1, <1>2 DEF Walkable, NamedUp

(* What keeps names and parents keeps these nodes. *)
LEMMA KeptNamed ==
    ASSUME NEW s, NEW t, Kept(s, t)
    PROVE  NamedUp(s) \subseteq NamedUp(t)
<1> SUFFICES ASSUME NEW m \in NamedUp(s) PROVE m \in NamedUp(t)
  OBVIOUS
<1>1. PICK A \in SUBSET Attached(s) : m \in A /\ Plain(s, A)
  BY DEF NamedUp
<1>2. A \subseteq Nodes(s) /\ A \subseteq Attached(t)
  BY DEF Attached, Kept
<1>3. \A a \in A : t.heap[a].name = s.heap[a].name /\ t.heap[a].parent = s.heap[a].parent
  BY <1>2 DEF Kept
<1>4. Plain(t, A)
  BY <1>1, <1>3 DEF Plain, Single
<1> QED BY <1>1, <1>2, <1>4 DEF NamedUp

(* What cd does: nothing, or it enters a directory and gathers its names. *)
LEMMA CdEnters ==
    ASSUME NEW s, Good(s), NEW a \in Arg
    PROVE  LET t == cmd_cd(s, a).fs
               n == fs_resolve_path(s, a)
           IN  \/ t = s
               \/ /\ t.current_dir = n /\ n # NULL
                  /\ t.heap = s.heap
                  /\ t.current_path = Trail(t)
<1> DEFINE n == fs_resolve_path(s, a)
           u == [s EXCEPT !.current_dir = n]
           t == fs_update_current_path(u)
<1>1. cmd_cd(s, a).fs \in {s, fs_change_directory(s, a).fs}
  BY DEF cmd_cd, Outcome
<1>2. \/ fs_change_directory(s, a).fs = s
      \/ /\ n \in Attached(s) /\ IsDirectory(s, n)
         /\ fs_change_directory(s, a).fs = t
  BY ArgString, ChangeDirectoryGood
<1> HIDE DEF n
<1>3. ASSUME n \in Attached(s), IsDirectory(s, n)
      PROVE  t.current_dir = n /\ n # NULL /\ t.heap = s.heap /\ t.current_path = Trail(t)
  <2>1. Good(u) /\ u.heap = s.heap /\ u.current_dir = n
    BY <1>3, EnterGood
  <2> HIDE DEF u
  <2>2. t = [u EXCEPT !.current_path = Trail(u)]
    BY DEF fs_update_current_path, Trail, UpDepth
  <2>3. Good(t)
    BY <2>1, UpdatePathGood
  <2>4. t.heap = u.heap /\ t.current_dir = u.current_dir /\ t.current_path = Trail(u)
    BY <2>1, <2>2, Fields
  <2> HIDE DEF t
  <2>5. Kept(u, t)
    BY <2>4 DEF Kept, Nodes
  <2>6. Trail(t) = Trail(u)
    BY <2>1, <2>3, <2>4, <2>5, SameTrail
  <2>7. n # NULL
    BY <1>3, Types DEF Attached, Good
  <2> QED BY <2>1, <2>4, <2>6, <2>7
<1> HIDE DEF u, t
<1> QED BY <1>1, <1>2, <1>3 DEF n

(* Every command keeps the address. *)
LEMMA NextAddressed ==
    ASSUME Good(fs), Addressed(fs), Next
    PROVE  Addressed(fs')
<1>1. Step(fs, fs') /\ Good(fs')
  BY NextStep DEF Step
<1>2. Kept(fs, fs')
  BY <1>1, StepKept
<1>3. DirsNamed(fs')
  <2> SUFFICES ASSUME NEW m \in Nodes(fs') \ {ROOT}, fs'.heap[m].type = DIRECTORY
               PROVE  fs'.heap[m].name # NoName
    BY DEF DirsNamed
  <2>1. CASE m \in Nodes(fs)
    BY <1>2, <2>1 DEF Kept, DirsNamed, Addressed
  <2>2. CASE m \notin Nodes(fs)
    <3>1. PICK a \in Arg : fs'.heap[m].name = Truncate(a)
      BY <1>1, <2>2, StepKept
    <3> QED BY <3>1, OperandAssumption DEF NoName
  <2> QED BY <2>1, <2>2
<1>4. NamedUp(fs) \subseteq NamedUp(fs')
  BY <1>2, KeptNamed
<1>5. CASE Still(fs, fs')
  <2>1. fs'.current_dir = fs.current_dir /\ fs'.current_path = fs.current_path
    BY <1>5 DEF Still
  <2>2. Trail(fs') = Trail(fs)
    BY <1>1, <1>2, <2>1, SameTrail
  <2> QED BY <1>3, <1>4, <2>1, <2>2 DEF Addressed
<1>6. ASSUME NEW a \in Arg, Cd(a) PROVE Addressed(fs')
  <2> DEFINE n == fs_resolve_path(fs, a)
  <2>1. n \in NamedUp(fs) \cup {NULL}
    BY ArgString, NamedWalkable, ResolveStays DEF Addressed
  <2>2. \/ fs' = fs
        \/ fs'.current_dir = n /\ n # NULL /\ fs'.current_path = Trail(fs')
    BY <1>6, CdEnters DEF Cd
  <2> HIDE DEF n
  <2>3. CASE fs' = fs
    BY <2>3
  <2>4. CASE fs'.current_dir = n /\ n # NULL /\ fs'.current_path = Trail(fs')
    BY <1>3, <1>4, <2>1, <2>4 DEF Addressed
  <2> QED BY <2>2, <2>3, <2>4
<1> QED BY <1>5, <1>6, NextStill

(* fs_init is at the root, whose path has no names. *)
LEMMA InitAddressed == Addressed(fs_init)
<1> DEFINE s == fs_init
<1>1. Good(s)
  BY InitGood
<1>2. s.current_dir = ROOT /\ s.current_path = << >> /\ Nodes(s) = {ROOT}
  <2> DEFINE blank == [heap |-> << >>, total_files |-> 0, memory_offset |-> 0,
                       current_dir |-> NULL, current_path |-> << >>]
             u == fs_create_file(blank, <<EMPTY, EMPTY>>, DIRECTORY).fs
  <2>1. Placeful(blank) /\ blank.current_path = << >>
    BY DEF Placeful
  <2>2. s = [u EXCEPT !.heap[ROOT].parent = ROOT, !.current_dir = ROOT]
    BY DEF fs_init
  <2> HIDE DEF blank
  <2>3. Still(blank, u)
    BY <2>1, CreateStill
  <2> HIDE DEF u, s
  <2>4. "current_dir" \in DOMAIN u /\ u.current_path = << >>
    BY <2>1, <2>3 DEF Still, Placeful
  <2> QED BY <2>2, <2>4, InitGood DEF s
<1> HIDE DEF s
<1>3. Ancestors(s)[0] = ROOT
  BY <1>1, <1>2, AncestorsAttached
<1>4. UpDepth(s) = 0
  <2>1. 0 \in 0..MAX_DEPTH
    BY SizesAssumption
  <2> QED BY <1>1, <1>3, <2>1, UpDepthIs
<1>5. Trail(s) = << >>
  BY <1>4 DEF Trail
<1>6. s.current_dir \in NamedUp(s)
  BY <1>1, <1>2, NamedWalkable
<1>7. DirsNamed(s)
  BY <1>2 DEF DirsNamed
<1> QED BY <1>2, <1>5, <1>6, <1>7 DEF Addressed, s

(* The names of a path are its tokens. *)
LEMMA AbsoluteTokens ==
    ASSUME NEW toks \in Seq(Segment)
    PROVE  /\ toks = << >> => /\ IsAbsolute(<<EMPTY, EMPTY>>)
                              /\ Tokens(<<EMPTY, EMPTY>>) = toks
           /\ toks # << >> /\ Last(toks) # EMPTY => /\ IsAbsolute(<<EMPTY>> \o toks)
                                                 /\ Tokens(<<EMPTY>> \o toks) = toks
<1>1. ASSUME NEW e \in Segment
      PROVE  /\ Len(<<e, e>>) > 1 /\ <<e, e>>[1] = e /\ Tail(<<e, e>>) = <<e>>
             /\ Last(<<e>>) = e /\ Front(<<e>>) = << >>
  BY DEF Last, Front
<1>2. ASSUME NEW e \in Segment, toks # << >>
      PROVE  Len(<<e>> \o toks) > 1 /\ (<<e>> \o toks)[1] = e /\ Tail(<<e>> \o toks) = toks
  <2> DEFINE one == <<e>>
             p == one \o toks
  <2>1. one \in Seq(Segment) /\ Len(one) = 1 /\ one[1] = e
    OBVIOUS
  <2> HIDE DEF one
  <2>2. /\ p \in Seq(Segment) /\ Len(p) = 1 + Len(toks)
        /\ \A i \in 1..(1 + Len(toks)) : p[i] = IF i <= 1 THEN one[i] ELSE toks[i - 1]
    <3>1. /\ p \in Seq(Segment) /\ Len(p) = Len(one) + Len(toks)
          /\ \A i \in 1..(Len(one) + Len(toks)) :
               p[i] = IF i <= Len(one) THEN one[i] ELSE toks[i - Len(one)]
      BY <2>1, ConcatProperties
    <3> HIDE DEF p
    <3> QED BY <2>1, <3>1, Zenon
  <2> HIDE DEF p
  <2>3. Len(toks) \in Nat /\ Len(toks) > 0
    BY <1>2
  <2>4. Len(p) > 1 /\ p[1] = e
    BY <2>1, <2>2, <2>3
  <2>5. Tail(p) \in Seq(Segment) /\ Len(Tail(p)) = Len(toks)
        /\ \A i \in 1..Len(toks) : Tail(p)[i] = p[i + 1]
    BY <2>2, <2>3
  <2>6. \A i \in 1..Len(toks) : Tail(p)[i] = toks[i]
    <3> TAKE i \in 1..Len(toks)
    <3>1. i + 1 \in 1..(1 + Len(toks)) /\ ~(i + 1 <= 1) /\ (i + 1) - 1 = i
      BY <2>3
    <3> QED BY <2>2, <2>5, <3>1
  <2>7. Tail(p) = toks
    BY <2>5, <2>6, SeqEqual
  <2> QED BY <2>4, <2>7 DEF p, one
<1> DEFINE Null == EMPTY
<1>3. Null \in Segment
  BY Zenon DEF Segment
<1>4. ASSUME toks = << >>
      PROVE  IsAbsolute(<<Null, Null>>) /\ Tokens(<<Null, Null>>) = toks
  BY <1>1, <1>3, <1>4, Zenon DEF IsAbsolute, Tokens
<1>5. ASSUME toks # << >>, Last(toks) # Null
      PROVE  IsAbsolute(<<Null>> \o toks) /\ Tokens(<<Null>> \o toks) = toks
  <2> DEFINE p == <<Null>> \o toks
  <2>1. Len(p) > 1 /\ p[1] = Null /\ Tail(p) = toks
    BY <1>2, <1>3, <1>5, Zenon
  <2> HIDE DEF p
  <2>2. IsAbsolute(p)
    BY <2>1, Zenon DEF IsAbsolute
  <2>3. Tokens(p) = toks
    BY <1>5, <2>1, <2>2, Zenon DEF Tokens
  <2> QED BY <2>2, <2>3, Zenon DEF p
<1> QED BY <1>4, <1>5, Zenon

(* The directories above one that can be reached can be reached, up to the *)
(* root, and bear single names.                                            *)
LEMMA AncestorsNamed ==
    ASSUME NEW s, Good(s), Addressed(s), Live(s, s.current_dir),
           Within(s, s.current_dir, MAX_DEPTH)
    PROVE  LET v == Ancestors(s)
               d == UpDepth(s)
           IN  /\ d \in 0..MAX_DEPTH /\ v[0] = s.current_dir /\ v[d] = ROOT
               /\ \A i \in 0..d : v[i] \in Nodes(s)
               /\ \A i \in 0..(d - 1) : /\ v[i] # ROOT
                                        /\ v[i + 1] = s.heap[v[i]].parent
                                        /\ Linked(s, v[i])
                                        /\ Single(s, v[i])
<1> DEFINE v == Ancestors(s)
           d == UpDepth(s)
           N == MAX_DEPTH
<1>1. N \in Nat
  BY SizesAssumption
<1>2. /\ v[0] = s.current_dir
      /\ \A i \in 0..N : v[i] \in Attached(s)
      /\ \A i \in 1..N : v[i] = IF v[i - 1] = ROOT THEN ROOT ELSE s.heap[v[i - 1]].parent
  BY AncestorsAttached
<1>3. /\ d \in 0..N
      /\ d = N \/ v[d] = ROOT
      /\ \A i \in 0..N : v[i] = ROOT => d <= i
  BY UpDepthIs
<1>4. PICK up \in [0..N -> Nodes(s)] :
          /\ up[0] = s.current_dir /\ up[N] = ROOT
          /\ \A i \in 1..N : up[i] = s.heap[up[i - 1]].parent
  BY DEF Within
<1> HIDE DEF v, d, N
<1>5. s.heap[ROOT].parent = ROOT /\ s.current_dir \in LiveNodes(s)
  BY Fields DEF Good, AnchoredDirs, LiveNodes
<1>6. \A i \in 1..N : v[i] = s.heap[v[i - 1]].parent
  BY <1>2, <1>5
<1>7. Closed(s, LiveNodes(s))
  BY LiveClosed
<1>8. \A m \in NamedUp(s) : s.heap[m].parent \in NamedUp(s)
  BY DEF NamedUp, Plain
<1> DEFINE P == {i \in 0..N : v[i] = up[i] /\ v[i] \in LiveNodes(s) /\ v[i] \in NamedUp(s)}
<1>9. 0 \in P
  BY <1>1, <1>2, <1>4, <1>5 DEF Addressed
<1>10. ASSUME NEW i \in Nat, i < N, i \in P PROVE i + 1 \in P
  <2>1. i + 1 \in 1..N /\ (i + 1) - 1 = i /\ i + 1 \in 0..N
    BY <1>1, <1>10
  <2>2. v[i + 1] = s.heap[v[i]].parent /\ up[i + 1] = s.heap[up[i]].parent
    BY <1>4, <1>6, <2>1
  <2> QED BY <1>7, <1>8, <1>10, <2>1, <2>2 DEF Closed
<1>11. \A i \in 0..N : i \in P
  <2> HIDE DEF P
  <2> QED BY <1>1, <1>9, <1>10, UpTo
<1>12. \A i \in 0..N : v[i] = up[i] /\ v[i] \in LiveNodes(s) /\ v[i] \in NamedUp(s)
  BY <1>11
<1>13. v[d] = ROOT
  BY <1>1, <1>3, <1>4, <1>12
<1>14. \A i \in 0..d : v[i] \in Nodes(s)
  BY <1>1, <1>2, <1>3 DEF Attached
<1>15. ASSUME NEW i \in 0..(d - 1)
       PROVE  /\ v[i] # ROOT
              /\ v[i + 1] = s.heap[v[i]].parent
              /\ Linked(s, v[i])
              /\ Single(s, v[i])
  <2>1. i \in 0..N /\ i + 1 \in 1..N /\ (i + 1) - 1 = i /\ ~(d <= i)
    BY <1>1, <1>3
  <2>2. v[i] # ROOT /\ v[i + 1] = s.heap[v[i]].parent
    BY <1>3, <1>6, <2>1
  <2>3. v[i] \in Nodes(s) /\ Live(s, v[i]) /\ v[i] \in NamedUp(s)
    BY <1>12, <2>1 DEF LiveNodes
  <2>4. Linked(s, v[i])
    BY <2>2, <2>3, LiveUp
  <2>5. Single(s, v[i])
    BY <2>2, <2>3 DEF NamedUp, Plain
  <2> QED BY <2>2, <2>4, <2>5
<1> QED BY <1>2, <1>3, <1>13, <1>14, <1>15 DEF v, d, N

(* A single name is its only segment. *)
LEMMA SingleName ==
    ASSUME NEW s, NEW a, Single(s, a)
    PROVE  LET name == s.heap[a].name
           IN  /\ Len(name) = 1
               /\ name = <<name[1]>>
               /\ name[1] \notin {".", ".."}
<1> DEFINE name == s.heap[a].name
<1>1. PICK token : token \notin {".", ".."} /\ name = <<token>>
  BY DEF Single
<1>2. Len(<<token>>) = 1 /\ <<token>>[1] = token
  OBVIOUS
<1> HIDE DEF name
<1>3. Len(name) = 1 /\ name[1] = token
  BY <1>1, <1>2, Zenon
<1>4. name = <<name[1]>> /\ name[1] \notin {".", ".."}
  BY <1>1, <1>3, Zenon
<1> QED BY <1>3, <1>4 DEF name

(* The first segments of the names, root first, lead back down. *)
LEMMA WalkDown ==
    ASSUME NEW s, Good(s), Addressed(s), Live(s, s.current_dir),
           Within(s, s.current_dir, MAX_DEPTH)
    PROVE  LET path == s.current_path
               toks == [k \in 1..Len(path) |-> path[k][1]]
           IN  /\ toks \in Seq(Segment) /\ FlattenSeq(path) = toks
               /\ toks = << >> <=> path = << >>
               /\ toks # << >> => Last(toks) # EMPTY
               /\ Walk(s, ROOT, toks)[Len(toks)] = s.current_dir
<1> DEFINE path == s.current_path
           d == UpDepth(s)
           v == Ancestors(s)
           toks == [k \in 1..Len(path) |-> path[k][1]]
<1>1. /\ d \in 0..MAX_DEPTH /\ v[0] = s.current_dir /\ v[d] = ROOT
      /\ \A i \in 0..d : v[i] \in Nodes(s)
      /\ \A i \in 0..(d - 1) : /\ v[i] # ROOT
                               /\ v[i + 1] = s.heap[v[i]].parent
                               /\ Linked(s, v[i])
                               /\ Single(s, v[i])
  BY AncestorsNamed
<1>2. d \in Nat
  BY <1>1, SizesAssumption
<1>3. path = [k \in 1..d |-> s.heap[v[d - k]].name] /\ path \in Seq(String)
  BY Fields DEF Addressed, Trail
<1> HIDE DEF d, v, path
<1>4. Len(path) = d /\ path \in Seq(Seq(Segment)) /\ DOMAIN path = 1..d
  BY <1>2, <1>3 DEF String
<1>5. ASSUME NEW k \in 1..d
      PROVE  /\ d - k \in 0..(d - 1)
             /\ path[k] = s.heap[v[d - k]].name
             /\ Len(path[k]) = 1
             /\ path[k] = <<path[k][1]>>
             /\ path[k][1] \notin {".", ".."}
  <2>1. d - k \in 0..(d - 1)
    BY <1>2
  <2>2. path[k] = s.heap[v[d - k]].name
    BY <1>3
  <2>3. Single(s, v[d - k])
    BY <1>1, <2>1
  <2> DEFINE a == v[d - k]
  <2>4. path[k] = s.heap[a].name /\ Single(s, a)
    BY <2>2, <2>3
  <2> HIDE DEF a
  <2>5. Len(path[k]) = 1 /\ path[k] = <<path[k][1]>> /\ path[k][1] \notin {".", ".."}
    BY <2>4, SingleName
  <2> QED BY <2>1, <2>2, <2>5
<1>6. \A k \in 1..d : path[k] \in Seq(Segment) /\ path[k][1] \in Segment
  <2> TAKE k \in 1..d
  <2>1. path[k] \in Seq(Segment) /\ Len(path[k]) = 1
    BY <1>4, <1>5
  <2> QED BY <2>1
<1>7. toks \in Seq(Segment) /\ Len(toks) = d
  <2>1. toks = [k \in 1..d |-> path[k][1]]
    BY <1>4
  <2> HIDE DEF toks
  <2> QED BY <1>2, <1>6, <2>1
<1>8. FlattenSeq(path) = toks
  <2>1. \A i \in 1..Len(path) : Len(path[i]) = 1
    BY <1>4, <1>5
  <2> QED BY <1>4, <2>1, FlattenOnes
<1>9. \A k \in 1..d : toks[k] = path[k][1]
  BY <1>4
<1> HIDE DEF toks
<1>10. toks = << >> <=> path = << >>
  BY <1>4, <1>7
<1>11. ASSUME toks # << >> PROVE Last(toks) # EMPTY
  <2>1. d \in 1..d /\ d - d = 0 /\ 0 \in 0..(d - 1)
    BY <1>2, <1>7, <1>11
  <2>2. Last(toks) = path[d][1] /\ path[d] = s.heap[s.current_dir].name
    BY <1>1, <1>5, <1>7, <1>9, <2>1 DEF Last
  <2>3. path[d] = <<path[d][1]>>
    BY <1>5, <2>1
  <2>4. s.current_dir \in Nodes(s) \ {ROOT} /\ s.heap[s.current_dir].type = DIRECTORY
    BY <1>1, <2>1, Fields DEF Good, AnchoredDirs
  <2>5. path[d] # NoName
    BY <2>2, <2>4 DEF Addressed, DirsNamed
  <2> QED BY <2>2, <2>3, <2>5, Zenon DEF NoName
<1> DEFINE w == Walk(s, ROOT, toks)
           P == {k \in 0..d : w[k] = v[d - k]}
<1>12. w[0] = ROOT /\ \A k \in 1..d : w[k] = ResolveToken(s, w[k - 1], toks[k])
  BY <1>2, <1>7, RootAttached, WalkAttached
<1> HIDE DEF w
<1>13. 0 \in P
  <2>1. 0 \in 0..d /\ d - 0 = d
    BY <1>2
  <2> QED BY <1>1, <1>12, <2>1
<1>14. ASSUME NEW k \in Nat, k < d, k \in P PROVE k + 1 \in P
  <2> DEFINE j == d - (k + 1)
             x == v[j]
             m == v[d - k]
  <2>1. k + 1 \in 1..d /\ (k + 1) - 1 = k /\ k + 1 \in 0..d /\ j \in 0..(d - 1)
        /\ j + 1 = d - k /\ j \in 0..d /\ d - k \in 0..d
    BY <1>2, <1>14
  <2> HIDE DEF j
  <2>2. w[k + 1] = ResolveToken(s, m, toks[k + 1])
    BY <1>12, <1>14, <2>1
  <2>3. x \in Nodes(s) /\ m \in Nodes(s) /\ x # ROOT /\ s.heap[x].parent = m /\ Linked(s, x)
    BY <1>1, <2>1
  <2>4. /\ path[k + 1] = s.heap[x].name
        /\ path[k + 1] = <<toks[k + 1]>>
        /\ toks[k + 1] \notin {".", ".."}
    BY <1>5, <1>9, <2>1 DEF j
  <2> HIDE DEF x, m
  <2>5. m # NULL
    BY <2>3, Types DEF Good
  <2>6. ResolveToken(s, m, toks[k + 1]) = fs_find_child(s, m, <<toks[k + 1]>>)
    BY <2>4, <2>5 DEF ResolveToken
  <2>7. PICK i \in DOMAIN s.heap[m].children : s.heap[m].children[i] = x
    BY <2>3 DEF Linked, ToSet
  <2>8. fs_find_child(s, m, s.heap[x].name) = x
    BY <2>3, <2>7, FindUnique
  <2>9. w[k + 1] = x
    BY <2>2, <2>4, <2>6, <2>8, Zenon
  <2> QED BY <2>1, <2>9 DEF x, j
<1>15. d \in P
  <2>1. \A k \in Nat : k < d /\ k \in P => k + 1 \in P
    BY <1>14
  <2> HIDE DEF P
  <2>2. \A k \in 0..d : k \in P
    BY <1>2, <1>13, <2>1, UpTo
  <2> QED BY <1>2, <2>2
<1>16. w[d] = s.current_dir
  <2>1. d - d = 0
    BY <1>2
  <2> QED BY <1>1, <1>15, <2>1
<1>17. Walk(s, ROOT, toks)[Len(toks)] = s.current_dir
  BY <1>7, <1>16 DEF w
<1>18. toks \in Seq(Segment) /\ FlattenSeq(path) = toks
  BY <1>7, <1>8
<1> QED BY <1>10, <1>11, <1>17, <1>18, Zenon DEF toks, path

(* The path in the prompt leads where the shell is. *)
LEMMA PromptResolves ==
    ASSUME NEW s, Good(s), Addressed(s), Live(s, s.current_dir),
           Within(s, s.current_dir, MAX_DEPTH)
    PROVE  fs_resolve_path(s, PathString(s)) = s.current_dir
<1> DEFINE path == s.current_path
           toks == [k \in 1..Len(path) |-> path[k][1]]
           full == PathString(s)
<1>1. toks \in Seq(Segment) /\ FlattenSeq(path) = toks /\ (toks = << >> <=> path = << >>)
  BY WalkDown, Zenon
<1>2. toks # << >> => Last(toks) # EMPTY
  BY WalkDown, Zenon
<1>3. Walk(s, ROOT, toks)[Len(toks)] = s.current_dir
  BY WalkDown, Zenon
<1>4. full = IF path = << >> THEN <<EMPTY, EMPTY>> ELSE <<EMPTY>> \o FlattenSeq(path)
  BY Zenon DEF PathString
<1> HIDE DEF toks, path, full
<1>5. IsAbsolute(full) /\ Tokens(full) = toks
  <2>1. CASE toks = << >>
    BY <1>1, <1>4, <2>1, AbsoluteTokens, Zenon
  <2>2. CASE toks # << >>
    BY <1>1, <1>2, <1>4, <2>2, AbsoluteTokens, Zenon
  <2> QED BY <2>1, <2>2
<1>6. fs_resolve_path(s, full) = Walk(s, ROOT, toks)[Len(toks)]
  BY <1>5, Zenon DEF fs_resolve_path
<1> QED BY <1>3, <1>6, Zenon DEF full

(* current_path is what going up from the current directory gathers, under *)
(* names that lead back, whatever has been created or removed since.       *)
THEOREM AlwaysAddressed == Spec => []Addressed(fs)
<1>1. Init => Addressed(fs)
  BY InitAddressed DEF Init
<1>2. Inv /\ Addressed(fs) /\ [Next]_fs => Addressed(fs)'
  <2> SUFFICES ASSUME Good(fs), Addressed(fs), [Next]_fs PROVE Addressed(fs')
    BY DEF Inv, Sound
  <2>1. CASE Next
    BY <2>1, NextAddressed
  <2>2. CASE UNCHANGED fs
    BY <2>2
  <2> QED BY <2>1, <2>2
<1> QED BY <1>1, <1>2, AlwaysSound, PTL DEF Spec

(* The prompt is the truth, of every tree: the path that cd wrote resolves *)
(* to the current directory while that is part of the tree and no deeper   *)
(* than the names fs_update_current_path keeps.                            *)
THEOREM PromptTrue == Spec => []PromptIsTrue
<1>1. Inv /\ Addressed(fs) => PromptIsTrue
  BY PromptResolves DEF Inv, Sound, PromptIsTrue
<1> QED BY <1>1, AlwaysSound, AlwaysAddressed, PTL
-------------------------------------------------------------------------------
(* What tree prints.                                                       *)
(*                                                                         *)
(* A printed line names a node and how far it is indented.  Hung says of   *)
(* line i what TreePrintsTree does: it comes below the line of the node's  *)
(* directory, one step further in, and no line between the two is further  *)
(* out.  The first line's children are at depth d.                         *)
Lines == [node : Nat, depth : Nat]

Hung(s, out, d, i) ==
    /\ out[i].depth >= d
    /\ \E j \in 1..(i - 1) :
         /\ out[j].node = s.heap[out[i].node].parent
         /\ out[i].depth = (IF j = 1 THEN d ELSE out[j].depth + 1)
         /\ \A k \in (j + 1)..(i - 1) : out[k].depth >= out[i].depth

Named(out) == {out[i].node : i \in 1..Len(out)}

(* A print of n and of some of what is below it. *)
Printout(s, out, n, d) ==
    /\ out \in Seq(Lines)
    /\ Len(out) >= 1
    /\ out[1].node = n
    /\ \A i, j \in 1..Len(out) : out[i].node = out[j].node => i = j
    /\ \A i \in 2..Len(out) : Hung(s, out, d, i)

(* S is n and what can be reached from it. *)
Under(s, n, S) ==
    /\ S \subseteq Nodes(s)
    /\ \A m \in Nodes(s) :
         m \in S <=> (m = n \/ (m # ROOT /\ Linked(s, m) /\ s.heap[m].parent \in S))

(* What is below a node is younger than it. *)
LEMMA UnderYounger ==
    ASSUME NEW s, Good(s), NEW n \in Nodes(s), NEW S, Under(s, n, S)
    PROVE  \A m \in S : m >= n
<1> SUFFICES ASSUME NEW x \in S, x < n PROVE FALSE
  BY Types DEF Good, Under
<1> DEFINE T == {m \in S : m < n}
<1>1. \A m \in Nodes(s) : m \in Nat
  BY Types DEF Good
<1>2. T \in SUBSET Nat /\ T # {}
  BY <1>1 DEF Under
<1>3. PICK m \in T : \A k \in T : m <= k
  BY <1>2, LeastNat
<1>4. m \in Nodes(s) /\ m # n /\ m # ROOT /\ s.heap[m].parent \in S
  BY <1>1, <1>3 DEF Under
<1>5. s.heap[m].parent < m /\ s.heap[m].parent \in Nat
  BY <1>4, Types DEF Good, ParentsOlder
<1>6. s.heap[m].parent \in T
  BY <1>1, <1>3, <1>4, <1>5
<1> QED BY <1>1, <1>3, <1>4, <1>5, <1>6

(* Nothing is below two entries of one directory. *)
LEMMA UnderApart ==
    ASSUME NEW s, Good(s), NEW c \in Nodes(s), NEW e \in Nodes(s), c # e,
           s.heap[c].parent = s.heap[e].parent, c # ROOT, e # ROOT,
           NEW S, Under(s, c, S), NEW T, Under(s, e, T)
    PROVE  S \cap T = {}
<1> SUFFICES ASSUME S \cap T # {} PROVE FALSE
  OBVIOUS
<1>1. S \cap T \in SUBSET Nat
  BY Types DEF Good, Under
<1>2. PICK m \in S \cap T : \A k \in S \cap T : m <= k
  BY <1>1, LeastNat
<1>3. m \in Nodes(s)
  BY <1>2 DEF Under
<1>4. \A k \in S : k >= c
  BY UnderYounger
<1>5. \A k \in T : k >= e
  BY UnderYounger
<1>6. /\ s.heap[c].parent < c /\ s.heap[e].parent < e
      /\ s.heap[c].parent \in Nat /\ c \in Nat /\ e \in Nat
  BY Types DEF Good, ParentsOlder
<1>7. m # c
  <2>1. s.heap[c].parent \notin T
    BY <1>5, <1>6
  <2>2. c \notin T
    BY <2>1 DEF Under
  <2> QED BY <1>2, <2>2
<1>8. m # e
  <2>1. s.heap[e].parent \notin S
    BY <1>4, <1>6
  <2>2. e \notin S
    BY <2>1 DEF Under
  <2> QED BY <1>2, <2>2
<1>9. m # ROOT /\ s.heap[m].parent \in S /\ s.heap[m].parent \in T
  BY <1>2, <1>3, <1>7, <1>8 DEF Under
<1>10. s.heap[m].parent < m
  BY <1>3, <1>9 DEF Good, ParentsOlder
<1>11. m \in Nat /\ s.heap[m].parent \in Nat
  BY <1>3, Types DEF Good
<1> QED BY <1>2, <1>9, <1>10, <1>11

(* From the root, that is what can be reached. *)
LEMMA UnderRoot ==
    ASSUME NEW s, Good(s), NEW S, Under(s, ROOT, S)
    PROVE  S = LiveNodes(s)
<1> DEFINE T == {m \in Nodes(s) : ~(m \in S <=> m \in LiveNodes(s))}
<1>1. ROOT \in Nodes(s)
  BY DEF Good, AnchoredDirs
<1>2. ASSUME T # {} PROVE FALSE
  <2>1. T \in SUBSET Nat
    BY Types DEF Good
  <2>2. PICK m \in T : \A k \in T : m <= k
    BY <1>2, <2>1, LeastNat
  <2>3. m \in Nodes(s)
    BY <2>2
  <2>4. m \in LiveNodes(s) <=>
          (m = ROOT \/ (Linked(s, m) /\ s.heap[m].parent \in LiveNodes(s)))
    <3>1. Live(s, m) <=> (m = ROOT \/ (Linked(s, m) /\ Live(s, s.heap[m].parent)))
      BY <2>3, LiveUp
    <3>2. m # ROOT /\ Linked(s, m) => s.heap[m].parent \in Nodes(s)
      BY <2>3 DEF Linked, Good, WellTyped
    <3> QED BY <2>3, <3>1, <3>2 DEF LiveNodes
  <2>5. m \in S <=> (m = ROOT \/ (m # ROOT /\ Linked(s, m) /\ s.heap[m].parent \in S))
    BY <2>3 DEF Under
  <2>6. m # ROOT /\ Linked(s, m)
    BY <2>2, <2>4, <2>5
  <2>7. s.heap[m].parent \in Nodes(s)
    BY <2>3, <2>6 DEF Linked, Good, WellTyped
  <2>8. s.heap[m].parent \in T
    BY <2>2, <2>4, <2>5, <2>6, <2>7
  <2>9. s.heap[m].parent < m /\ m \in Nat /\ s.heap[m].parent \in Nat
    BY <2>3, <2>6, Types DEF Good, ParentsOlder
  <2> QED BY <2>2, <2>8, <2>9
<1> QED BY <1>2 DEF Under, LiveNodes

(* A line that hangs still does when lines are put after it. *)
LEMMA HungBefore ==
    ASSUME NEW s, NEW out, NEW d, NEW i \in Nat, Hung(s, out, d, i),
           NEW more, \A k \in 1..i : more[k] = out[k]
    PROVE  Hung(s, more, d, i)
<1>1. PICK j \in 1..(i - 1) :
         /\ out[j].node = s.heap[out[i].node].parent
         /\ out[i].depth = (IF j = 1 THEN d ELSE out[j].depth + 1)
         /\ \A k \in (j + 1)..(i - 1) : out[k].depth >= out[i].depth
  BY DEF Hung
<1>2. more[i] = out[i] /\ more[j] = out[j] /\ out[i].depth >= d
  <2>1. i \in 1..i /\ j \in 1..i
    BY <1>1
  <2> QED BY <2>1 DEF Hung
<1>3. ASSUME NEW k \in (j + 1)..(i - 1) PROVE more[k].depth >= more[i].depth
  <2>1. k \in 1..i
    BY <1>1
  <2> QED BY <1>1, <1>2, <2>1
<1> QED BY <1>1, <1>2, <1>3 DEF Hung

(* b, the print of an entry c of n, can go after a. *)
Follows(s, a, n, d, c, b) ==
    /\ d \in Nat
    /\ Printout(s, a, n, d)
    /\ Printout(s, b, c, d + 1)
    /\ b[1].depth = d
    /\ s.heap[c].parent = n
    /\ Named(a) \cap Named(b) = {}

(* A print of n followed by the print of another entry of n is a print.    *)
LEMMA PrintoutAppend ==
    ASSUME NEW s, NEW n, NEW d, NEW a, NEW c, NEW b, Follows(s, a, n, d, c, b)
    PROVE  /\ Printout(s, a \o b, n, d)
           /\ Named(a \o b) = Named(a) \cup Named(b)
<1> DEFINE z == a \o b
<1> USE DEF Follows
<1>1. /\ a \in Seq(Lines) /\ Len(a) \in Nat /\ Len(a) >= 1
      /\ b \in Seq(Lines) /\ Len(b) \in Nat /\ Len(b) >= 1
  BY DEF Printout
<1>2. /\ z \in Seq(Lines) /\ Len(z) = Len(a) + Len(b)
      /\ \A i \in 1..Len(a) : z[i] = a[i]
      /\ \A i \in 1..Len(b) : z[Len(a) + i] = b[i]
  <2>1. /\ z \in Seq(Lines) /\ Len(z) = Len(a) + Len(b)
        /\ \A i \in 1..(Len(a) + Len(b)) : z[i] = IF i <= Len(a) THEN a[i] ELSE b[i - Len(a)]
    BY <1>1, ConcatProperties
  <2> HIDE DEF z
  <2>2. ASSUME NEW i \in 1..Len(a) PROVE z[i] = a[i]
    <3>1. i \in 1..(Len(a) + Len(b)) /\ i <= Len(a)
      BY <1>1
    <3> QED BY <2>1, <3>1
  <2>3. ASSUME NEW i \in 1..Len(b) PROVE z[Len(a) + i] = b[i]
    <3>1. Len(a) + i \in 1..(Len(a) + Len(b)) /\ ~(Len(a) + i <= Len(a))
      BY <1>1
    <3>2. (Len(a) + i) - Len(a) = i
      BY <1>1
    <3> QED BY <2>1, <3>1, <3>2
  <2> QED BY <2>1, <2>2, <2>3
<1> HIDE DEF z
<1>3. ASSUME NEW i \in 1..Len(z)
      PROVE  i \in 1..Len(a) \/ \E k \in 1..Len(b) : i = Len(a) + k
  <2>1. CASE i > Len(a)
    <3>1. i - Len(a) \in 1..Len(b) /\ i = Len(a) + (i - Len(a))
      BY <1>1, <1>2, <2>1
    <3> QED BY <3>1
  <2> QED BY <1>1, <1>2, <2>1
<1>4. Named(z) = Named(a) \cup Named(b)
  <2>1. ASSUME NEW i \in 1..Len(z) PROVE z[i].node \in Named(a) \cup Named(b)
    <3>1. CASE i \in 1..Len(a)
      <4>1. z[i].node = a[i].node
        BY <1>2, <3>1
      <4> QED BY <3>1, <4>1 DEF Named
    <3>2. ASSUME NEW k \in 1..Len(b), i = Len(a) + k
          PROVE  z[i].node \in Named(b)
      <4>1. z[i].node = b[k].node
        BY <1>2, <3>2
      <4> QED BY <4>1 DEF Named
    <3> QED BY <1>3, <3>1, <3>2
  <2>2. ASSUME NEW i \in 1..Len(a) PROVE a[i].node \in Named(z)
    <3>1. i \in 1..Len(z)
      BY <1>1, <1>2
    <3> QED BY <1>2, <3>1 DEF Named
  <2>3. ASSUME NEW i \in 1..Len(b) PROVE b[i].node \in Named(z)
    <3>1. Len(a) + i \in 1..Len(z)
      BY <1>1, <1>2
    <3> QED BY <1>2, <3>1 DEF Named
  <2> QED BY <2>1, <2>2, <2>3 DEF Named
<1>5. ASSUME NEW i \in 1..Len(z), NEW j \in 1..Len(z), z[i].node = z[j].node
      PROVE  i = j
  <2>1. CASE i \in 1..Len(a) /\ j \in 1..Len(a)
    BY <1>2, <1>5, <2>1 DEF Printout
  <2>2. CASE i \in 1..Len(a) /\ j \notin 1..Len(a)
    <3>1. PICK k \in 1..Len(b) : j = Len(a) + k
      BY <1>3, <2>2
    <3>2. a[i].node = b[k].node
      BY <1>2, <1>5, <2>2, <3>1
    <3> QED BY <2>2, <3>2 DEF Named
  <2>3. CASE i \notin 1..Len(a) /\ j \in 1..Len(a)
    <3>1. PICK k \in 1..Len(b) : i = Len(a) + k
      BY <1>3, <2>3
    <3>2. b[k].node = a[j].node
      BY <1>2, <1>5, <2>3, <3>1
    <3> QED BY <2>3, <3>2 DEF Named
  <2>4. CASE i \notin 1..Len(a) /\ j \notin 1..Len(a)
    <3>1. PICK k \in 1..Len(b) : i = Len(a) + k
      BY <1>3, <2>4
    <3>2. PICK l \in 1..Len(b) : j = Len(a) + l
      BY <1>3, <2>4
    <3>3. b[k].node = b[l].node
      BY <1>2, <1>5, <3>1, <3>2
    <3> QED BY <3>1, <3>2, <3>3 DEF Printout
  <2> QED BY <2>1, <2>2, <2>3, <2>4
<1>6. ASSUME NEW i \in 1..Len(a) PROVE z[i].depth \in Nat
  <2>1. a[i] \in Lines
    BY <1>1
  <2> QED BY <1>2, <2>1 DEF Lines
<1>7. ASSUME NEW k \in 2..Len(a) PROVE z[k].depth >= d
  <2>1. k \in 1..Len(a) /\ Hung(s, a, d, k)
    BY <1>1 DEF Printout
  <2> QED BY <1>2, <2>1 DEF Hung
<1>8. z[Len(a) + 1].node = c /\ z[Len(a) + 1].depth = d /\ z[1].node = n
  <2>1. 1 \in 1..Len(a) /\ 1 \in 1..Len(b)
    BY <1>1
  <2> QED BY <1>2, <2>1 DEF Printout
<1>9. Hung(s, z, d, Len(a) + 1)
  <2> DEFINE i == Len(a) + 1
  <2>1. 1 \in 1..(i - 1) /\ i - 1 = Len(a)
    BY <1>1
  <2>2. \A k \in (1 + 1)..(i - 1) : z[k].depth >= z[i].depth
    BY <1>1, <1>7, <1>8
  <2>3. z[1].node = s.heap[z[i].node].parent /\ z[i].depth = d /\ z[i].depth >= d
    BY <1>8
  <2> HIDE DEF i
  <2>4. \E x \in 1..(i - 1) :
           /\ z[x].node = s.heap[z[i].node].parent
           /\ z[i].depth = (IF x = 1 THEN d ELSE z[x].depth + 1)
           /\ \A k \in (x + 1)..(i - 1) : z[k].depth >= z[i].depth
    BY <2>1, <2>2, <2>3
  <2>5. Hung(s, z, d, i)
    BY <2>3, <2>4 DEF Hung
  <2> QED BY <2>5 DEF i
<1>10. ASSUME NEW k \in 2..Len(b) PROVE Hung(s, z, d, Len(a) + k)
  <2> DEFINE i == Len(a) + k
  <2>1. PICK j \in 1..(k - 1) :
           /\ b[j].node = s.heap[b[k].node].parent
           /\ b[k].depth = (IF j = 1 THEN d + 1 ELSE b[j].depth + 1)
           /\ \A l \in (j + 1)..(k - 1) : b[l].depth >= b[k].depth
    BY DEF Printout, Hung
  <2>2. b[k].depth >= d + 1
    BY DEF Printout, Hung
  <2>3. k \in 1..Len(b) /\ j \in 1..Len(b)
    BY <1>1, <2>1
  <2>4. z[i] = b[k] /\ z[Len(a) + j] = b[j]
    BY <1>2, <2>3
  <2>5. b[k] \in Lines /\ b[j] \in Lines
    BY <1>1, <2>3
  <2>6. b[k].depth \in Nat
    BY <2>5 DEF Lines
  <2>7. Len(a) + j \in 1..(i - 1) /\ Len(a) + j # 1
    <3>1. k \in Nat /\ j \in Nat /\ j >= 1 /\ j <= k - 1
      BY <1>1, <2>1
    <3> QED BY <1>1, <3>1
  <2>8. z[i].depth = z[Len(a) + j].depth + 1
    BY <2>1, <2>4
  <2>9. ASSUME NEW l \in ((Len(a) + j) + 1)..(i - 1) PROVE z[l].depth >= z[i].depth
    <3> DEFINE m == l - Len(a)
    <3>1. m \in (j + 1)..(k - 1) /\ m \in 1..Len(b) /\ l = Len(a) + m
      <4>1. k \in Nat /\ j \in Nat /\ j >= 1 /\ k <= Len(b)
        BY <1>1, <2>1
      <4> QED BY <1>1, <4>1
    <3> HIDE DEF m
    <3>2. z[l] = b[m]
      BY <1>2, <3>1
    <3> QED BY <2>1, <2>4, <3>1, <3>2
  <2>10. z[i].depth >= d
    BY <2>2, <2>4, <2>6
  <2>11. z[Len(a) + j].node = s.heap[z[i].node].parent
    BY <2>1, <2>4
  <2> HIDE DEF i
  <2>12. \E x \in 1..(i - 1) :
           /\ z[x].node = s.heap[z[i].node].parent
           /\ z[i].depth = (IF x = 1 THEN d ELSE z[x].depth + 1)
           /\ \A l \in (x + 1)..(i - 1) : z[l].depth >= z[i].depth
    BY <2>7, <2>8, <2>9, <2>11
  <2> QED BY <2>10, <2>12 DEF Hung, i
<1>11. ASSUME NEW i \in 2..Len(z) PROVE Hung(s, z, d, i)
  <2>1. CASE i <= Len(a)
    <3>1. i \in 2..Len(a) /\ i \in Nat
      BY <1>1, <2>1
    <3>2. Hung(s, a, d, i)
      BY <3>1 DEF Printout
    <3>3. \A k \in 1..i : z[k] = a[k]
      BY <1>1, <1>2, <2>1
    <3> QED BY <3>1, <3>2, <3>3, HungBefore
  <2>2. CASE i = Len(a) + 1
    BY <1>9, <2>2
  <2>3. CASE i > Len(a) + 1
    <3> DEFINE k == i - Len(a)
    <3>1. k \in 2..Len(b) /\ i = Len(a) + k
      BY <1>1, <1>2, <2>3
    <3> HIDE DEF k
    <3> QED BY <1>10, <3>1
  <2> QED BY <1>1, <1>2, <2>1, <2>2, <2>3
<1>12. Printout(s, z, n, d)
  BY <1>1, <1>2, <1>5, <1>8, <1>11 DEF Printout
<1> QED BY <1>4, <1>12 DEF z

(* A node's line, and the prints b of its entries, put together. *)
Line(n, d) == [node |-> n, depth |-> d]

Headed(n, d, b) == <<Line(n, d)>> \o FlattenSeq(b)

Entries(s, n, d, b) ==
    /\ b \in Seq(Seq(Lines))
    /\ Len(b) = Len(s.heap[n].children)
    /\ \A i \in DOMAIN s.heap[n].children :
         /\ Printout(s, b[i], s.heap[n].children[i], d + 1)
         /\ Under(s, s.heap[n].children[i], Named(b[i]))
         /\ b[i][1].depth = d

(* A node's line, then a print of each of its entries, is a print of the   *)
(* node and all that is below it.                                          *)
LEMMA PrintoutNode ==
    ASSUME NEW s, Good(s), NEW n \in Nodes(s), NEW d \in Nat, NEW e \in Nat,
           NEW b, Entries(s, n, d, b), NEW out, out = Headed(n, e, b)
    PROVE  Printout(s, out, n, d) /\ Under(s, n, Named(out)) /\ out[1].depth = e
<1> DEFINE c == s.heap[n].children
           K == Len(b)
           line == Line(n, e)
           head == <<line>>
<1> USE DEF Entries, Line, Headed
<1>1. /\ K \in Nat /\ n \in Nat /\ DOMAIN c = 1..K
      /\ \A m \in Nodes(s) : m \in Nat
  BY Types DEF Good
<1>2. ASSUME NEW i \in 1..K
      PROVE  /\ c[i] \in Nodes(s) /\ s.heap[c[i]].parent = n /\ c[i] # ROOT
             /\ c[i] > n /\ n # NULL /\ c[i] \in ToSet(c)
             /\ \A j \in 1..K : c[i] = c[j] => i = j
  <2>1. c[i] \in Nodes(s) /\ n # NULL
    BY <1>1, Types DEF Good
  <2>2. s.heap[c[i]].parent = n /\ c[i] # ROOT
    BY <1>1 DEF Good, ChildrenLinked
  <2>3. s.heap[c[i]].parent < c[i]
    BY <2>1, <2>2 DEF Good, ParentsOlder
  <2>4. \A j \in 1..K : c[i] = c[j] => i = j
    BY <1>1 DEF Good, NamesUnique
  <2>5. c[i] \in ToSet(c)
    BY <1>1 DEF ToSet
  <2> HIDE DEF c
  <2>6. c[i] > n
    BY <1>1, <2>1, <2>2, <2>3
  <2> QED BY <2>1, <2>2, <2>4, <2>5, <2>6
<1>3. ASSUME NEW i \in 1..K
      PROVE  /\ Printout(s, b[i], c[i], d + 1) /\ Under(s, c[i], Named(b[i]))
             /\ b[i][1].depth = d /\ b[i] \in Seq(Lines)
  BY <1>1
<1>4. ASSUME NEW m \in ToSet(c) PROVE \E i \in 1..K : m = c[i]
  BY <1>1 DEF ToSet
<1>5. PICK f : Flattens(b, Lines, f)
  BY Flattening
<1>6. /\ f \in [0..K -> Seq(Lines)] /\ f[0] = << >> /\ FlattenSeq(b) = f[K]
      /\ \A i \in 1..K : f[i] = f[i - 1] \o b[i]
  BY <1>5 DEF Flattens
<1>7. line \in Lines /\ line.node = n /\ line.depth = e
  BY <1>1 DEF Lines
<1> HIDE DEF c, line
<1>8. /\ head \in Seq(Lines) /\ Len(head) = 1 /\ head[1] = line
  BY <1>7
<1> DEFINE acc(i) == head \o f[i]
           Below(i) == {n} \cup UNION {Named(b[j]) : j \in 1..i}
           P == {i \in 0..K : /\ Printout(s, acc(i), n, d)
                              /\ Named(acc(i)) = Below(i)}
<1>9. 0 \in P
  <2>1. acc(0) = head
    BY <1>6, <1>8, ConcatEmptySeq
  <2>2. \A i, j \in 1..Len(head) : i = j
    BY <1>8
  <2>3. 2..Len(head) = {}
    BY <1>8
  <2>4. Printout(s, head, n, d)
    <3>1. Len(head) >= 1 /\ head[1].node = n
      BY <1>7, <1>8
    <3> HIDE DEF head
    <3> QED BY <1>8, <2>2, <2>3, <3>1 DEF Printout
  <2>5. Named(head) = {n}
    <3>1. 1..Len(head) = {1} /\ head[1].node = n
      BY <1>7, <1>8
    <3> HIDE DEF head
    <3> QED BY <3>1 DEF Named
  <2>6. Below(0) = {n}
    OBVIOUS
  <2>7. 0 \in 0..K
    BY <1>1
  <2>8. Printout(s, acc(0), n, d) /\ Named(acc(0)) = Below(0)
    <3> HIDE DEF acc, Below, head
    <3> QED BY <2>1, <2>4, <2>5, <2>6, Zenon
  <2> HIDE DEF acc, Below
  <2> QED BY <2>7, <2>8
<1>10. ASSUME NEW i \in Nat, i < K, i \in P PROVE i + 1 \in P
  <2>1. i + 1 \in 1..K /\ (i + 1) - 1 = i /\ i \in 0..K
    BY <1>1, <1>10
  <2>2. acc(i + 1) = acc(i) \o b[i + 1]
    <3>1. f[i + 1] = f[i] \o b[i + 1] /\ f[i] \in Seq(Lines) /\ b[i + 1] \in Seq(Lines)
      BY <1>3, <1>6, <2>1
    <3> DEFINE x == f[i]
               y == b[i + 1]
    <3>2. head \in Seq(Lines) /\ x \in Seq(Lines) /\ y \in Seq(Lines)
      BY <1>8, <3>1
    <3> HIDE DEF head, x, y
    <3>3. (head \o x) \o y = head \o (x \o y)
      BY <3>2, ConcatAssociative
    <3> USE DEF x, y
    <3> QED BY <3>1, <3>3, Zenon
  <2>3. Printout(s, acc(i), n, d) /\ Named(acc(i)) = Below(i)
    BY <1>10
  <2>4. Below(i) \cap Named(b[i + 1]) = {}
    <3>1. n \notin Named(b[i + 1])
      <4>1. \A m \in Named(b[i + 1]) : m >= c[i + 1]
        BY <1>2, <1>3, <2>1, UnderYounger
      <4>2. c[i + 1] \in Nat /\ n \in Nat /\ c[i + 1] > n
        BY <1>1, <1>2, <2>1
      <4> QED BY <4>1, <4>2
    <3>2. ASSUME NEW j \in 1..i PROVE Named(b[j]) \cap Named(b[i + 1]) = {}
      <4>1. j \in 1..K /\ j # i + 1
        BY <1>1, <2>1
      <4>2. /\ c[j] \in Nodes(s) /\ c[i + 1] \in Nodes(s) /\ c[j] # c[i + 1]
            /\ s.heap[c[j]].parent = s.heap[c[i + 1]].parent
            /\ c[j] # ROOT /\ c[i + 1] # ROOT
        BY <1>2, <2>1, <4>1
      <4>3. Under(s, c[j], Named(b[j])) /\ Under(s, c[i + 1], Named(b[i + 1]))
        BY <1>3, <2>1, <4>1
      <4> DEFINE x == c[j]
                 y == c[i + 1]
                 X == Named(b[j])
                 Y == Named(b[i + 1])
      <4>4. /\ x \in Nodes(s) /\ y \in Nodes(s) /\ x # y
            /\ s.heap[x].parent = s.heap[y].parent /\ x # ROOT /\ y # ROOT
            /\ Under(s, x, X) /\ Under(s, y, Y)
        BY <4>2, <4>3
      <4> HIDE DEF x, y, X, Y
      <4>5. X \cap Y = {}
        BY <4>4, UnderApart
      <4> QED BY <4>5 DEF X, Y
    <3> QED BY <3>1, <3>2
  <2>5. Below(i + 1) = Below(i) \cup Named(b[i + 1])
    <3>1. 1..(i + 1) = (1..i) \cup {i + 1}
      OBVIOUS
    <3> QED BY <3>1
  <2>6. s.heap[c[i + 1]].parent = n
    BY <1>2, <2>1
  <2>7. Printout(s, b[i + 1], c[i + 1], d + 1) /\ b[i + 1][1].depth = d
    BY <1>3, <2>1
  <2> HIDE DEF acc, Below
  <2>8. /\ Printout(s, acc(i) \o b[i + 1], n, d)
        /\ Named(acc(i) \o b[i + 1]) = Named(acc(i)) \cup Named(b[i + 1])
    <3> DEFINE x == acc(i)
               y == b[i + 1]
               m == c[i + 1]
    <3>1. Follows(s, x, n, d, m, y)
      BY <2>3, <2>4, <2>6, <2>7 DEF Follows
    <3> HIDE DEF x, y, m
    <3>2. /\ Printout(s, x \o y, n, d) /\ Named(x \o y) = Named(x) \cup Named(y)
      BY <3>1, PrintoutAppend
    <3> QED BY <3>2 DEF x, y
  <2>9. i + 1 \in 0..K
    BY <1>1, <2>1
  <2> QED BY <2>2, <2>3, <2>5, <2>8, <2>9
<1>11. K \in P
  <2> HIDE DEF P, K
  <2>1. \A i \in 0..K : i \in P
    BY <1>1, <1>9, <1>10, UpTo
  <2>2. K \in 0..K
    BY <1>1
  <2> QED BY <2>1, <2>2, Zenon
<1>12. out = acc(K)
  BY <1>6 DEF line
<1>13. Printout(s, out, n, d) /\ Named(out) = Below(K)
  BY <1>11, <1>12
<1>14. out[1] = line
  <2> DEFINE x == f[K]
  <2>1. x \in Seq(Lines) /\ out = head \o x
    <3>1. K \in 0..K
      BY <1>1
    <3> HIDE DEF K, head
    <3> QED BY <1>6, <1>12, <3>1
  <2> HIDE DEF x, head
  <2>2. \A i \in 1..(Len(head) + Len(x)) :
          (head \o x)[i] = IF i <= Len(head) THEN head[i] ELSE x[i - Len(head)]
    BY <1>8, <2>1, ConcatProperties
  <2>3. 1 \in 1..(Len(head) + Len(x)) /\ 1 <= Len(head)
    BY <1>8, <2>1
  <2> QED BY <1>8, <2>1, <2>2, <2>3
<1>15. Under(s, n, Below(K))
  <2>1. Below(K) \subseteq Nodes(s)
    BY <1>3 DEF Under
  <2>2. ASSUME NEW m \in Nodes(s), m \in Below(K), m # n
        PROVE  m # ROOT /\ Linked(s, m) /\ s.heap[m].parent \in Below(K)
    <3>1. PICK j \in 1..K : m \in Named(b[j])
      BY <2>2
    <3>2. Under(s, c[j], Named(b[j]))
      BY <1>3
    <3>3. CASE m = c[j]
      <4>1. s.heap[m].parent = n /\ m # ROOT /\ n # NULL /\ m \in ToSet(s.heap[n].children)
        BY <1>2, <3>3 DEF c
      <4>2. Linked(s, m)
        BY <4>1 DEF Linked
      <4> QED BY <4>1, <4>2
    <3>4. CASE m # c[j]
      <4>1. m # ROOT /\ Linked(s, m) /\ s.heap[m].parent \in Named(b[j])
        BY <3>1, <3>2, <3>4 DEF Under
      <4> QED BY <4>1
    <3> QED BY <3>3, <3>4
  <2>3. ASSUME NEW m \in Nodes(s), m # ROOT, Linked(s, m), s.heap[m].parent \in Below(K)
        PROVE  m \in Below(K)
    <3>1. CASE s.heap[m].parent = n
      <4>1. m \in ToSet(c)
        BY <2>3, <3>1 DEF Linked, c
      <4>2. PICK j \in 1..K : m = c[j]
        BY <1>4, <4>1
      <4>3. m \in Named(b[j])
        BY <1>3, <4>2 DEF Under
      <4> QED BY <4>3
    <3>2. CASE s.heap[m].parent # n
      <4>1. PICK j \in 1..K : s.heap[m].parent \in Named(b[j])
        BY <2>3, <3>2
      <4>2. m \in Named(b[j])
        BY <1>3, <2>3, <4>1 DEF Under
      <4> QED BY <4>2
    <3> QED BY <3>1, <3>2
  <2>4. n \in Below(K)
    OBVIOUS
  <2> HIDE DEF Below, K
  <2> QED BY <2>1, <2>2, <2>3, <2>4 DEF Under
<1> QED BY <1>7, <1>13, <1>14, <1>15

(* A call of tree_print_node whose calls print what f says, and the table  *)
(* of these calls.                                                         *)
Turn(s, f, n, d) ==
    Headed(n, d, [i \in DOMAIN s.heap[n].children |-> f[s.heap[n].children[i]][d + 1]])

Turns(s, f) == [n \in Nodes(s) |-> [d \in Nat |-> Turn(s, f, n, d)]]

Prints(s) == [Nodes(s) -> [Nat -> Seq(Lines)]]

(* A call prints lines. *)
LEMMA TurnType ==
    ASSUME NEW s, Good(s), NEW f \in Prints(s), NEW n \in Nodes(s), NEW d \in Nat
    PROVE  Turn(s, f, n, d) \in Seq(Lines)
<1> DEFINE b == [i \in DOMAIN s.heap[n].children |-> f[s.heap[n].children[i]][d + 1]]
           K == Len(s.heap[n].children)
<1>1. /\ K \in Nat /\ n \in Nat /\ DOMAIN s.heap[n].children = 1..K
      /\ \A i \in 1..K : s.heap[n].children[i] \in Nodes(s)
  <2>1. DOMAIN s.heap[n].children = 1..K
    BY Types DEF Good
  <2> QED BY <2>1, Types DEF Good
<1>2. ASSUME NEW i \in 1..K PROVE b[i] \in Seq(Lines)
  <2>1. s.heap[n].children[i] \in Nodes(s) /\ d + 1 \in Nat
    BY <1>1
  <2>2. f[s.heap[n].children[i]] \in [Nat -> Seq(Lines)]
    BY <2>1 DEF Prints
  <2> QED BY <1>1, <2>1, <2>2
<1>3. b \in Seq(Seq(Lines)) /\ Len(b) = K
  <2>1. b \in [1..K -> Seq(Lines)]
    BY <1>1, <1>2
  <2> HIDE DEF b, K
  <2> QED BY <1>1, <2>1
<1> HIDE DEF b
<1>4. PICK g : Flattens(b, Lines, g)
  BY <1>3, Flattening
<1>5. FlattenSeq(b) \in Seq(Lines)
  <2>1. Len(b) \in 0..Len(b)
    BY <1>3
  <2> QED BY <1>4, <2>1 DEF Flattens
<1>6. <<Line(n, d)>> \in Seq(Lines)
  BY <1>1 DEF Line, Lines
<1>7. <<Line(n, d)>> \o FlattenSeq(b) \in Seq(Lines)
  BY <1>5, <1>6, ConcatProperties
<1> QED BY <1>7 DEF Turn, Headed, b

(* Two functions that agree on a node's entries agree on the node.         *)
LEMMA TurnSame ==
    ASSUME NEW s, Good(s), NEW f, NEW g, NEW n \in Nodes(s),
           \A c \in Nodes(s) : c > n => f[c] = g[c]
    PROVE  \A d \in Nat : Turn(s, f, n, d) = Turn(s, g, n, d)
<1> TAKE d \in Nat
<1>1. ASSUME NEW i \in DOMAIN s.heap[n].children
      PROVE  f[s.heap[n].children[i]] = g[s.heap[n].children[i]]
  <2> DEFINE c == s.heap[n].children[i]
  <2>1. c \in Nodes(s) /\ c \in Nat /\ n \in Nat
    BY Types DEF Good
  <2>2. s.heap[c].parent = n /\ c # ROOT
    BY DEF Good, ChildrenLinked
  <2>3. c > n
    BY <2>1, <2>2 DEF Good, ParentsOlder
  <2> QED BY <2>1, <2>3
<1>2. [i \in DOMAIN s.heap[n].children |-> f[s.heap[n].children[i]][d + 1]] =
      [i \in DOMAIN s.heap[n].children |-> g[s.heap[n].children[i]][d + 1]]
  BY <1>1
<1> QED BY <1>2 DEF Turn

(* tree_print_node is what it calls itself to be.  There is such a table:  *)
(* calls go to younger nodes, so after Len(s.heap) rounds it is complete.  *)
LEMMA PrintNode ==
    ASSUME NEW s, Good(s)
    PROVE  tree_print_node(s) = Turns(s, tree_print_node(s))
<1> DEFINE N == Len(s.heap)
           S == Prints(s)
           a == [n \in Nodes(s) |-> [d \in Nat |-> << >>]]
           g == [i \in 1..N |-> [f \in S |-> Turns(s, f)]]
<1>1. N \in Nat /\ Nodes(s) = 1..N
  BY Types DEF Good, Nodes
<1>2. a \in S
  BY DEF Prints
<1>3. ASSUME NEW f \in S PROVE Turns(s, f) \in S
  BY TurnType DEF Turns, Prints
<1>4. g \in Steps(N, S)
  BY <1>3 DEF Steps
<1>5. PICK p : Path(N, S, a, g, p)
  <2> HIDE DEF N, S, a, g
  <2> QED BY <1>1, <1>2, <1>4, StepByStep
<1>6. p \in [0..N -> S]
  BY <1>5 DEF Path
<1>7. ASSUME NEW i \in 1..N PROVE p[i] = Turns(s, p[i - 1])
  <2>1. i - 1 \in 0..N
    BY <1>1
  <2>2. p[i - 1] \in S
    BY <1>6, <2>1
  <2>3. p[i] = g[i][p[i - 1]]
    BY <1>5 DEF Path
  <2> HIDE DEF S
  <2> QED BY <2>2, <2>3
<1> DEFINE P == {i \in 0..N : \A n \in Nodes(s) : n > N - i => Turns(s, p[i])[n] = p[i][n]}
<1> HIDE DEF S, a, g
<1>8. 0 \in P
  <2>1. \A n \in Nodes(s) : ~(n > N - 0)
    BY <1>1
  <2> QED BY <1>1, <2>1
<1>9. ASSUME NEW i \in Nat, i < N, i \in P PROVE i + 1 \in P
  <2>1. i + 1 \in 1..N /\ (i + 1) - 1 = i /\ i + 1 \in 0..N
    BY <1>1, <1>9
  <2>2. p[i + 1] = Turns(s, p[i])
    BY <1>7, <2>1
  <2>3. ASSUME NEW n \in Nodes(s), n > N - (i + 1)
        PROVE  Turns(s, p[i + 1])[n] = p[i + 1][n]
    <3>1. \A c \in Nodes(s) : c > n => p[i + 1][c] = p[i][c]
      <4>1. \A c \in Nodes(s) : c > n => c > N - i
        BY <1>1, <2>3
      <4> QED BY <1>9, <2>2, <4>1
    <3>2. \A d \in Nat : Turn(s, p[i + 1], n, d) = Turn(s, p[i], n, d)
      <4> DEFINE x == p[i + 1]
                 y == p[i]
      <4>1. \A c \in Nodes(s) : c > n => x[c] = y[c]
        BY <3>1
      <4> HIDE DEF x, y
      <4>2. \A d \in Nat : Turn(s, x, n, d) = Turn(s, y, n, d)
        BY <4>1, TurnSame
      <4> QED BY <4>2 DEF x, y
    <3>3. Turns(s, p[i + 1])[n] = Turns(s, p[i])[n]
      BY <3>2 DEF Turns
    <3> QED BY <2>2, <3>3
  <2> QED BY <2>1, <2>3
<1>10. N \in P
  <2> HIDE DEF P, N
  <2>1. \A i \in 0..N : i \in P
    BY <1>1, <1>8, <1>9, UpTo
  <2>2. N \in 0..N
    BY <1>1
  <2> QED BY <2>1, <2>2, Zenon
<1> DEFINE h == p[N]
<1>11. h = Turns(s, h)
  <2>1. \A n \in Nodes(s) : Turns(s, h)[n] = h[n]
    BY <1>1, <1>10
  <2>2. h \in [Nodes(s) -> [Nat -> Seq(Lines)]]
    BY <1>1, <1>6 DEF S, Prints
  <2>3. Turns(s, h) = [n \in Nodes(s) |-> Turns(s, h)[n]]
    BY DEF Turns
  <2> HIDE DEF h
  <2> QED BY <2>1, <2>2, <2>3
<1> DEFINE Eq(f) == f = [n \in Nodes(s) |-> [depth \in Nat |->
                           <<[node |-> n, depth |-> depth]>> \o
                           FlattenSeq([i \in DOMAIN s.heap[n].children |->
                                          f[s.heap[n].children[i]][depth + 1]])]]
<1>12. Eq(h)
  BY <1>11 DEF Turns, Turn, Headed, Line
<1>13. tree_print_node(s) = CHOOSE f : Eq(f)
  BY DEF tree_print_node
<1> DEFINE w == CHOOSE f : Eq(f)
<1>14. Eq(w)
  <2> HIDE DEF Eq, h
  <2> QED BY <1>12
<1>15. w = Turns(s, w)
  <2> HIDE DEF w
  <2> QED BY <1>14 DEF Turns, Turn, Headed, Line
<1> HIDE DEF Eq, w
<1> QED BY <1>13, <1>15 DEF w

(* tree_print_node prints a node and what is below it. *)
LEMMA NodePrints ==
    ASSUME NEW s, Good(s), NEW n \in Nodes(s)
    PROVE  LET w == tree_print_node(s)
           IN  \A d \in Nat : /\ Printout(s, w[n][d], n, d + 1)
                              /\ Under(s, n, Named(w[n][d]))
                              /\ w[n][d][1].depth = d
                              /\ w[n][d] \in Seq(Lines)
<1> DEFINE w == tree_print_node(s)
           N == Len(s.heap)
           Done(m, d) == /\ Printout(s, w[m][d], m, d + 1)
                         /\ Under(s, m, Named(w[m][d]))
                         /\ w[m][d][1].depth = d
           T == {k \in Nat : \E m \in Nodes(s) : k = N - m /\ \E d \in Nat : ~Done(m, d)}
<1>1. N \in Nat /\ Nodes(s) = 1..N
  BY Types DEF Good, Nodes
<1>2. w = Turns(s, w)
  BY PrintNode
<1> HIDE DEF w, N
<1>3. ASSUME NEW m \in Nodes(s), \A c \in Nodes(s) : c > m => \A d \in Nat : Done(c, d),
             NEW e \in Nat
      PROVE  Done(m, e)
  <2> DEFINE K == Len(s.heap[m].children)
             b == [i \in DOMAIN s.heap[m].children |-> w[s.heap[m].children[i]][e + 1]]
  <2>1. K \in Nat /\ DOMAIN s.heap[m].children = 1..K
    BY Types DEF Good
  <2>2. ASSUME NEW i \in DOMAIN s.heap[m].children
        PROVE  s.heap[m].children[i] \in Nodes(s) /\ s.heap[m].children[i] > m
    <3> DEFINE c == s.heap[m].children[i]
    <3>1. c \in Nodes(s) /\ c \in Nat /\ m \in Nat
      BY Types DEF Good
    <3>2. s.heap[c].parent = m /\ c # ROOT
      BY DEF Good, ChildrenLinked
    <3>3. c > m
      BY <3>1, <3>2 DEF Good, ParentsOlder
    <3> QED BY <3>1, <3>3
  <2>3. ASSUME NEW i \in DOMAIN s.heap[m].children
        PROVE  Done(s.heap[m].children[i], e + 1) /\ b[i] = w[s.heap[m].children[i]][e + 1]
    <3>1. e + 1 \in Nat
      OBVIOUS
    <3> QED BY <1>3, <2>2, <3>1
  <2> HIDE DEF b
  <2>4. ASSUME NEW i \in DOMAIN s.heap[m].children
        PROVE  /\ Printout(s, b[i], s.heap[m].children[i], (e + 1) + 1)
               /\ Under(s, s.heap[m].children[i], Named(b[i]))
               /\ b[i][1].depth = e + 1
    BY <2>3
  <2>5. b \in Seq(Seq(Lines)) /\ Len(b) = K
    <3>1. \A i \in 1..K : b[i] \in Seq(Lines)
      BY <2>1, <2>4 DEF Printout
    <3>2. b = [i \in 1..K |-> b[i]]
      BY <2>1 DEF b
    <3> HIDE DEF K
    <3>3. b \in [1..K -> Seq(Lines)]
      BY <3>1, <3>2
    <3> QED BY <2>1, <3>3
  <2> DEFINE out == w[m][e]
  <2>6. out = Turn(s, w, m, e)
    BY <1>2 DEF Turns
  <2>7. out = Headed(m, e, b)
    BY <2>6 DEF Turn, b
  <2> HIDE DEF out
  <2>8. e + 1 \in Nat
    OBVIOUS
  <2>9. Entries(s, m, e + 1, b)
    BY <2>4, <2>5 DEF Entries
  <2>10. Printout(s, out, m, e + 1) /\ Under(s, m, Named(out)) /\ out[1].depth = e
    BY <2>7, <2>8, <2>9, PrintoutNode
  <2> QED BY <2>10 DEF out
<1>4. ASSUME T # {} PROVE FALSE
  <2>1. PICK k \in T : \A j \in T : k <= j
    <3>1. T \in SUBSET Nat
      OBVIOUS
    <3> HIDE DEF T
    <3> QED BY <1>4, <3>1, LeastNat
  <2>2. PICK m \in Nodes(s) : k = N - m /\ \E d \in Nat : ~Done(m, d)
    BY <2>1
  <2> HIDE DEF Done
  <2>3. ASSUME NEW c \in Nodes(s), c > m PROVE \A d \in Nat : Done(c, d)
    <3>1. N - c \in Nat /\ N - c < k
      BY <1>1, <2>2, <2>3
    <3>2. N - c \notin T
      BY <2>1, <3>1
    <3> QED BY <3>1, <3>2
  <2> QED BY <1>3, <2>2, <2>3
<1>5. \A d \in Nat : Done(n, d)
  <2> HIDE DEF Done
  <2>1. N - n \in Nat
    BY <1>1
  <2>2. N - n \notin T
    BY <1>4, Zenon
  <2> QED BY <2>1, <2>2
<1>6. \A d \in Nat : w[n][d] \in Seq(Lines)
  BY <1>5 DEF Printout
<1> QED BY <1>5, <1>6 DEF w

(* What TreePrintsTree says of one state. *)
TreePrinted(s, out) ==
    /\ {out[i].node : i \in DOMAIN out} = LiveNodes(s)
    /\ Len(out) = Cardinality(LiveNodes(s))
    /\ \A i \in 2..Len(out) :
         \E j \in 1..(i - 1) :
            /\ out[j].node = s.heap[out[i].node].parent
            /\ out[i].depth = (IF j = 1 THEN 0 ELSE out[j].depth + 1)
            /\ \A k \in (j + 1)..(i - 1) : out[k].depth >= out[i].depth

(* A print without repetitions has as many lines as it names nodes. *)
LEMMA NamedOnce ==
    ASSUME NEW s, NEW out, NEW n, NEW d, Printout(s, out, n, d)
    PROVE  Cardinality(Named(out)) = Len(out)
<1> DEFINE f == [i \in 1..Len(out) |-> out[i].node]
<1>1. Len(out) \in Nat
  BY DEF Printout
<1>2. f \in Bijection(1..Len(out), Named(out))
  <2>1. f \in [1..Len(out) -> Named(out)]
    BY DEF Named
  <2>2. \A i, j \in 1..Len(out) : f[i] = f[j] => i = j
    BY DEF Printout
  <2>3. \A x \in Named(out) : \E i \in 1..Len(out) : f[i] = x
    BY DEF Named
  <2> HIDE DEF f
  <2>4. DOMAIN f = 1..Len(out)
    BY <2>1
  <2> QED BY <2>1, <2>2, <2>3, <2>4 DEF Bijection, Injection, Surjection, IsInjective
<1>3. IsFiniteSet(1..Len(out)) /\ Cardinality(1..Len(out)) = Len(out)
  <2> DEFINE k == Len(out)
             c == Cardinality(1..k)
  <2>1. k \in Nat
    BY <1>1
  <2> HIDE DEF k
  <2>2. IsFiniteSet(1..k) /\ c = IF 1 > k THEN 0 ELSE k - 1 + 1
    BY <2>1, FS_Interval
  <2> HIDE DEF c
  <2>3. c = k
    BY <2>1, <2>2
  <2> QED BY <2>2, <2>3 DEF c, k
<1>4. Cardinality(1..Len(out)) = Cardinality(Named(out))
  <2> HIDE DEF f
  <2>1. ExistsBijection(1..Len(out), Named(out))
    BY <1>2 DEF ExistsBijection
  <2> QED BY <1>3, <2>1, FS_Bijection
<1> QED BY <1>3, <1>4

(* The prints of the root's entries make the tree. *)
LEMMA RootPrints ==
    ASSUME NEW s, Good(s), NEW arg, directory(s, arg) = ROOT
    PROVE  TreePrinted(s, cmd_tree(s, arg))
<1> DEFINE w == tree_print_node(s)
           K == Len(s.heap[ROOT].children)
           b == [i \in DOMAIN s.heap[ROOT].children |-> w[s.heap[ROOT].children[i]][0]]
           out == cmd_tree(s, arg)
<1>1. ROOT \in Nodes(s)
  BY DEF Good, AnchoredDirs
<1>2. K \in Nat /\ DOMAIN s.heap[ROOT].children = 1..K
  BY <1>1, Types DEF Good
<1>3. out = Headed(ROOT, 0, b)
  BY DEF cmd_tree, Headed, Line
<1> HIDE DEF w, out
<1>4. ASSUME NEW i \in DOMAIN s.heap[ROOT].children
      PROVE  /\ Printout(s, b[i], s.heap[ROOT].children[i], 0 + 1)
             /\ Under(s, s.heap[ROOT].children[i], Named(b[i]))
             /\ b[i][1].depth = 0
  <2>1. s.heap[ROOT].children[i] \in Nodes(s) /\ 0 \in Nat
    BY <1>1, Types DEF Good
  <2>2. /\ Printout(s, w[s.heap[ROOT].children[i]][0], s.heap[ROOT].children[i], 0 + 1)
        /\ Under(s, s.heap[ROOT].children[i], Named(w[s.heap[ROOT].children[i]][0]))
        /\ w[s.heap[ROOT].children[i]][0][1].depth = 0
    BY <2>1, NodePrints DEF w
  <2>3. b[i] = w[s.heap[ROOT].children[i]][0]
    OBVIOUS
  <2> HIDE DEF b
  <2> QED BY <2>2, <2>3
<1>5. b = [i \in 1..K |-> b[i]]
  BY <1>2
<1> HIDE DEF b, K
<1>6. b \in Seq(Seq(Lines)) /\ Len(b) = K
  <2>1. \A i \in 1..K : b[i] \in Seq(Lines)
    BY <1>2, <1>4 DEF Printout
  <2>2. b \in [1..K -> Seq(Lines)]
    BY <1>5, <2>1
  <2> QED BY <1>2, <2>2
<1>7. Printout(s, out, ROOT, 0) /\ Under(s, ROOT, Named(out))
  <2>1. Entries(s, ROOT, 0, b)
    BY <1>4, <1>6 DEF Entries, K
  <2> QED BY <1>1, <1>3, <2>1, PrintoutNode
<1>8. Named(out) = LiveNodes(s)
  BY <1>7, UnderRoot
<1>9. Cardinality(Named(out)) = Len(out)
  BY <1>7, NamedOnce
<1>10. DOMAIN out = 1..Len(out)
  BY <1>7 DEF Printout
<1>11. \A i \in 2..Len(out) : Hung(s, out, 0, i)
  BY <1>7 DEF Printout
<1>12. TreePrinted(s, out)
  BY <1>8, <1>9, <1>10, <1>11 DEF TreePrinted, Named, Hung
<1> QED BY <1>12 DEF out

(* The path "/" is the root's. *)
LEMMA RootDirectory ==
    ASSUME NEW s, Good(s)
    PROVE  directory(s, <<EMPTY, EMPTY>>) = ROOT
<1> DEFINE e == << >>
           p == <<EMPTY, EMPTY>>
<1>1. e \in Seq(Segment) /\ e = << >> /\ Len(e) = 0
  OBVIOUS
<1>2. IsAbsolute(p) /\ Tokens(p) = e
  <2> HIDE DEF e
  <2> QED BY <1>1, AbsoluteTokens, Zenon
<1>3. p # << >>
  BY Zenon
<1> HIDE DEF p, e
<1>4. Walk(s, ROOT, e)[Len(e)] = ROOT
  BY <1>1, RootAttached, WalkAttached
<1>5. fs_resolve_path(s, p) = ROOT
  BY <1>2, <1>4, Zenon DEF fs_resolve_path
<1>6. IsDirectory(s, ROOT)
  BY DEF IsDirectory, ROOT, NULL, Good, AnchoredDirs
<1>7. directory(s, p) = ROOT
  BY <1>3, <1>5, <1>6 DEF directory
<1> QED BY <1>7 DEF p

(* tree shows the tree, of every tree: what can be reached from the root,  *)
(* once each, below its directory and indented one step more.              *)
THEOREM TreePrintsIt == Spec => []TreePrintsTree
<1>1. Inv => TreePrintsTree
  <2> SUFFICES ASSUME Good(fs) PROVE TreePrintsTree
    BY DEF Inv, Sound
  <2>1. TreePrinted(fs, cmd_tree(fs, <<EMPTY, EMPTY>>))
    BY RootDirectory, RootPrints, Zenon
  <2>2. ASSUME NEW out, TreePrinted(fs, out)
        PROVE  /\ {out[i].node : i \in DOMAIN out} = LiveNodes(fs)
               /\ Len(out) = Cardinality(LiveNodes(fs))
               /\ \A i \in 2..Len(out) :
                    \E j \in 1..(i - 1) :
                       /\ out[j].node = fs.heap[out[i].node].parent
                       /\ out[i].depth = (IF j = 1 THEN 0 ELSE out[j].depth + 1)
                       /\ \A k \in (j + 1)..(i - 1) : out[k].depth >= out[i].depth
    BY <2>2 DEF TreePrinted
  <2> QED BY <2>1, <2>2, Zenon DEF TreePrintsTree
<1> QED BY <1>1, AlwaysSound, PTL

-------------------------------------------------------------------------------
(* What the editor saves, and what it opens. *)

(* The file n starts with text, and its size says no more. *)
HasText(s, n, text) ==
    /\ s.heap[n].size = Len(text)
    /\ \A i \in 1..Len(text) : s.heap[n].data[i] = text[i]

(* A text that fits is in the file that it was written to. *)
LEMMA WrittenText ==
    ASSUME NEW s, NEW t, NEW n \in Nodes(s), NEW text, Storable(text), Written(s, t, n, text)
    PROVE  HasText(t, n, text)
<1> DEFINE size == Min({Len(text), MAX_FILE_SIZE})
<1>1. /\ Len(text) \in Nat /\ MAX_FILE_SIZE \in Nat /\ Len(text) <= MAX_FILE_SIZE
      /\ \A i \in 1..Len(text) : i \in 1..MAX_FILE_SIZE /\ i <= Len(text)
  BY SizesAssumption DEF Storable
<1>2. size = Len(text)
  BY <1>1, MinPair
<1>3. /\ t.heap[n].size = size
      /\ t.heap[n].data = [i \in 1..MAX_FILE_SIZE |->
                              IF i <= size THEN text[i] ELSE s.heap[n].data[i]]
  BY DEF Written
<1> HIDE DEF size
<1>4. \A i \in 1..Len(text) : t.heap[n].data[i] = text[i]
  BY <1>1, <1>2, <1>3
<1> QED BY <1>2, <1>3, <1>4 DEF HasText

(* What fs_read_file hands out is what the buffer holds before its first   *)
(* '\0': a text that a file can hold.                                      *)
LEMMA ReadText ==
    ASSUME NEW s, Good(s), Ended(s), NEW n \in Nodes(s), HasData(s, n)
    PROVE  /\ Storable(fs_read_file(s, n))
           /\ \A i \in 1..Len(fs_read_file(s, n)) : fs_read_file(s, n)[i] = s.heap[n].data[i]
<1> DEFINE data == s.heap[n].data
           T == {i \in DOMAIN data : data[i] = NUL} \cup {Len(data) + 1}
           m == Min(T)
<1>1. n \in Buffers(s)
  BY DEF Buffers, HasData
<1>2. data[MAX_FILE_SIZE] = NUL
  BY <1>1 DEF Ended
<1>3. MAX_FILE_SIZE \in Nat /\ MAX_FILE_SIZE > 0
  BY SizesAssumption
<1>4. data \in Buffer
  <2>1. s.heap[n] \in fs_node_t
    BY Types DEF Good
  <2>2. data \in Buffer \cup {NODATA}
    BY <2>1 DEF fs_node_t
  <2> QED BY <2>2 DEF HasData
<1>5. /\ data \in Seq(Char \cup {NUL}) /\ DOMAIN data = 1..MAX_FILE_SIZE
      /\ Len(data) = MAX_FILE_SIZE
  BY <1>3, <1>4 DEF Buffer
<1>6. fs_read_file(s, n) = SubSeq(data, 1, m - 1)
  BY DEF fs_read_file
<1> HIDE DEF data
<1>7. /\ T \in SUBSET Nat /\ T # {} /\ MAX_FILE_SIZE \in T
      /\ \A i \in T : i > 0 /\ i <= MAX_FILE_SIZE + 1
      /\ \A i \in 1..MAX_FILE_SIZE : i \notin T => data[i] # NUL
  BY <1>2, <1>3, <1>5
<1>8. m \in T /\ \A k \in T : m <= k
  BY <1>7, MinNat
<1> HIDE DEF T, m
<1>9. m \in Nat /\ m > 0 /\ m <= MAX_FILE_SIZE
  BY <1>3, <1>7, <1>8
<1>10. \A i \in 1..(m - 1) : i \in 1..MAX_FILE_SIZE /\ data[i] \in Char
  <2>1. ASSUME NEW i \in 1..(m - 1) PROVE i \in 1..MAX_FILE_SIZE /\ data[i] \in Char
    <3>1. i \in 1..MAX_FILE_SIZE /\ ~(m <= i)
      BY <1>3, <1>9
    <3>2. data[i] # NUL
      BY <1>7, <1>8, <3>1
    <3>3. data[i] \in Char \cup {NUL}
      BY <1>5, <3>1
    <3> QED BY <3>1, <3>2, <3>3
  <2> QED BY <2>1
<1> DEFINE r == SubSeq(data, 1, m - 1)
<1>11. Len(r) = m - 1 /\ r \in Seq(Char) /\ \A i \in 1..(m - 1) : r[i] = data[i]
  <2> DEFINE k == m - 1
  <2>1. k \in Nat /\ k <= Len(data) /\ \A i \in 1..k : data[i] \in Char
    BY <1>3, <1>5, <1>9, <1>10
  <2> HIDE DEF k
  <2>2. SubSeq(data, 1, k) = [i \in 1..k |-> data[i]]
    BY <1>5, <2>1
  <2>3. SubSeq(data, 1, k) \in Seq(Char) /\ Len(SubSeq(data, 1, k)) = k
    BY <2>1, <2>2
  <2> QED BY <2>2, <2>3 DEF k
<1>12. Len(r) < MAX_FILE_SIZE /\ \A i \in 1..Len(r) : r[i] = data[i]
  BY <1>3, <1>9, <1>11
<1> HIDE DEF r
<1> QED BY <1>6, <1>11, <1>12 DEF Storable, r, data

(* A file that has a text reads as something that starts with it. *)
LEMMA ReadStarts ==
    ASSUME NEW s, Good(s), Ended(s), NEW n \in Nodes(s), HasData(s, n),
           NEW text \in Seq(Char), HasText(s, n, text)
    PROVE  IsPrefix(text, fs_read_file(s, n))
<1> DEFINE r == fs_read_file(s, n)
<1>1. r \in Seq(Char) /\ \A i \in 1..Len(r) : r[i] = s.heap[n].data[i]
  BY ReadText DEF Storable
<1>2. Len(r) >= s.heap[n].size
  BY ReadReachesSize
<1> HIDE DEF r
<1>3. Len(text) \in Nat /\ Len(r) \in Nat
  BY <1>1
<1>4. Len(text) <= Len(r) /\ \A i \in 1..Len(text) : r[i] = text[i]
  BY <1>1, <1>2, <1>3 DEF HasText
<1>5. IsPrefix(text, r)
  BY <1>1, <1>4, PrefixIs
<1> QED BY <1>5 DEF r

(* What the editor's save leaves: nothing changed, the text in the file    *)
(* that the path led to, an abandoned node, or a new entry of the current  *)
(* directory, with the text if it got a buffer.                            *)
Saved(s, t, a, text) ==
    \/ t = s /\ ~HasData(s, fs_resolve_path(s, a))
    \/ /\ HasData(s, fs_resolve_path(s, a))
       /\ Good(t) /\ Written(s, t, fs_resolve_path(s, a), text)
    \/ fs_resolve_path(s, a) = NULL /\ Loose(s, t, Len(s.heap) + 1, REGULAR)
    \/ /\ fs_resolve_path(s, a) = NULL
       /\ Grown(s, t, s.current_dir, Len(s.heap) + 1, REGULAR)
       /\ t.heap[Len(s.heap) + 1].name = Truncate(a)
       /\ HasData(t, Len(s.heap) + 1) => HasText(t, Len(s.heap) + 1, text)

(* Writing a text into a node that has just been made and entered. *)
LEMMA SaveGrown ==
    ASSUME NEW s, Good(s), NEW u, NEW dir, NEW c, Grown(s, u, dir, c, REGULAR),
           NEW text, Storable(text), NEW t, t = fs_write_file(u, c, text).fs
    PROVE  /\ Grown(s, t, dir, c, REGULAR) /\ t.heap[c].name = u.heap[c].name
           /\ HasData(t, c) => HasText(t, c, text)
<1>1. text \in Seq(Char \cup {NUL})
  BY SeqMonotonic DEF Storable
<1>2. Grown(s, t, dir, c, REGULAR)
  BY <1>1, GrownWrite
<1>3. c \in Nodes(u) /\ Good(u)
  BY DEF Grown
<1>4. IF HasData(u, c) THEN Written(u, t, c, text) ELSE t = u
  BY <1>1, <1>3, WriteGood
<1>5. CASE HasData(u, c)
  <2>1. Written(u, t, c, text)
    BY <1>4, <1>5
  <2>2. HasText(t, c, text)
    BY <1>3, <2>1, WrittenText
  <2>3. t.heap[c].name = u.heap[c].name
    BY <1>3, <2>1 DEF Written
  <2> QED BY <1>2, <2>2, <2>3
<1>6. CASE ~HasData(u, c)
  BY <1>2, <1>4, <1>6
<1> QED BY <1>5, <1>6

(* Saving where the path leads nowhere. *)
LEMMA SaveNew ==
    ASSUME NEW s, Good(s), NEW a \in Arg, NEW text \in Text, fs_resolve_path(s, a) = NULL,
           NEW node, node = fs_create_file(s, a, REGULAR), node # Result(s, NULL),
           NEW added, added = fs_add_child(node.fs, s.current_dir, node.ret)
    PROVE  node.ret # NULL /\ Saved(s, fs_write_file(added.fs, node.ret, text).fs, a, text)
<1> DEFINE c == Len(s.heap) + 1
           u == node.fs
           t == fs_write_file(added.fs, node.ret, text).fs
<1>1. Good(u) /\ Fresh(s, u, node.ret, a, REGULAR)
  BY ArgString, CreateGood
<1>2. node.ret = c /\ u.total_files = s.total_files + 1 /\ u.heap[node.ret].name = Truncate(a)
  BY <1>1 DEF Fresh
<1>3. Loose(s, u, c, REGULAR) /\ c # NULL
  BY <1>1, <1>2, FreshLoose DEF Loose
<1>4. s.current_dir \in Attached(s)
  BY RootAttached
<1>5. \/ added = Result(u, -1)
      \/ /\ added.ret = 0 /\ Grown(s, added.fs, s.current_dir, c, REGULAR)
         /\ added.fs.heap[c].name = u.heap[c].name
  BY <1>2, <1>3, <1>4, LooseAdd
<1>6. t = fs_write_file(added.fs, c, text).fs
  BY <1>2
<1> HIDE DEF t, u, c
<1>7. CASE added = Result(u, -1)
  <2>1. added.fs = u
    BY <1>7 DEF Result
  <2>2. Loose(s, fs_write_file(u, c, text).fs, c, REGULAR)
    BY <1>3, TextString, LooseWrite
  <2>3. Loose(s, t, c, REGULAR)
    BY <1>6, <2>1, <2>2
  <2>4. Saved(s, t, a, text)
    BY <2>3 DEF Saved, c
  <2> QED BY <1>2, <1>3, <2>4 DEF t
<1>8. CASE Grown(s, added.fs, s.current_dir, c, REGULAR) /\ added.fs.heap[c].name = u.heap[c].name
  <2>1. Storable(text)
    BY TextString
  <2>2. /\ Grown(s, t, s.current_dir, c, REGULAR)
        /\ t.heap[c].name = added.fs.heap[c].name
        /\ HasData(t, c) => HasText(t, c, text)
    BY <1>6, <1>8, <2>1, SaveGrown
  <2>3. t.heap[c].name = Truncate(a)
    BY <1>2, <1>8, <2>2
  <2>4. Saved(s, t, a, text)
    BY <2>2, <2>3 DEF Saved, c
  <2> QED BY <1>2, <1>3, <2>4 DEF t
<1> QED BY <1>5, <1>7, <1>8

(* The editor's save; it counts as successful when there was no text. *)
LEMMA SaveShape ==
    ASSUME NEW s, Good(s), NEW a \in Arg, NEW text \in Text,
           NEW r, r = editor_save_file(s, a, text)
    PROVE  Saved(s, r.fs, a, text) /\ (r.ok => text = << >>)
<1> DEFINE found == fs_resolve_path(s, a)
           node == fs_create_file(s, a, REGULAR)
           added == fs_add_child(node.fs, s.current_dir, node.ret)
           t == IF found = NULL /\ node.ret # NULL THEN added.fs ELSE s
           file == IF found = NULL THEN node.ret ELSE found
           w == fs_write_file(t, file, text)
<1>1. found \in Nodes(s) \cup {NULL}
  BY ArgString, ResolveAttached DEF Attached
<1>2. r = Outcome(w.fs, w.ret = 0)
  BY DEF editor_save_file
<1>3. r.fs = w.fs /\ r.ok = (w.ret = 0)
  <2> DEFINE ok == w.ret = 0
  <2>1. r = [fs |-> w.fs, ok |-> ok]
    BY <1>2 DEF Outcome
  <2> HIDE DEF ok, w
  <2>2. r.fs = w.fs /\ r.ok = ok
    BY <2>1
  <2> QED BY <2>2 DEF ok
<1>4. w.ret = 0 => text = << >>
  <2>1. w.ret \in {-1, Min({Len(text), MAX_FILE_SIZE})}
    BY DEF fs_write_file, Result
  <2>2. /\ text \in Seq(Char) /\ Len(text) \in Nat /\ MAX_FILE_SIZE \in Nat
        /\ Len(text) <= MAX_FILE_SIZE
    BY TextString, SizesAssumption DEF Storable
  <2>3. Min({Len(text), MAX_FILE_SIZE}) = Len(text)
    BY <2>2, MinPair
  <2> HIDE DEF w
  <2> QED BY <2>1, <2>2, <2>3
<1>5. Saved(s, w.fs, a, text)
  <2> HIDE DEF found, node, added
  <2>1. CASE found # NULL
    <3>1. t = s /\ file = found
      BY <2>1
    <3>2. IF HasData(s, found) THEN Good(w.fs) /\ Written(s, w.fs, found, text) ELSE w.fs = s
      <4> HIDE DEF t, file
      <4> QED BY <1>1, <3>1, TextString, WriteGood
    <3> HIDE DEF w
    <3> QED BY <3>2 DEF Saved, found
  <2>2. CASE found = NULL /\ node = Result(s, NULL)
    <3>1. t = s /\ file = NULL
      BY <2>2 DEF Result
    <3>2. w.fs = s
      <4> HIDE DEF t, file
      <4> QED BY <3>1 DEF fs_write_file, HasData, Result
    <3>3. ~HasData(s, found)
      BY <2>2 DEF HasData
    <3> HIDE DEF w
    <3> QED BY <3>2, <3>3 DEF Saved, found
  <2>3. CASE found = NULL /\ node # Result(s, NULL)
    <3>1. node.ret # NULL /\ Saved(s, fs_write_file(added.fs, node.ret, text).fs, a, text)
      BY <2>3, SaveNew DEF found, node, added
    <3>2. t = added.fs /\ file = node.ret
      BY <2>3, <3>1
    <3> HIDE DEF t, file
    <3> QED BY <3>1, <3>2
  <2> QED BY <2>1, <2>2, <2>3
<1> QED BY <1>3, <1>4, <1>5

(* The node c is the one that the token names. *)
Answers(t, c, token) == t.heap[c].name = <<token>>

(* A token that led nowhere leads nowhere still, or to the new entry if    *)
(* that has its name.                                                      *)
LEMMA TokenNew ==
    ASSUME NEW s, Good(s), NEW t, NEW c, NEW type, NEW dir,
           Loose(s, t, c, type) \/ Grown(s, t, dir, c, type),
           NEW n \in Attached(s), NEW token, ResolveToken(s, n, token) = NULL
    PROVE  \/ ResolveToken(t, n, token) = NULL
           \/ ResolveToken(t, n, token) = c /\ Answers(t, c, token)
<1>1. n \in Nodes(s) /\ n # NULL /\ s.heap[n].parent # NULL
  BY Types, UpAttached DEF Good, Attached
<1>2. token # "." /\ token # ".." /\ fs_find_child(s, n, <<token>>) = NULL
  BY <1>1 DEF ResolveToken
<1> DEFINE name == <<token>>
           x == fs_find_child(t, n, name)
<1>3. ResolveToken(t, n, token) = x
  BY <1>1, <1>2 DEF ResolveToken
<1> HIDE DEF name
<1>4. /\ Good(t) /\ n \in Nodes(t) /\ Nodes(t) = Nodes(s) \cup {c}
      /\ t.heap[n].type = s.heap[n].type
      /\ \A m \in Nodes(s) : t.heap[m].name = s.heap[m].name
      /\ \/ t.heap[n].children = s.heap[n].children
         \/ t.heap[n].children = Append(s.heap[n].children, c)
  BY <1>1 DEF Loose, Grown
<1>5. CASE x # NULL /\ x # c
  <2>1. PICK i \in DOMAIN t.heap[n].children :
          x = t.heap[n].children[i] /\ t.heap[t.heap[n].children[i]].name = name
    BY <1>4, <1>5, FindEntry
  <2>2. x \in Nodes(s) /\ s.heap[x].name = name
    <3>1. x \in Nodes(t)
      BY <1>4, <2>1, Types DEF Good
    <3> HIDE DEF x
    <3> QED BY <1>4, <1>5, <2>1, <3>1
  <2>3. i \in DOMAIN s.heap[n].children /\ s.heap[n].children[i] = x
    <3> DEFINE e == s.heap[n].children
    <3>1. e \in Seq(Nodes(s))
      BY <1>1 DEF Good, WellTyped
    <3> HIDE DEF e, x
    <3>2. CASE t.heap[n].children = e
      BY <2>1, <3>2 DEF e
    <3>3. CASE t.heap[n].children = Append(e, c)
      <4>1. i \in 1..(Len(e) + 1) /\ Len(e) \in Nat
        BY <2>1, <3>1, <3>3
      <4>2. Append(e, c)[Len(e) + 1] = c
        BY <3>1
      <4>3. i \in 1..Len(e)
        BY <1>5, <2>1, <3>3, <4>1, <4>2
      <4>4. Append(e, c)[i] = e[i] /\ i \in DOMAIN e
        BY <3>1, <4>3
      <4> QED BY <2>1, <3>3, <4>4 DEF e
    <3> QED BY <1>4, <3>2, <3>3 DEF e
  <2>4. fs_find_child(s, n, s.heap[s.heap[n].children[i]].name) = s.heap[n].children[i]
    BY <1>1, <2>3, FindUnique
  <2> HIDE DEF x
  <2>5. fs_find_child(s, n, name) = x
    BY <2>2, <2>3, <2>4
  <2> QED BY <1>2, <1>5, <2>5 DEF name
<1>6. CASE x = c
  <2>1. c # NULL
    BY DEF Loose, Grown
  <2>2. PICK i \in DOMAIN t.heap[n].children :
          x = t.heap[n].children[i] /\ t.heap[t.heap[n].children[i]].name = name
    BY <1>4, <1>6, <2>1, FindEntry
  <2>3. t.heap[c].name = name
    <3> HIDE DEF x
    <3> QED BY <1>6, <2>2
  <2> QED BY <1>3, <1>6, <2>3 DEF name, Answers
<1>7. CASE x = NULL
  BY <1>3, <1>7
<1> QED BY <1>5, <1>6, <1>7

(* A path resolves alike where its tokens do. *)
LEMMA ResolveAlike ==
    ASSUME NEW s, Good(s), NEW t, Good(t), t.current_dir = s.current_dir,
           \A n \in Attached(s) : \A token : ResolveToken(t, n, token) = ResolveToken(s, n, token),
           NEW path \in String, path # << >>
    PROVE  fs_resolve_path(t, path) = fs_resolve_path(s, path)
<1> DEFINE start == IF IsAbsolute(path) THEN ROOT ELSE s.current_dir
           tokens == Tokens(path)
           n == Len(tokens)
           v == Walk(s, start, tokens)
           w == Walk(t, start, tokens)
           Q == {i \in 0..n : w[i] = v[i]}
<1>1. n \in Nat
  BY TokensLen
<1>2. start \in Attached(s) /\ start \in Attached(t)
  BY RootAttached
<1>3. fs_resolve_path(s, path) = v[n] /\ fs_resolve_path(t, path) = w[n]
  BY DEF fs_resolve_path
<1> HIDE DEF start, tokens
<1>4. /\ \A i \in 0..n : v[i] \in Attached(s) \cup {NULL}
      /\ v[0] = start
      /\ \A i \in 1..n : v[i] = ResolveToken(s, v[i - 1], tokens[i])
  BY <1>1, <1>2, WalkAttached
<1>5. /\ w[0] = start
      /\ \A i \in 1..n : w[i] = ResolveToken(t, w[i - 1], tokens[i])
  BY <1>1, <1>2, WalkAttached
<1> HIDE DEF n, v, w
<1>6. 0 \in Q
  BY <1>1, <1>4, <1>5
<1>7. ASSUME NEW i \in Nat, i < n, i \in Q PROVE i + 1 \in Q
  <2>1. /\ i \in 0..n /\ i + 1 \in 1..n /\ i + 1 \in 0..n /\ (i + 1) - 1 = i
    BY <1>1, <1>7
  <2>2. /\ v[i + 1] = ResolveToken(s, v[i], tokens[i + 1])
        /\ w[i + 1] = ResolveToken(t, v[i], tokens[i + 1])
    BY <1>4, <1>5, <1>7, <2>1
  <2>3. CASE v[i] = NULL
    BY <2>1, <2>2, <2>3 DEF ResolveToken
  <2>4. CASE v[i] # NULL
    <3>1. v[i] \in Attached(s)
      BY <1>4, <2>1, <2>4
    <3> QED BY <2>1, <2>2, <3>1
  <2> QED BY <2>3, <2>4
<1>8. \A i \in 0..n : i \in Q
  <2> HIDE DEF Q
  <2> QED BY <1>1, <1>6, <1>7, UpTo
<1>9. n \in Q
  BY <1>1, <1>8
<1> QED BY <1>3, <1>9

(* A path of one segment, with a slash behind it or not. *)
LEMMA ResolveSegment ==
    ASSUME NEW s, Good(s), NEW a \in String,
           Len(a) = 1 \/ (Len(a) = 2 /\ a[2] = EMPTY /\ a[1] # EMPTY),
           fs_resolve_path(s, a) = NULL
    PROVE  /\ a[1] # EMPTY
           /\ \A t : Good(t) => fs_resolve_path(t, a) = ResolveToken(t, t.current_dir, a[1])
<1>1. a[1] # EMPTY
  <2> SUFFICES ASSUME Len(a) = 1, a[1] = EMPTY PROVE FALSE
    OBVIOUS
  <2>1. ~IsAbsolute(a) /\ Last(a) = EMPTY
    BY DEF IsAbsolute, Last
  <2>2. a \in Seq(Segment)
    BY DEF String
  <2>3. Front(a) = << >> /\ Len(Front(a)) = 0
    BY <2>2 DEF Front
  <2>4. Tokens(a) = << >> /\ Len(Tokens(a)) = 0
    BY <2>1, <2>3 DEF Tokens
  <2>5. s.current_dir \in Attached(s)
    BY RootAttached
  <2> DEFINE ts == Tokens(a)
  <2>6. fs_resolve_path(s, a) = Walk(s, s.current_dir, ts)[Len(ts)]
    BY <2>1 DEF fs_resolve_path
  <2>7. Len(ts) \in Nat /\ Len(ts) = 0
    BY <2>4
  <2> HIDE DEF ts
  <2>8. Walk(s, s.current_dir, ts)[0] = s.current_dir
    BY <2>5, <2>7, WalkAttached
  <2>9. s.current_dir # NULL
    BY <2>5, Types DEF Good, Attached
  <2> QED BY <2>6, <2>7, <2>8, <2>9
<1>2. ASSUME NEW t, Good(t) PROVE fs_resolve_path(t, a) = ResolveToken(t, t.current_dir, a[1])
  <2> DEFINE one == <<a[1]>>
  <2>0. a \in Seq(Segment)
    BY DEF String
  <2>1. CASE Len(a) = 1
    <3>1. a = one
      BY <2>0, <2>1
    <3>2. fs_resolve_path(t, one) = ResolveToken(t, t.current_dir, a[1])
      BY <1>1, <1>2, ResolveHere
    <3> HIDE DEF one
    <3> QED BY <3>1, <3>2
  <2>2. CASE Len(a) = 2 /\ a[2] = EMPTY
    <3>1. ~IsAbsolute(a) /\ Last(a) = EMPTY
      BY <1>1, <2>2 DEF IsAbsolute, Last
    <3>2. Front(a) = one
      <4> DEFINE f == Front(a)
      <4>1. f \in Seq(Segment) /\ Len(f) = 1 /\ f[1] = a[1]
        BY <2>0, <2>2 DEF Front
      <4> HIDE DEF f
      <4>2. f = one
        BY <4>1
      <4> QED BY <4>2 DEF f
    <3>3. Len(one) = 1 /\ one[1] = a[1]
      OBVIOUS
    <3> HIDE DEF one
    <3>4. Tokens(a) = one
      BY <3>1, <3>2 DEF Tokens
    <3>5. fs_resolve_path(t, a) = Walk(t, t.current_dir, one)[Len(one)]
      BY <3>1, <3>4 DEF fs_resolve_path
    <3>6. Walk(t, t.current_dir, one)[Len(one)] = ResolveToken(t, t.current_dir, a[1])
      BY <1>2, WalkOne DEF one
    <3> QED BY <3>5, <3>6
  <2> QED BY <2>1, <2>2
<1> QED BY <1>1, <1>2

(* The path that led nowhere leads to the new node or nowhere still.  Only *)
(* the last of an operand's characters may be cut off from a name.         *)
LEMMA NewFound ==
    ASSUME NEW s, Good(s), NEW a \in Arg, fs_resolve_path(s, a) = NULL,
           Len(Truncate(a)) = Len(a) \/ a = Append(Truncate(a), EMPTY),
           Truncate(a) # <<EMPTY>>, NEW t, NEW c, NEW type,
           \/ Loose(s, t, c, type)
           \/ Grown(s, t, s.current_dir, c, type) /\ t.heap[c].name = Truncate(a)
    PROVE  \/ fs_resolve_path(t, a) = NULL
           \/ fs_resolve_path(t, a) = c /\ Grown(s, t, s.current_dir, c, type)
<1> DEFINE name == Truncate(a)
<1>1. a \in Seq(Segment) /\ a \in String /\ a # << >> /\ name \in Seq(Segment)
  BY ArgString DEF String
<1>2. /\ Extends(s, t) /\ Good(t) /\ t.current_dir = s.current_dir
      /\ s.current_dir \in Attached(s)
  <2> DEFINE dir == s.current_dir
  <2>1. Loose(s, t, c, type) \/ Grown(s, t, dir, c, type)
    OBVIOUS
  <2> HIDE DEF dir
  <2>2. Extends(s, t) /\ t.current_dir = s.current_dir
    BY <2>1, NewExtends
  <2> QED BY <2>2, RootAttached DEF Extends
<1>3. ASSUME NEW n \in Attached(s), NEW token, ResolveToken(s, n, token) = NULL
      PROVE  \/ ResolveToken(t, n, token) = NULL
             \/ ResolveToken(t, n, token) = c /\ Answers(t, c, token)
  <2> DEFINE dir == s.current_dir
  <2>1. Loose(s, t, c, type) \/ Grown(s, t, dir, c, type)
    OBVIOUS
  <2> HIDE DEF dir
  <2> QED BY <1>3, <2>1, TokenNew
<1> HIDE DEF name
<1>4. CASE Len(name) = 1 /\ Grown(s, t, s.current_dir, c, type) /\ t.heap[c].name = name
  <2>1. Len(a) = 1 \/ (Len(a) = 2 /\ a[2] = EMPTY /\ a[1] # EMPTY)
    <3>1. CASE Len(name) = Len(a)
      BY <1>4, <3>1
    <3>2. CASE a = Append(name, EMPTY)
      <4>1. Len(a) = 2 /\ a[2] = EMPTY /\ a[1] = name[1]
        <5>1. EMPTY \in Segment
          BY DEF Segment
        <5>2. /\ Len(Append(name, EMPTY)) = Len(name) + 1
              /\ Append(name, EMPTY)[Len(name) + 1] = EMPTY
              /\ \A i \in 1..Len(name) : Append(name, EMPTY)[i] = name[i]
          BY <1>1, <5>1, AppendProperties
        <5>3. Len(name) = 1 /\ 1 \in 1..Len(name)
          BY <1>4
        <5> QED BY <3>2, <5>2, <5>3
      <4>2. name[1] # EMPTY
        <5>1. name # <<EMPTY>>
          BY DEF name
        <5>2. name = <<name[1]>>
          BY <1>1, <1>4
        <5> QED BY <5>1, <5>2
      <4> QED BY <4>1, <4>2
    <3> QED BY <3>1, <3>2 DEF name
  <2>2. \A u : Good(u) => fs_resolve_path(u, a) = ResolveToken(u, u.current_dir, a[1])
    BY <1>1, <2>1, ResolveSegment
  <2>3. ResolveToken(s, s.current_dir, a[1]) = NULL
    BY <2>2
  <2>4. ResolveToken(t, s.current_dir, a[1]) \in {NULL, c}
    BY <1>2, <1>3, <2>3
  <2> QED BY <1>2, <1>4, <2>2, <2>4
<1>5. CASE Loose(s, t, c, type) \/ (t.heap[c].name = name /\ Len(name) # 1)
  <2>1. ASSUME NEW n \in Attached(s), NEW token
        PROVE  ResolveToken(t, n, token) = ResolveToken(s, n, token)
    <3>1. CASE ResolveToken(s, n, token) # NULL
      BY <1>2, <3>1, TokenExtends
    <3>2. CASE ResolveToken(s, n, token) = NULL
      <4>1. \/ ResolveToken(t, n, token) = NULL
            \/ ResolveToken(t, n, token) = c /\ Answers(t, c, token)
        BY <1>3, <3>2
      <4>2. CASE ResolveToken(t, n, token) = NULL
        BY <3>2, <4>2
      <4>3. CASE ResolveToken(t, n, token) = c /\ Answers(t, c, token)
        <5>1. CASE Loose(s, t, c, type)
          <6>1. n \in Attached(t)
            BY <5>1 DEF Attached, Loose
          <6>2. c \in Attached(t) \cup {NULL}
            BY <1>2, <4>3, <6>1, TokenAttached
          <6> QED BY <5>1, <6>2 DEF Attached, Loose
        <5>2. CASE t.heap[c].name = name /\ Len(name) # 1
          <6>1. Len(<<token>>) = 1
            OBVIOUS
          <6> QED BY <4>3, <5>2, <6>1 DEF Answers
        <5> QED BY <1>5, <5>1, <5>2
      <4> QED BY <4>1, <4>2, <4>3
    <3> QED BY <3>1, <3>2
  <2>2. fs_resolve_path(t, a) = fs_resolve_path(s, a)
    BY <1>1, <1>2, <2>1, ResolveAlike
  <2> QED BY <2>2
<1> QED BY <1>4, <1>5 DEF name

(* Nodes that differ in their entries at most. *)
LEMMA ButChildren ==
    ASSUME NEW m \in fs_node_t, NEW n \in fs_node_t,
           n.name = m.name, n.type = m.type, n.size = m.size,
           n.data = m.data, n.parent = m.parent
    PROVE  [n EXCEPT !.children = << >>] = [m EXCEPT !.children = << >>]
<1>1. ASSUME NEW x \in fs_node_t
      PROVE  [x EXCEPT !.children = << >>] =
               [name |-> x.name, type |-> x.type, size |-> x.size, data |-> x.data,
                parent |-> x.parent, children |-> << >>]
  <2>1. DOMAIN x = {"name", "type", "size", "data", "parent", "children"}
    BY DEF fs_node_t
  <2> QED BY <2>1
<1> QED BY <1>1

(* A file that was written to is the one that its path still leads to. *)
LEMMA WrittenFound ==
    ASSUME NEW s, Good(s), NEW a \in Arg, NEW n, n = fs_resolve_path(s, a), HasData(s, n),
           NEW t, Good(t), NEW text, Written(s, t, n, text)
    PROVE  n \in Nodes(s) /\ fs_resolve_path(t, a) = n /\ HasData(t, n)
<1>1. a \in String /\ a # << >>
  BY ArgString
<1>2. n \in Nodes(s) /\ n # NULL
  BY <1>1, ResolveAttached DEF Attached, HasData
<1>3. Extends(s, t) /\ t.current_dir = s.current_dir
  BY DEF Written, Extends
<1>4. fs_resolve_path(t, a) = n
  BY <1>1, <1>2, <1>3, ResolveExtends
<1>5. t.heap[n].type = REGULAR
  BY <1>2 DEF Written, HasData
<1>6. t.heap[n].data # NODATA
  <2> DEFINE size == Min({Len(text), MAX_FILE_SIZE})
             d == [i \in 1..MAX_FILE_SIZE |-> IF i <= size THEN text[i] ELSE s.heap[n].data[i]]
  <2>1. t.heap[n].data = d
    BY DEF Written
  <2>2. 1 \in DOMAIN d
    BY SizesAssumption
  <2> HIDE DEF d
  <2>3. d # << >>
    BY <2>2
  <2> QED BY <2>1, <2>3 DEF NODATA
<1> QED BY <1>2, <1>4, <1>5, <1>6 DEF HasData

(* The editor's save touches one file, the one that the path leads to      *)
(* afterwards, and what is read from that starts with the text.            *)
LEMMA SaveKeeps ==
    ASSUME NEW s, Sound(s), NEW a \in Arg,
           Len(Truncate(a)) = Len(a) \/ a = Append(Truncate(a), EMPTY),
           Truncate(a) # <<EMPTY>>, NEW text \in Text,
           NEW r, r = editor_save_file(s, a, text), NEW t, t = r.fs,
           NEW x, x = fs_resolve_path(t, a)
    PROVE  /\ Sound(t) /\ (r.ok => text = << >>)
           /\ fs_resolve_path(s, a) \in {NULL, x}
           /\ \A n \in Nodes(s) \ {x} :
                 [t.heap[n] EXCEPT !.children = << >>] = [s.heap[n] EXCEPT !.children = << >>]
           /\ HasData(t, x) => t = s \/ (x \in Nodes(t) /\ IsPrefix(text, fs_read_file(t, x)))
           /\ ~HasData(t, x) => ~HasData(s, fs_resolve_path(s, a))
<1> DEFINE found == fs_resolve_path(s, a)
           c == Len(s.heap) + 1
<1>1. Good(s) /\ Saved(s, t, a, text) /\ (r.ok => text = << >>)
  BY SaveShape DEF Sound
<1>2. Sound(t) /\ Good(t) /\ Ended(t)
  <2>1. Stored(s, t, text) /\ (Filed(s) => Filed(t))
    BY <1>1, StoreShape
  <2>2. Good(t)
    BY <1>1, <2>1, StoredGood
  <2> QED BY <2>1, <2>2 DEF Sound, Filed
<1> SUFFICES /\ found \in {NULL, x}
             /\ \A n \in Nodes(s) \ {x} :
                  [t.heap[n] EXCEPT !.children = << >>] = [s.heap[n] EXCEPT !.children = << >>]
             /\ HasData(t, x) => t = s \/ (x \in Nodes(t) /\ IsPrefix(text, fs_read_file(t, x)))
             /\ ~HasData(t, x) => ~HasData(s, found)
  BY <1>1, <1>2, Zenon
<1> HIDE DEF found, c
<1>3. text \in Seq(Char) /\ Storable(text)
  BY TextString DEF Storable
<1>4. /\ \A n \in Nodes(s) : s.heap[n] \in fs_node_t
      /\ \A n \in Nodes(t) : t.heap[n] \in fs_node_t
  BY <1>1, <1>2, Types DEF Good
<1>5. CASE t = s /\ ~HasData(s, found)
  <2>1. x = found
    BY <1>5 DEF found
  <2> QED BY <1>5, <2>1
<1>6. CASE HasData(s, found) /\ Written(s, t, found, text)
  <2>1. found \in Nodes(s) /\ x = found /\ HasData(t, found)
    BY <1>1, <1>2, <1>6, WrittenFound DEF found
  <2>2. HasText(t, found, text)
    BY <1>3, <1>6, <2>1, WrittenText
  <2>3. found \in Nodes(t)
    BY <1>6, <2>1 DEF Written
  <2>4. IsPrefix(text, fs_read_file(t, found))
    BY <1>2, <1>3, <2>1, <2>2, <2>3, ReadStarts
  <2>5. \A n \in Nodes(s) \ {x} : t.heap[n] = s.heap[n]
    BY <1>6, <2>1 DEF Written
  <2> QED BY <2>1, <2>3, <2>4, <2>5
<1>7. CASE found = NULL /\ Loose(s, t, c, REGULAR)
  <2>1. x = NULL \/ (x = c /\ Grown(s, t, s.current_dir, c, REGULAR))
    <3>1. \/ Loose(s, t, c, REGULAR)
          \/ Grown(s, t, s.current_dir, c, REGULAR) /\ t.heap[c].name = Truncate(a)
      BY <1>7
    <3> QED BY <1>1, <1>7, <3>1, NewFound DEF found
  <2>2. ~Grown(s, t, s.current_dir, c, REGULAR)
    <3>1. SUFFICES ASSUME Grown(s, t, s.current_dir, c, REGULAR)
                   PROVE  FALSE
      OBVIOUS
    <3>2. t.heap[c].parent = NULL
      BY <1>7 DEF Loose
    <3>3. t.heap[c].parent = s.current_dir /\ s.current_dir \in Nodes(s)
      BY <3>1 DEF Grown, Attached
    <3> QED BY <3>2, <3>3 DEF Nodes, NULL
  <2>3. \A n \in Nodes(s) : t.heap[n] = s.heap[n]
    BY <1>7 DEF Loose
  <2> QED BY <1>7, <2>1, <2>2, <2>3 DEF HasData
<1>8. CASE /\ found = NULL /\ Grown(s, t, s.current_dir, c, REGULAR)
           /\ t.heap[c].name = Truncate(a)
           /\ HasData(t, c) => HasText(t, c, text)
  <2>1. x = NULL \/ x = c
    <3>1. \/ Loose(s, t, c, REGULAR)
          \/ Grown(s, t, s.current_dir, c, REGULAR) /\ t.heap[c].name = Truncate(a)
      BY <1>8
    <3> QED BY <1>1, <1>8, <3>1, NewFound DEF found
  <2>2. /\ c \in Nodes(t)
        /\ \A n \in Nodes(s) : /\ n \in Nodes(t)
                               /\ t.heap[n].name = s.heap[n].name /\ t.heap[n].type = s.heap[n].type
                               /\ t.heap[n].size = s.heap[n].size /\ t.heap[n].data = s.heap[n].data
                               /\ t.heap[n].parent = s.heap[n].parent
    BY <1>8 DEF Grown
  <2>3. \A n \in Nodes(s) :
          [t.heap[n] EXCEPT !.children = << >>] = [s.heap[n] EXCEPT !.children = << >>]
    BY <1>4, <2>2, ButChildren
  <2>4. HasData(t, c) => IsPrefix(text, fs_read_file(t, c))
    BY <1>2, <1>3, <1>8, <2>2, ReadStarts
  <2> QED BY <1>8, <2>1, <2>2, <2>3, <2>4 DEF HasData
<1>9. \/ t = s /\ ~HasData(s, found)
      \/ HasData(s, found) /\ Written(s, t, found, text)
      \/ found = NULL /\ Loose(s, t, c, REGULAR)
      \/ /\ found = NULL /\ Grown(s, t, s.current_dir, c, REGULAR)
         /\ t.heap[c].name = Truncate(a)
         /\ HasData(t, c) => HasText(t, c, text)
  BY <1>1 DEF Saved, found, c
<1> QED BY <1>5, <1>6, <1>7, <1>8, <1>9

===============================================================================
