----------------------------- MODULE FileSystemProofs --------------------------
(***************************************************************************)
(* What the functions of filesystem.c keep, one lemma per function, for    *)
(* every size of the pool, of the directories and of the files.            *)
(*                                                                         *)
(* The loops of fs_resolve_path and fs_update_current_path are recursive   *)
(* functions in the model.  That such a function exists, and that its      *)
(* values stay in a set that each turn of the loop keeps to, is shown by a *)
(* least counterexample (module Loops).                                    *)
(***************************************************************************)
EXTENDS FileSystem, Loops, FiniteSetTheorems, SequenceTheorems, TLAPS

(* Min, as fs_find_child and fs_write_file use it, is the least element. *)
LEMMA MinNat ==
    ASSUME NEW T \in SUBSET Nat, T # {}
    PROVE  Min(T) \in T /\ \A k \in T : Min(T) <= k
BY LeastNat DEF Min

(* Of two numbers it is the smaller one. *)
LEMMA MinPair ==
    ASSUME NEW a \in Nat, NEW b \in Nat, a <= b
    PROVE  Min({a, b}) = a
<1> DEFINE S == {a, b}
<1>1. S \in SUBSET Nat /\ S # {} /\ a \in S
  OBVIOUS
<1>2. \A k \in S : k = a \/ k = b
  OBVIOUS
<1> HIDE DEF S
<1>3. Min(S) \in S /\ Min(S) <= a
  BY <1>1, MinNat
<1> QED BY <1>2, <1>3 DEF S

-------------------------------------------------------------------------------
(* The nodes that were entered in a directory, and the root. *)
Attached(s) == {n \in Nodes(s) : s.heap[n].parent # NULL}

(* The inductive invariant: the types and the shape of the tree. *)
Good(s) ==
    /\ WellTyped(s)
    /\ AnchoredDirs(s)
    /\ ParentsOlder(s)
    /\ ChildrenLinked(s)
    /\ NamesUnique(s)

(* The types of a state's parts, as the other proofs use them. *)
LEMMA Types ==
    ASSUME NEW s, WellTyped(s)
    PROVE  /\ Len(s.heap) \in Nat
           /\ s.heap \in Seq(fs_node_t)
           /\ DOMAIN s.heap = Nodes(s)
           /\ NULL \notin Nodes(s)
           /\ \A n \in Nodes(s) :
                /\ n \in Nat
                /\ s.heap[n] \in fs_node_t
                /\ s.heap[n].parent \in Nat
                /\ s.heap[n].name \in String
                /\ Len(s.heap[n].children) \in Nat
                /\ DOMAIN s.heap[n].children = 1..Len(s.heap[n].children)
                /\ \A i \in DOMAIN s.heap[n].children : s.heap[n].children[i] \in Nodes(s)
<1>1. s.heap \in Seq(fs_node_t)
  BY DEF WellTyped, filesystem_t
<1>2. Len(s.heap) \in Nat /\ DOMAIN s.heap = Nodes(s) /\ NULL \notin Nodes(s)
  BY <1>1 DEF Nodes, NULL
<1>3. ASSUME NEW n \in Nodes(s)
      PROVE  n \in Nat /\ s.heap[n] \in fs_node_t /\ s.heap[n].children \in Seq(Nodes(s))
  BY <1>1, <1>2, <1>3 DEF Nodes, WellTyped
<1>4. ASSUME NEW n \in Nodes(s)
      PROVE  s.heap[n].parent \in Nat /\ s.heap[n].name \in String
  BY <1>3 DEF fs_node_t
<1>5. ASSUME NEW n \in Nodes(s)
      PROVE  /\ Len(s.heap[n].children) \in Nat
             /\ DOMAIN s.heap[n].children = 1..Len(s.heap[n].children)
             /\ \A i \in DOMAIN s.heap[n].children : s.heap[n].children[i] \in Nodes(s)
  BY <1>3
<1> QED BY <1>1, <1>2, <1>3, <1>4, <1>5

(* The places of matching entries are numbers, so one is the first. *)
LEMMA MatchesNat ==
    ASSUME NEW s, WellTyped(s), NEW d \in Nodes(s), NEW name
    PROVE  Matches(s, d, name) \in SUBSET Nat
BY Types DEF Matches

(* What a look-up finds is a child of the directory. *)
LEMMA Find ==
    ASSUME NEW s, Good(s), NEW d \in Nodes(s) \cup {NULL}, NEW name
    PROVE  \/ fs_find_child(s, d, name) = NULL
           \/ /\ fs_find_child(s, d, name) \in Attached(s)
              /\ d # NULL /\ s.heap[fs_find_child(s, d, name)].parent = d
<1> SUFFICES ASSUME IsDirectory(s, d), Matches(s, d, name) # {}
    PROVE  LET n == s.heap[d].children[Min(Matches(s, d, name))]
           IN  n \in Nodes(s) /\ d # NULL /\ s.heap[n].parent = d
  BY DEF fs_find_child, Attached
<1> DEFINE m == Min(Matches(s, d, name))
<1>1. d \in Nodes(s) /\ d # NULL
  BY DEF IsDirectory
<1>2. m \in Matches(s, d, name)
  BY <1>1, MatchesNat, MinNat DEF Good
<1>3. m \in DOMAIN s.heap[d].children
  BY <1>2 DEF Matches
<1> HIDE DEF m
<1>4. s.heap[d].children[m] \in Nodes(s)
  BY <1>1, <1>3, Types DEF Good
<1>5. s.heap[s.heap[d].children[m]].parent = d
  BY <1>1, <1>3 DEF Good, ChildrenLinked
<1> QED BY <1>1, <1>4, <1>5 DEF m

(* Going up from an attached node leads to an attached node. *)
LEMMA UpAttached ==
    ASSUME NEW s, Good(s), NEW n \in Attached(s)
    PROVE  s.heap[n].parent \in Attached(s)
<1>1. n \in Nodes(s) /\ s.heap[n].parent \in Nodes(s)
  BY DEF Attached, Good, WellTyped
<1>2. CASE n = ROOT
  BY <1>1, <1>2 DEF Attached, Good, AnchoredDirs, ROOT, NULL
<1>3. CASE n # ROOT
  BY <1>1, <1>3 DEF Attached, Good, ParentsOlder
<1> QED BY <1>2, <1>3

(* One turn of the loop of fs_resolve_path stays among attached nodes. *)
LEMMA TokenAttached ==
    ASSUME NEW s, Good(s), NEW n \in Attached(s) \cup {NULL}, NEW token
    PROVE  ResolveToken(s, n, token) \in Attached(s) \cup {NULL}
<1>1. NULL \notin Attached(s)
  BY Types DEF Attached, Good
<1>2. fs_find_child(s, n, <<token>>) \in Attached(s) \cup {NULL}
  BY Find DEF Attached
<1>3. n # NULL => s.heap[n].parent \in Attached(s)
  BY UpAttached
<1> QED BY <1>1, <1>2, <1>3 DEF ResolveToken

(* Path resolution never leaves the attached nodes, and goes from one      *)
(* token to the next.                                                      *)
LEMMA WalkAttached ==
    ASSUME NEW s, Good(s), NEW start \in Attached(s), NEW tokens, Len(tokens) \in Nat
    PROVE  LET w == Walk(s, start, tokens)
           IN  /\ \A i \in 0..Len(tokens) : w[i] \in Attached(s) \cup {NULL}
               /\ w[0] = start
               /\ \A i \in 1..Len(tokens) : w[i] = ResolveToken(s, w[i - 1], tokens[i])
<1> DEFINE n == Len(tokens)
           S == Attached(s) \cup {NULL}
           Eq(f) == f = [i \in 0..n |-> IF i = 0 THEN start
                                        ELSE ResolveToken(s, f[i - 1], tokens[i])]
           g == [i \in 1..n |-> [m \in S |-> ResolveToken(s, m, tokens[i])]]
<1>1. g \in Steps(n, S)
  BY TokenAttached DEF Steps
<1>2. \E f : Eq(f)
  <2>1. PICK f : Path(n, S, start, g, f)
    <3> HIDE DEF g, S, n
    <3>1. n \in Nat /\ start \in S
      BY DEF S, n
    <3> QED BY <3>1, <1>1, StepByStep
  <2>2. ASSUME NEW i \in 1..n
        PROVE  f[i] = ResolveToken(s, f[i - 1], tokens[i])
    <3>1. f[i - 1] \in S
      BY <2>1, <2>2 DEF Path
    <3> QED BY <2>1, <3>1 DEF Path
  <2>3. Eq(f)
    <3> HIDE DEF g
    <3> QED BY <2>1, <2>2 DEF Path
  <2> QED BY <2>3
<1>3. Walk(s, start, tokens) = CHOOSE f : Eq(f)
  BY DEF Walk
<1> DEFINE w == Walk(s, start, tokens)
<1>4. Eq(w)
  <2> HIDE DEF Eq
  <2> QED BY <1>2, <1>3
<1> DEFINE P == {i \in 0..n : w[i] \in S}
<1> HIDE DEF w
<1>5. 0 \in P
  BY <1>4
<1>6. ASSUME NEW i \in Nat, i < n, i \in P PROVE i + 1 \in P
  <2>1. w[i + 1] = ResolveToken(s, w[i], tokens[i + 1])
    BY <1>4, <1>6
  <2>2. w[i] \in S
    BY <1>6
  <2>3. w[i + 1] \in S
    BY <2>1, <2>2, TokenAttached
  <2> QED BY <2>3, <1>6
<1>7. \A i \in 0..n : i \in P
  <2> HIDE DEF P
  <2> QED BY <1>5, <1>6, UpTo
<1>8. w[0] = start /\ \A i \in 1..n : w[i] = ResolveToken(s, w[i - 1], tokens[i])
  BY <1>4
<1> QED BY <1>7, <1>8 DEF w

(* A set of nodes that leads nowhere but into itself, up or down. *)
Closed(s, P) ==
    /\ P \subseteq Attached(s)
    /\ \A m \in P : s.heap[m].parent \in P
    /\ \A m \in P : \A i \in DOMAIN s.heap[m].children : s.heap[m].children[i] \in P

(* A set of nodes that no token leads out of. *)
Walkable(s, P) ==
    /\ P \subseteq Attached(s)
    /\ \A m \in P : \A token : ResolveToken(s, m, token) \in P \cup {NULL}

(* What an entry's name finds is an entry. *)
LEMMA FindEntry ==
    ASSUME NEW s, Good(s), NEW m \in Nodes(s), NEW name, fs_find_child(s, m, name) # NULL
    PROVE  \E i \in DOMAIN s.heap[m].children :
             /\ fs_find_child(s, m, name) = s.heap[m].children[i]
             /\ s.heap[s.heap[m].children[i]].name = name
<1> DEFINE M == Matches(s, m, name)
<1>1. M # {} => Min(M) \in M
  <2>1. M \in SUBSET Nat
    BY MatchesNat DEF Good
  <2> HIDE DEF M
  <2> QED BY <2>1, MinNat
<1>2. M # {} /\ fs_find_child(s, m, name) = s.heap[m].children[Min(M)]
  BY DEF fs_find_child
<1> DEFINE i == Min(M)
<1>3. i \in DOMAIN s.heap[m].children /\ s.heap[s.heap[m].children[i]].name = name
  <2>1. i \in M
    BY <1>1, <1>2
  <2> HIDE DEF i
  <2> QED BY <2>1 DEF Matches
<1> HIDE DEF i
<1> QED BY <1>2, <1>3 DEF i

(* No token leads out of a closed set. *)
LEMMA ClosedWalkable ==
    ASSUME NEW s, Good(s), NEW P, Closed(s, P)
    PROVE  Walkable(s, P)
<1>1. ASSUME NEW m \in P, NEW token PROVE ResolveToken(s, m, token) \in P \cup {NULL}
  <2>1. m \in Nodes(s) /\ s.heap[m].parent \in P
    BY DEF Closed, Attached
  <2>2. fs_find_child(s, m, <<token>>) \in P \cup {NULL}
    BY <2>1, FindEntry DEF Closed
  <2> QED BY <2>1, <2>2 DEF ResolveToken
<1> QED BY <1>1 DEF Walkable, Closed

(* A walk that starts in such a set does not leave it. *)
LEMMA WalkStays ==
    ASSUME NEW s, Good(s), NEW P, Walkable(s, P), NEW start \in P,
           NEW tokens, Len(tokens) \in Nat
    PROVE  Walk(s, start, tokens)[Len(tokens)] \in P \cup {NULL}
<1> DEFINE w == Walk(s, start, tokens)
           n == Len(tokens)
           Q == {i \in 0..n : w[i] \in P \cup {NULL}}
<1>1. w[0] = start /\ \A i \in 1..n : w[i] = ResolveToken(s, w[i - 1], tokens[i])
  BY WalkAttached DEF Walkable
<1>2. ASSUME NEW m \in P \cup {NULL}, NEW token
      PROVE  ResolveToken(s, m, token) \in P \cup {NULL}
  <2>1. CASE m = NULL
    BY <2>1 DEF ResolveToken
  <2>2. CASE m # NULL
    BY <2>2 DEF Walkable
  <2> QED BY <2>1, <2>2
<1> HIDE DEF w
<1>3. 0 \in Q
  BY <1>1
<1>4. ASSUME NEW i \in Nat, i < n, i \in Q PROVE i + 1 \in Q
  <2>1. w[i + 1] = ResolveToken(s, w[i], tokens[i + 1])
    BY <1>1, <1>4
  <2> QED BY <1>2, <1>4, <2>1
<1>5. \A i \in 0..n : i \in Q
  <2> HIDE DEF Q
  <2> QED BY <1>3, <1>4, UpTo
<1>6. n \in Q
  BY <1>5
<1> QED BY <1>6 DEF w

(* Nor does the walk up of fs_update_current_path. *)
LEMMA AncestorsAttached ==
    ASSUME NEW s, Good(s)
    PROVE  /\ \A i \in 0..MAX_DEPTH : Ancestors(s)[i] \in Attached(s)
           /\ Ancestors(s)[0] = s.current_dir
           /\ \A i \in 1..MAX_DEPTH :
                Ancestors(s)[i] = IF Ancestors(s)[i - 1] = ROOT THEN ROOT
                                  ELSE s.heap[Ancestors(s)[i - 1]].parent
<1> DEFINE n == MAX_DEPTH
           S == Attached(s)
           Up(m) == IF m = ROOT THEN ROOT ELSE s.heap[m].parent
           Eq(f) == f = [i \in 0..n |-> IF i = 0 THEN s.current_dir ELSE Up(f[i - 1])]
           g == [i \in 1..n |-> [m \in S |-> Up(m)]]
<1>1. n \in Nat
  BY SizesAssumption
<1>2. s.current_dir \in S
  BY DEF Attached, Good, WellTyped, AnchoredDirs
<1>3. ASSUME NEW m \in S PROVE Up(m) \in S
  BY <1>3, UpAttached
<1> HIDE DEF Up
<1>4. g \in Steps(n, S)
  BY <1>3 DEF Steps
<1>5. \E f : Eq(f)
  <2>1. PICK f : Path(n, S, s.current_dir, g, f)
    <3> HIDE DEF g, n, S
    <3> QED BY <1>1, <1>2, <1>4, StepByStep
  <2>2. ASSUME NEW i \in 1..n PROVE f[i] = Up(f[i - 1])
    <3>1. f[i - 1] \in S
      BY <1>1, <2>1, <2>2 DEF Path
    <3> QED BY <2>1, <3>1 DEF Path
  <2>3. Eq(f)
    <3> HIDE DEF g
    <3> QED BY <2>1, <2>2 DEF Path
  <2> QED BY <2>3
<1>6. Ancestors(s) = CHOOSE f : Eq(f)
  BY DEF Ancestors, Up
<1> DEFINE w == Ancestors(s)
<1>7. Eq(w)
  <2> HIDE DEF Eq
  <2> QED BY <1>5, <1>6
<1> DEFINE P == {i \in 0..n : w[i] \in S}
<1> HIDE DEF w
<1>8. 0 \in P
  BY <1>1, <1>2, <1>7
<1>9. ASSUME NEW i \in Nat, i < n, i \in P PROVE i + 1 \in P
  <2>1. w[i + 1] = Up(w[i])
    BY <1>1, <1>7, <1>9
  <2>2. w[i] \in S
    BY <1>9
  <2> QED BY <1>1, <2>1, <2>2, <1>3, <1>9
<1>10. \A i \in 0..n : i \in P
  <2> HIDE DEF P
  <2> QED BY <1>1, <1>8, <1>9, UpTo
<1>11. w[0] = s.current_dir
  BY <1>1, <1>7
<1>12. \A i \in 1..n : w[i] = IF w[i - 1] = ROOT THEN ROOT ELSE s.heap[w[i - 1]].parent
  BY <1>1, <1>7 DEF Up
<1> QED BY <1>10, <1>11, <1>12 DEF w

(* The tokens of a path are finitely many. *)
LEMMA TokensLen ==
    ASSUME NEW path \in String, path # << >>
    PROVE  Len(Tokens(path)) \in Nat
<1> DEFINE rest == IF IsAbsolute(path) THEN Tail(path) ELSE path
<1>1. rest \in Seq(Segment) /\ Len(rest) \in Nat /\ Len(rest) > 0
  <2>1. path \in Seq(Segment) /\ Len(path) \in Nat /\ Len(path) > 0
    BY DEF String
  <2>2. CASE IsAbsolute(path)
    <3>1. Len(path) > 1 /\ path # << >>
      BY <2>2 DEF IsAbsolute
    <3>2. Tail(path) \in Seq(Segment) /\ Len(Tail(path)) = Len(path) - 1
      BY <2>1, <3>1
    <3> QED BY <2>1, <2>2, <3>1, <3>2
  <2>3. CASE ~IsAbsolute(path)
    BY <2>1, <2>3
  <2> QED BY <2>2, <2>3
<1>2. Front(rest) \in Seq(Segment)
  <2> HIDE DEF rest
  <2> QED BY <1>1 DEF Front
<1> HIDE DEF rest
<1>3. Tokens(path) \in Seq(Segment)
  BY <1>1, <1>2 DEF Tokens, rest
<1> QED BY <1>3

(* Both places a resolution can start from are attached. *)
LEMMA RootAttached ==
    ASSUME NEW s, Good(s)
    PROVE  ROOT \in Attached(s) /\ s.current_dir \in Attached(s)
BY DEF Attached, Good, WellTyped, AnchoredDirs, ROOT, NULL

(* fs_resolve_path returns an attached node or a null pointer. *)
LEMMA ResolveAttached ==
    ASSUME NEW s, Good(s), NEW path \in String, path # << >>
    PROVE  fs_resolve_path(s, path) \in Attached(s) \cup {NULL}
<1> DEFINE start == IF IsAbsolute(path) THEN ROOT ELSE s.current_dir
           n == Len(Tokens(path))
<1>1. start \in Attached(s)
  BY RootAttached
<1>2. n \in Nat
  BY TokensLen
<1>3. fs_resolve_path(s, path) = Walk(s, start, Tokens(path))[n]
  BY DEF fs_resolve_path
<1> HIDE DEF start
<1>4. \A i \in 0..n : Walk(s, start, Tokens(path))[i] \in Attached(s) \cup {NULL}
  BY <1>1, <1>2, WalkAttached
<1> QED BY <1>2, <1>3, <1>4

(* fs_resolve_path does not leave such a set if both starts are in it. *)
LEMMA ResolveStays ==
    ASSUME NEW s, Good(s), NEW P, Walkable(s, P), ROOT \in P, s.current_dir \in P,
           NEW path \in String, path # << >>
    PROVE  fs_resolve_path(s, path) \in P \cup {NULL}
<1> DEFINE start == IF IsAbsolute(path) THEN ROOT ELSE s.current_dir
<1>1. start \in P /\ Len(Tokens(path)) \in Nat
  BY TokensLen
<1>2. fs_resolve_path(s, path) = Walk(s, start, Tokens(path))[Len(Tokens(path))]
  BY DEF fs_resolve_path
<1> HIDE DEF start
<1> QED BY <1>1, <1>2, WalkStays

(* Nor a closed set. *)
LEMMA ResolveClosed ==
    ASSUME NEW s, Good(s), NEW P, Closed(s, P), ROOT \in P, s.current_dir \in P,
           NEW path \in String, path # << >>
    PROVE  fs_resolve_path(s, path) \in P \cup {NULL}
BY ClosedWalkable, ResolveStays

(* An entry is found under its name: no other has it. *)
LEMMA FindUnique ==
    ASSUME NEW s, Good(s), NEW d \in Nodes(s), NEW i \in DOMAIN s.heap[d].children
    PROVE  fs_find_child(s, d, s.heap[s.heap[d].children[i]].name) = s.heap[d].children[i]
<1> DEFINE name == s.heap[s.heap[d].children[i]].name
           M == Matches(s, d, name)
<1>1. i \in M
  BY DEF Matches
<1>2. Min(M) \in M
  <2>1. M \in SUBSET Nat
    BY MatchesNat DEF Good
  <2> HIDE DEF M
  <2> QED BY <1>1, <2>1, MinNat
<1>3. Min(M) = i
  <2> DEFINE j == Min(M)
  <2>1. j \in DOMAIN s.heap[d].children /\ s.heap[s.heap[d].children[j]].name = name
    BY <1>2 DEF Matches
  <2> HIDE DEF j
  <2>2. j = i
    BY <2>1 DEF Good, NamesUnique
  <2> QED BY <2>2 DEF j
<1>4. IsDirectory(s, d)
  BY Types DEF Good, ChildrenLinked, IsDirectory
<1> QED BY <1>1, <1>3, <1>4 DEF fs_find_child

(* What was there is still there: t has the nodes of s, with the names,    *)
(* types and parents they had, and the entries at their places.            *)
Extends(s, t) ==
    /\ Good(t)
    /\ \A m \in Nodes(s) :
         /\ m \in Nodes(t)
         /\ t.heap[m].name = s.heap[m].name
         /\ t.heap[m].type = s.heap[m].type
         /\ t.heap[m].parent = s.heap[m].parent
         /\ \A i \in DOMAIN s.heap[m].children :
              /\ i \in DOMAIN t.heap[m].children
              /\ t.heap[m].children[i] = s.heap[m].children[i]

(* A token that led somewhere leads there still. *)
LEMMA TokenExtends ==
    ASSUME NEW s, Good(s), NEW t, Extends(s, t), NEW n \in Attached(s), NEW token,
           ResolveToken(s, n, token) # NULL
    PROVE  ResolveToken(t, n, token) = ResolveToken(s, n, token)
<1>1. n \in Nodes(s) /\ n # NULL /\ t.heap[n].parent = s.heap[n].parent
  BY Types DEF Good, Attached, Extends
<1>2. CASE token = "." \/ token = ".."
  BY <1>1, <1>2 DEF ResolveToken
<1>3. CASE ~(token = "." \/ token = "..")
  <2> DEFINE name == <<token>>
             M == Matches(s, n, name)
             i == Min(M)
             c == s.heap[n].children[i]
  <2>1. /\ ResolveToken(s, n, token) = fs_find_child(s, n, name)
        /\ ResolveToken(t, n, token) = fs_find_child(t, n, name)
    BY <1>1, <1>3 DEF ResolveToken
  <2>2. M # {} /\ fs_find_child(s, n, name) = c
    BY <2>1 DEF fs_find_child
  <2>3. i \in M
    BY <1>1, <2>2, MatchesNat, MinNat DEF Good
  <2>4. i \in DOMAIN s.heap[n].children /\ s.heap[c].name = name
    BY <2>3 DEF Matches
  <2> HIDE DEF i, M, name
  <2>5. c \in Nodes(s)
    BY <1>1, <2>4, Types DEF Good
  <2>6. /\ n \in Nodes(t) /\ i \in DOMAIN t.heap[n].children
        /\ t.heap[n].children[i] = c /\ t.heap[c].name = name
    BY <1>1, <2>4, <2>5 DEF Extends
  <2> HIDE DEF c
  <2>7. fs_find_child(t, n, name) = c
    BY <2>6, FindUnique DEF Extends
  <2> QED BY <2>1, <2>2, <2>7 DEF c
<1> QED BY <1>2, <1>3

(* A path that led somewhere leads there still. *)
LEMMA ResolveExtends ==
    ASSUME NEW s, Good(s), NEW t, Extends(s, t), t.current_dir = s.current_dir,
           NEW path \in String, path # << >>, fs_resolve_path(s, path) # NULL
    PROVE  fs_resolve_path(t, path) = fs_resolve_path(s, path)
<1> DEFINE start == IF IsAbsolute(path) THEN ROOT ELSE s.current_dir
           tokens == Tokens(path)
           n == Len(tokens)
           v == Walk(s, start, tokens)
           w == Walk(t, start, tokens)
           Q == {i \in 0..n : v[i] # NULL => w[i] = v[i]}
<1>1. n \in Nat
  BY TokensLen
<1>2. start \in Attached(s) /\ start \in Attached(t)
  BY RootAttached DEF Extends
<1>3. fs_resolve_path(s, path) = v[n] /\ fs_resolve_path(t, path) = w[n]
  BY DEF fs_resolve_path
<1> HIDE DEF start, tokens
<1>4. /\ \A i \in 0..n : v[i] \in Attached(s) \cup {NULL}
      /\ v[0] = start
      /\ \A i \in 1..n : v[i] = ResolveToken(s, v[i - 1], tokens[i])
  BY <1>1, <1>2, WalkAttached
<1>5. /\ w[0] = start
      /\ \A i \in 1..n : w[i] = ResolveToken(t, w[i - 1], tokens[i])
  BY <1>1, <1>2, WalkAttached DEF Extends
<1> HIDE DEF n, v, w
<1>6. 0 \in Q
  BY <1>1, <1>4, <1>5
<1>7. ASSUME NEW i \in Nat, i < n, i \in Q PROVE i + 1 \in Q
  <2>1. SUFFICES ASSUME v[i + 1] # NULL PROVE w[i + 1] = v[i + 1]
    BY <1>1, <1>7
  <2>2. /\ v[i + 1] = ResolveToken(s, v[i], tokens[i + 1])
        /\ w[i + 1] = ResolveToken(t, w[i], tokens[i + 1])
    BY <1>1, <1>4, <1>5, <1>7
  <2>3. v[i] # NULL
    BY <2>1, <2>2 DEF ResolveToken
  <2>4. v[i] \in Attached(s) /\ w[i] = v[i]
    BY <1>1, <1>4, <1>7, <2>3
  <2> QED BY <2>1, <2>2, <2>4, TokenExtends
<1>8. \A i \in 0..n : i \in Q
  <2> HIDE DEF Q
  <2> QED BY <1>1, <1>6, <1>7, UpTo
<1>9. n \in Q
  BY <1>1, <1>8
<1> QED BY <1>3, <1>9

-------------------------------------------------------------------------------
(* What the functions leave behind. *)

(* A state that differs from a good one only in its counters and its path. *)
LEMMA SameTree ==
    ASSUME NEW s, Good(s), NEW t \in filesystem_t,
           t.heap = s.heap, t.current_dir = s.current_dir,
           t.total_files < SIZE_RANGE, t.memory_offset < POOL_SIZE
    PROVE  Good(t)
<1>1. Nodes(t) = Nodes(s)
  BY DEF Nodes
<1>2. WellTyped(t)
  BY <1>1 DEF Good, WellTyped
<1>3. AnchoredDirs(t) /\ ParentsOlder(t) /\ ChildrenLinked(t) /\ NamesUnique(t)
  BY <1>1 DEF Good, AnchoredDirs, ParentsOlder, ChildrenLinked, NamesUnique
<1> QED BY <1>2, <1>3 DEF Good

(* The fields of a good state. *)
LEMMA Fields ==
    ASSUME NEW s, Good(s)
    PROVE  /\ s \in filesystem_t
           /\ s = [heap |-> s.heap, total_files |-> s.total_files,
                   memory_offset |-> s.memory_offset,
                   current_dir |-> s.current_dir, current_path |-> s.current_path]
           /\ s.total_files \in Nat /\ s.total_files < SIZE_RANGE
           /\ s.memory_offset \in Nat /\ s.memory_offset < POOL_SIZE
           /\ s.current_dir \in Nodes(s)
           /\ s.current_path \in Seq(String)
BY DEF Good, WellTyped, filesystem_t

(* A walk up to the root gathers names: the new path is a list of strings. *)
LEMMA UpdatePathGood ==
    ASSUME NEW s, Good(s)
    PROVE  Good(fs_update_current_path(s))
<1> DEFINE node == Ancestors(s)
           T == {i \in 0..MAX_DEPTH : node[i] = ROOT} \cup {MAX_DEPTH}
           depth == Min(T)
           path == [k \in 1..depth |-> s.heap[node[depth - k]].name]
<1>1. MAX_DEPTH \in Nat
  BY SizesAssumption
<1>2. depth \in T
  <2>1. T \in SUBSET Nat /\ T # {}
    BY <1>1
  <2> HIDE DEF T
  <2> QED BY <2>1, MinNat
<1>3. depth \in 0..MAX_DEPTH
  BY <1>1, <1>2
<1> HIDE DEF depth
<1>4. ASSUME NEW k \in 1..depth PROVE s.heap[node[depth - k]].name \in String
  <2>1. depth - k \in 0..MAX_DEPTH
    BY <1>1, <1>3
  <2> HIDE DEF node
  <2>2. node[depth - k] \in Nodes(s)
    BY <2>1, AncestorsAttached DEF node, Attached
  <2> QED BY <2>2, Types DEF Good
<1>5. path \in Seq(String)
  <2>1. depth \in Nat
    BY <1>1, <1>3
  <2> HIDE DEF node
  <2> QED BY <1>4, <2>1
<1>6. fs_update_current_path(s) = [s EXCEPT !.current_path = path]
  BY DEF fs_update_current_path, depth
<1> HIDE DEF path
<1>7. [s EXCEPT !.current_path = path] \in filesystem_t
  BY <1>5, Fields DEF filesystem_t
<1> DEFINE t == [s EXCEPT !.current_path = path]
<1>8. /\ t.heap = s.heap /\ t.current_dir = s.current_dir
      /\ t.total_files < SIZE_RANGE /\ t.memory_offset < POOL_SIZE
  <2>1. /\ t.heap = s.heap /\ t.current_dir = s.current_dir
        /\ t.total_files = s.total_files /\ t.memory_offset = s.memory_offset
    BY Fields
  <2> HIDE DEF t
  <2> QED BY <2>1, Fields
<1>9. Good(t)
  <2> HIDE DEF t
  <2> QED BY <1>7, <1>8, SameTree DEF t
<1> QED BY <1>6, <1>9

(* The current directory may be any directory that has a parent. *)
LEMMA EnterGood ==
    ASSUME NEW s, Good(s), NEW n \in Attached(s), IsDirectory(s, n)
    PROVE  LET t == [s EXCEPT !.current_dir = n]
           IN  Good(t) /\ t.heap = s.heap /\ t.current_dir = n
<1> DEFINE t == [s EXCEPT !.current_dir = n]
<1>1. n \in Nodes(s) /\ s.heap[n].parent # NULL /\ s.heap[n].type = DIRECTORY
  BY DEF Attached, IsDirectory
<1>2. t \in filesystem_t /\ t.heap = s.heap /\ t.current_dir = n
      /\ t.total_files < SIZE_RANGE /\ t.memory_offset < POOL_SIZE
  <2>1. n \in Nat
    BY <1>1, Types DEF Good
  <2> QED BY <2>1, Fields DEF filesystem_t
<1> HIDE DEF t
<1>3. Nodes(t) = Nodes(s)
  BY <1>2 DEF Nodes
<1>4. WellTyped(t)
  BY <1>1, <1>2, <1>3 DEF Good, WellTyped
<1>5. AnchoredDirs(t)
  BY <1>1, <1>2, <1>3 DEF Good, AnchoredDirs
<1>6. ParentsOlder(t) /\ ChildrenLinked(t) /\ NamesUnique(t)
  BY <1>2, <1>3 DEF Good, ParentsOlder, ChildrenLinked, NamesUnique
<1>7. Good(t)
  BY <1>4, <1>5, <1>6 DEF Good
<1> QED BY <1>2, <1>7 DEF t

(* fs_change_directory only enters such directories. *)
LEMMA ChangeDirectoryGood ==
    ASSUME NEW s, Good(s), NEW path \in String, path # << >>
    PROVE  LET r == fs_change_directory(s, path)
               n == fs_resolve_path(s, path)
           IN  /\ Good(r.fs)
               /\ \/ r.fs = s
                  \/ /\ n \in Attached(s) /\ IsDirectory(s, n)
                     /\ r.fs = fs_update_current_path([s EXCEPT !.current_dir = n])
<1> DEFINE n == fs_resolve_path(s, path)
           t == [s EXCEPT !.current_dir = n]
<1>1. n \in Attached(s) \cup {NULL}
  BY ResolveAttached
<1> HIDE DEF n
<1>2. ASSUME n # NULL, IsDirectory(s, n) PROVE Good(t)
  BY <1>1, <1>2, EnterGood
<1>3. CASE n = NULL
  BY <1>3 DEF fs_change_directory, Result, n
<1>4. CASE n # NULL /\ ~IsDirectory(s, n)
  BY <1>4 DEF fs_change_directory, Result, n
<1>5. CASE n # NULL /\ IsDirectory(s, n)
  <2>1. fs_change_directory(s, path).fs = fs_update_current_path(t)
    BY <1>5 DEF fs_change_directory, Result, n
  <2>2. Good(fs_update_current_path(t))
    BY <1>2, <1>5, UpdatePathGood
  <2> HIDE DEF t
  <2> QED BY <1>1, <1>5, <2>1, <2>2 DEF n, t
<1> QED BY <1>3, <1>4, <1>5

(* kmalloc never moves memory_offset past the pool. *)
LEMMA KmallocTyped ==
    ASSUME NEW s \in filesystem_t, s.memory_offset < POOL_SIZE, NEW size \in Nat
    PROVE  /\ kmalloc(s, size).fs \in filesystem_t
           /\ kmalloc(s, size).fs.memory_offset < POOL_SIZE
           /\ kmalloc(s, size).fs.heap = s.heap
           /\ kmalloc(s, size).fs.total_files = s.total_files
           /\ kmalloc(s, size).fs.current_dir = s.current_dir
           /\ kmalloc(s, size).ret \in BOOLEAN
           /\ kmalloc(s, size).fs.memory_offset =
                s.memory_offset + (IF kmalloc(s, size).ret THEN size ELSE 0)
<1> DEFINE t == [s EXCEPT !.memory_offset = @ + size]
<1>1. CASE s.memory_offset + size >= POOL_SIZE
  <2>1. kmalloc(s, size) = [fs |-> s, ret |-> FALSE]
    BY <1>1 DEF kmalloc, Result
  <2>2. s.memory_offset = s.memory_offset + 0
    BY DEF filesystem_t
  <2> QED BY <2>1, <2>2
<1>2. CASE ~(s.memory_offset + size >= POOL_SIZE)
  <2>1. POOL_SIZE \in Nat /\ s.memory_offset \in Nat
    BY SizesAssumption DEF filesystem_t
  <2>2. s.memory_offset + size \in Nat /\ s.memory_offset + size < POOL_SIZE
    BY <1>2, <2>1
  <2>3. t \in filesystem_t /\ t.memory_offset = s.memory_offset + size
        /\ t.heap = s.heap /\ t.total_files = s.total_files
        /\ t.current_dir = s.current_dir
    BY <2>2 DEF filesystem_t
  <2>4. kmalloc(s, size) = [fs |-> t, ret |-> TRUE]
    BY <1>2 DEF kmalloc, Result
  <2> HIDE DEF t
  <2> QED BY <2>2, <2>3, <2>4
<1> QED BY <1>1, <1>2

(* What kmalloc took for a new node: the node, and a cleared buffer. *)
Paid(new, bytes) ==
    \/ new.data = NODATA /\ bytes = NODE_SIZE
    \/ /\ new.data = [i \in 1..MAX_FILE_SIZE |-> NUL] /\ new.type = REGULAR
       /\ bytes = NODE_SIZE + MAX_FILE_SIZE

(* A fresh node: no parent, no children, in no directory. *)
Fresh(s, t, n, name, type) ==
    /\ n = Len(s.heap) + 1
    /\ n \in Nodes(t) /\ n # ROOT /\ n # NULL
    /\ Len(t.heap) = n
    /\ t.heap[n].parent = NULL
    /\ t.heap[n].children = << >>
    /\ t.heap[n].type = type
    /\ t.heap[n].name = Truncate(name)
    /\ \A m \in Nodes(s) : m \in Nodes(t) /\ t.heap[m] = s.heap[m]
    /\ t.current_dir = s.current_dir
    /\ t.total_files = s.total_files + 1
    /\ t.heap[n].size = 0
    /\ Paid(t.heap[n], t.memory_offset - s.memory_offset)

(* The buffer fs_create_file clears is a buffer. *)
LEMMA BlankBuffer == [i \in 1..MAX_FILE_SIZE |-> NUL] \in Buffer
BY DEF Buffer

(* What fs_create_file returns and leaves behind. *)
LEMMA CreateTyped ==
    ASSUME NEW s \in filesystem_t, s.memory_offset < POOL_SIZE,
           NEW name, Truncate(name) \in String, NEW type \in {REGULAR, DIRECTORY}
    PROVE  LET r == fs_create_file(s, name, type)
           IN  \/ r = Result(s, NULL)
               \/ /\ r.ret = Len(s.heap) + 1
                  /\ r.fs \in filesystem_t
                  /\ r.fs.memory_offset < POOL_SIZE
                  /\ r.fs.current_dir = s.current_dir
                  /\ s.total_files < MAX_TOTAL_FILES
                  /\ r.fs.total_files = s.total_files + 1
                  /\ \E new \in fs_node_t :
                       /\ r.fs.heap = Append(s.heap, new)
                       /\ new.parent = NULL /\ new.children = << >>
                       /\ new.type = type /\ new.size = 0
                       /\ new.name = Truncate(name)
                       /\ Paid(new, r.fs.memory_offset - s.memory_offset)
<1> DEFINE r == fs_create_file(s, name, type)
           node == kmalloc(s, NODE_SIZE)
           buf == IF type = REGULAR THEN kmalloc(node.fs, MAX_FILE_SIZE)
                                    ELSE Result(node.fs, FALSE)
           data == IF buf.ret THEN [i \in 1..MAX_FILE_SIZE |-> NUL] ELSE NODATA
           new == [name |-> Truncate(name), type |-> type, size |-> 0,
                   data |-> data, parent |-> NULL, children |-> << >>]
<1>1. NODE_SIZE \in Nat /\ MAX_FILE_SIZE \in Nat
      /\ MAX_TOTAL_FILES \in Nat /\ s.total_files \in Nat
  BY SizesAssumption DEF filesystem_t
<1>2. /\ node.fs \in filesystem_t
      /\ node.fs.memory_offset < POOL_SIZE
      /\ node.fs.heap = s.heap
      /\ node.fs.total_files = s.total_files
      /\ node.fs.current_dir = s.current_dir
      /\ s.memory_offset \in Nat
      /\ node.ret => node.fs.memory_offset = s.memory_offset + NODE_SIZE
  BY <1>1, KmallocTyped DEF filesystem_t
<1> HIDE DEF node
<1>3. /\ buf.fs \in filesystem_t
      /\ buf.fs.memory_offset < POOL_SIZE
      /\ buf.fs.heap = s.heap
      /\ buf.fs.total_files = s.total_files
      /\ buf.fs.current_dir = s.current_dir
      /\ buf.ret \in BOOLEAN
      /\ buf.ret => type = REGULAR
      /\ node.ret => buf.fs.memory_offset =
                        s.memory_offset + NODE_SIZE + (IF buf.ret THEN MAX_FILE_SIZE ELSE 0)
  <2>1. CASE type = REGULAR
    <3>1. buf = kmalloc(node.fs, MAX_FILE_SIZE)
      BY <2>1
    <3> HIDE DEF buf
    <3>2. /\ buf.fs \in filesystem_t /\ buf.fs.memory_offset < POOL_SIZE
          /\ buf.fs.heap = s.heap /\ buf.fs.total_files = s.total_files
          /\ buf.fs.current_dir = s.current_dir /\ buf.ret \in BOOLEAN
          /\ buf.fs.memory_offset =
               node.fs.memory_offset + (IF buf.ret THEN MAX_FILE_SIZE ELSE 0)
      BY <1>1, <1>2, <3>1, KmallocTyped
    <3> QED BY <1>2, <2>1, <3>2
  <2>2. CASE type # REGULAR
    <3>1. buf.fs = node.fs /\ buf.ret = FALSE
      BY <2>2 DEF Result
    <3> HIDE DEF buf
    <3>2. node.ret => node.fs.memory_offset = s.memory_offset + NODE_SIZE + 0
      BY <1>1, <1>2
    <3> QED BY <1>2, <3>1, <3>2
  <2> QED BY <2>1, <2>2
<1>4. r = IF s.total_files >= MAX_TOTAL_FILES \/ ~node.ret
          THEN Result(s, NULL)
          ELSE Result([buf.fs EXCEPT !.heap = Append(@, new),
                                     !.total_files = @ + 1],
                      Len(s.heap) + 1)
  BY DEF fs_create_file, node
<1> HIDE DEF buf, r
<1>5. new \in fs_node_t
  <2>1. data \in Buffer \cup {NODATA}
    BY BlankBuffer
  <2> HIDE DEF data
  <2> QED BY <2>1 DEF fs_node_t, NULL
<1>6. new.parent = NULL /\ new.children = << >> /\ new.type = type
      /\ new.size = 0 /\ new.name = Truncate(name) /\ new.data = data
  OBVIOUS
<1>9. node.ret => Paid(new, buf.fs.memory_offset - s.memory_offset)
  <2> SUFFICES ASSUME node.ret PROVE Paid(new, buf.fs.memory_offset - s.memory_offset)
    OBVIOUS
  <2> DEFINE bytes == buf.fs.memory_offset - s.memory_offset
  <2>1. bytes = NODE_SIZE + (IF buf.ret THEN MAX_FILE_SIZE ELSE 0)
    BY <1>1, <1>2, <1>3
  <2> HIDE DEF bytes
  <2>2. CASE buf.ret
    <3>1. bytes = NODE_SIZE + MAX_FILE_SIZE /\ type = REGULAR
      BY <1>1, <1>3, <2>1, <2>2
    <3>2. data = [i \in 1..MAX_FILE_SIZE |-> NUL]
      BY <2>2
    <3> QED BY <1>6, <3>1, <3>2 DEF Paid, bytes
  <2>3. CASE ~buf.ret
    <3>1. bytes = NODE_SIZE
      BY <1>1, <2>1, <2>3
    <3>2. data = NODATA
      BY <2>3
    <3> QED BY <1>6, <3>1, <3>2 DEF Paid, bytes
  <2> QED BY <2>2, <2>3
<1> HIDE DEF new
<1>7. CASE s.total_files >= MAX_TOTAL_FILES \/ ~node.ret
  BY <1>4, <1>7 DEF r
<1>8. CASE ~(s.total_files >= MAX_TOTAL_FILES \/ ~node.ret)
  <2> DEFINE t == [buf.fs EXCEPT !.heap = Append(@, new), !.total_files = @ + 1]
  <2>1. s.heap \in Seq(fs_node_t)
    BY DEF filesystem_t
  <2>2. Append(s.heap, new) \in Seq(fs_node_t)
    BY <1>5, <2>1
  <2>3. /\ t \in filesystem_t
        /\ t.heap = Append(s.heap, new)
        /\ t.total_files = s.total_files + 1
        /\ t.memory_offset = buf.fs.memory_offset
        /\ t.current_dir = s.current_dir
    <3> DEFINE u == buf.fs
               H == Append(s.heap, new)
               k == s.total_files + 1
    <3>1. t = [u EXCEPT !.heap = H, !.total_files = k]
      BY <1>3
    <3>2. k \in Nat
      BY <1>1
    <3> HIDE DEF H, k, u
    <3>3. u \in filesystem_t /\ H \in Seq(fs_node_t) /\ u.current_dir = s.current_dir
      BY <1>3, <2>2 DEF u, H
    <3>4. /\ [u EXCEPT !.heap = H, !.total_files = k] \in filesystem_t
          /\ [u EXCEPT !.heap = H, !.total_files = k].heap = H
          /\ [u EXCEPT !.heap = H, !.total_files = k].total_files = k
          /\ [u EXCEPT !.heap = H, !.total_files = k].memory_offset = u.memory_offset
          /\ [u EXCEPT !.heap = H, !.total_files = k].current_dir = u.current_dir
      BY <3>2, <3>3 DEF filesystem_t
    <3> HIDE DEF t
    <3> QED BY <3>1, <3>3, <3>4 DEF u, H, k
  <2>4. r = [fs |-> t, ret |-> Len(s.heap) + 1]
    BY <1>4, <1>8 DEF Result
  <2> HIDE DEF t
  <2>5. s.total_files < MAX_TOTAL_FILES
    BY <1>1, <1>8
  <2>6. Paid(new, t.memory_offset - s.memory_offset)
    BY <1>8, <1>9, <2>3
  <2> QED BY <1>3, <1>5, <1>6, <2>3, <2>4, <2>5, <2>6 DEF r
<1> QED BY <1>7, <1>8

(* fs_create_file keeps the tree: the new node is not part of it yet. *)
LEMMA CreateGood ==
    ASSUME NEW s, Good(s), NEW name, Truncate(name) \in String,
           NEW type \in {REGULAR, DIRECTORY}
    PROVE  LET r == fs_create_file(s, name, type)
           IN  \/ r = Result(s, NULL)
               \/ Good(r.fs) /\ Fresh(s, r.fs, r.ret, name, type)
<1> DEFINE r == fs_create_file(s, name, type)
           t == r.fs
           c == Len(s.heap) + 1
<1> SUFFICES ASSUME r # Result(s, NULL)
             PROVE  Good(t) /\ Fresh(s, t, r.ret, name, type)
  OBVIOUS
<1>1. /\ r.ret = c
      /\ t \in filesystem_t
      /\ t.memory_offset < POOL_SIZE
      /\ t.current_dir = s.current_dir
      /\ s.total_files < MAX_TOTAL_FILES
      /\ t.total_files = s.total_files + 1
      /\ \E new \in fs_node_t :
           /\ t.heap = Append(s.heap, new)
           /\ new.parent = NULL /\ new.children = << >>
           /\ new.type = type /\ new.size = 0
           /\ new.name = Truncate(name)
           /\ Paid(new, t.memory_offset - s.memory_offset)
  BY Fields, CreateTyped
<1> HIDE DEF r
<1>2. PICK new \in fs_node_t :
           /\ t.heap = Append(s.heap, new)
           /\ new.parent = NULL /\ new.children = << >>
           /\ new.type = type /\ new.size = 0
           /\ new.name = Truncate(name)
           /\ Paid(new, t.memory_offset - s.memory_offset)
  BY <1>1
<1> HIDE DEF t
<1>3. s.heap \in Seq(fs_node_t) /\ Len(s.heap) \in Nat
  BY Types DEF Good
<1>4. Len(t.heap) = c /\ t.heap[c] = new
      /\ \A m \in 1..Len(s.heap) : t.heap[m] = s.heap[m]
  BY <1>2, <1>3
<1>5. ROOT \in Nodes(s)
  BY DEF Good, AnchoredDirs
<1>6. /\ c \in Nodes(t) /\ c \notin Nodes(s) /\ c # ROOT /\ c # NULL
      /\ Nodes(t) = Nodes(s) \cup {c}
      /\ \A m \in Nodes(s) : m \in Nat /\ m < c
  BY <1>3, <1>4, <1>5 DEF Nodes, ROOT, NULL
<1>7. \A m \in Nodes(s) : t.heap[m] = s.heap[m]
  BY <1>4 DEF Nodes
<1> HIDE DEF c
<1>8. Fresh(s, t, r.ret, name, type)
  BY <1>1, <1>2, <1>4, <1>6, <1>7 DEF Fresh, c
<1>9. WellTyped(t)
  <2>1. t.total_files < SIZE_RANGE
    BY <1>1, SizesAssumption, Fields
  <2>2. t.current_dir \in Nodes(t)
    BY <1>1, <1>6, Fields
  <2>3. ASSUME NEW m \in Nodes(s)
        PROVE  /\ t.heap[m].size <= MAX_FILE_SIZE
               /\ t.heap[m].parent \in Nodes(t) \cup {NULL}
               /\ t.heap[m].children \in Seq(Nodes(t))
    <3>1. s.heap[m].size <= MAX_FILE_SIZE /\ s.heap[m].parent \in Nodes(s) \cup {NULL}
          /\ s.heap[m].children \in Seq(Nodes(s))
      BY DEF Good, WellTyped
    <3>2. s.heap[m].children \in Seq(Nodes(t))
      BY <3>1, <1>6, SeqMonotonic
    <3> QED BY <3>1, <3>2, <1>6, <1>7
  <2>4. /\ t.heap[c].size <= MAX_FILE_SIZE
        /\ t.heap[c].parent \in Nodes(t) \cup {NULL}
        /\ t.heap[c].children \in Seq(Nodes(t))
    <3>1. t.heap[c].size = 0 /\ t.heap[c].parent = NULL /\ t.heap[c].children = << >>
      BY <1>2, <1>4 DEF c
    <3>2. MAX_FILE_SIZE \in Nat
      BY SizesAssumption
    <3>3. << >> \in Seq(Nodes(t))
      OBVIOUS
    <3> QED BY <3>1, <3>2, <3>3
  <2> QED BY <1>1, <1>6, <2>1, <2>2, <2>3, <2>4 DEF WellTyped
<1>10. AnchoredDirs(t)
  <2>1. s.current_dir \in Nodes(s)
    BY Fields
  <2> QED BY <1>1, <1>5, <1>6, <1>7, <2>1 DEF Good, AnchoredDirs
<1>11. ParentsOlder(t)
  <2>1. ASSUME NEW n \in Nodes(s) \ {ROOT}
        PROVE  /\ t.heap[n].parent < n
               /\ t.heap[n].parent # NULL =>
                    /\ t.heap[t.heap[n].parent].type = DIRECTORY
                    /\ t.heap[t.heap[n].parent].parent # NULL
    <3>1. s.heap[n].parent # NULL => s.heap[n].parent \in Nodes(s)
      BY DEF Good, WellTyped
    <3> QED BY <1>7, <3>1 DEF Good, ParentsOlder
  <2>2. t.heap[c].parent < c /\ t.heap[c].parent = NULL
    BY <1>2, <1>3, <1>4 DEF NULL, c
  <2> QED BY <1>6, <2>1, <2>2 DEF ParentsOlder
<1>12. ChildrenLinked(t) /\ NamesUnique(t)
  <2>1. DOMAIN t.heap[c].children = {}
    BY <1>2, <1>4
  <2>2. ASSUME NEW d \in Nodes(s), NEW i \in DOMAIN s.heap[d].children
        PROVE  s.heap[d].children[i] \in Nodes(s)
    BY Types DEF Good
  <2>3. ChildrenLinked(t)
    BY <1>6, <1>7, <2>1, <2>2 DEF Good, ChildrenLinked
  <2>4. NamesUnique(t)
    BY <1>6, <1>7, <2>1, <2>2 DEF Good, NamesUnique
  <2> QED BY <2>3, <2>4
<1> QED BY <1>8, <1>9, <1>10, <1>11, <1>12 DEF Good

(* A new heap of the same length, node by node of the right type. *)
LEMMA Reheap ==
    ASSUME NEW s, Good(s), NEW H \in Seq(fs_node_t), Len(H) = Len(s.heap)
    PROVE  LET t == [s EXCEPT !.heap = H]
           IN  /\ t \in filesystem_t /\ t.heap = H
               /\ t.current_dir = s.current_dir
               /\ t.total_files = s.total_files /\ t.memory_offset = s.memory_offset
               /\ t.current_path = s.current_path
               /\ Nodes(t) = Nodes(s)
<1>1. s \in filesystem_t
  BY Fields
<1>2. /\ [s EXCEPT !.heap = H] \in filesystem_t
      /\ [s EXCEPT !.heap = H].heap = H
      /\ [s EXCEPT !.heap = H].current_dir = s.current_dir
      /\ [s EXCEPT !.heap = H].total_files = s.total_files
      /\ [s EXCEPT !.heap = H].memory_offset = s.memory_offset
      /\ [s EXCEPT !.heap = H].current_path = s.current_path
  BY <1>1 DEF filesystem_t
<1> QED BY <1>2 DEF Nodes

(* c is entered in dir: one parent and one list of children change. *)
Entered(s, t, dir, c) ==
    /\ Nodes(t) = Nodes(s)
    /\ t.current_dir = s.current_dir
    /\ t.total_files = s.total_files
    /\ t.memory_offset = s.memory_offset
    /\ \A m \in Nodes(s) :
         /\ t.heap[m].name = s.heap[m].name
         /\ t.heap[m].type = s.heap[m].type
         /\ t.heap[m].size = s.heap[m].size
         /\ t.heap[m].data = s.heap[m].data
         /\ t.heap[m].parent = IF m = c THEN dir ELSE s.heap[m].parent
         /\ t.heap[m].children = IF m = dir THEN Append(s.heap[dir].children, c)
                                 ELSE s.heap[m].children

(* Entering a parentless youngest node in a directory keeps the tree. *)
LEMMA AddGood ==
    ASSUME NEW s, Good(s), NEW dir \in Attached(s) \cup {NULL},
           NEW c \in Nodes(s), c # ROOT, s.heap[c].parent = NULL,
           \A m \in Nodes(s) : m <= c
    PROVE  LET r == fs_add_child(s, dir, c)
           IN  \/ r = Result(s, -1)
               \/ /\ r.ret = 0
                  /\ Good(r.fs)
                  /\ Nodes(r.fs) = Nodes(s)
                  /\ r.fs.current_dir = s.current_dir
                  /\ c \in Attached(r.fs)
                  /\ IsDirectory(s, dir)
                  /\ Entered(s, r.fs, dir, c)
<1> DEFINE r == fs_add_child(s, dir, c)
           kids == Append(s.heap[dir].children, c)
           D == [s.heap[dir] EXCEPT !.children = kids]
           C == [s.heap[c] EXCEPT !.parent = dir]
           H == [[s.heap EXCEPT ![dir] = D] EXCEPT ![c] = C]
           t == [s EXCEPT !.heap = H]
<1> SUFFICES ASSUME IsDirectory(s, dir),
                    Len(s.heap[dir].children) < MAX_FILES_PER_DIR,
                    fs_find_child(s, dir, s.heap[c].name) = NULL
             PROVE  /\ r = [fs |-> t, ret |-> 0]
                    /\ Good(t) /\ Nodes(t) = Nodes(s)
                    /\ t.current_dir = s.current_dir
                    /\ c \in Attached(t) /\ Entered(s, t, dir, c)
  <2>1. CASE \/ ~IsDirectory(s, dir)
             \/ Len(s.heap[dir].children) >= MAX_FILES_PER_DIR
             \/ fs_find_child(s, dir, s.heap[c].name) # NULL
    BY <2>1 DEF fs_add_child
  <2>2. CASE /\ IsDirectory(s, dir)
             /\ ~(Len(s.heap[dir].children) >= MAX_FILES_PER_DIR)
             /\ fs_find_child(s, dir, s.heap[c].name) = NULL
    <3>1. dir \in Nodes(s)
      BY <2>2 DEF IsDirectory, Attached
    <3>2. Len(s.heap[dir].children) < MAX_FILES_PER_DIR
      <4>1. Len(s.heap[dir].children) \in Nat
        BY <3>1, Types DEF Good
      <4> QED BY <2>2, <4>1, SizesAssumption
    <3> HIDE DEF r, t, H, C, D, kids
    <3>3. r = [fs |-> t, ret |-> 0] /\ Good(t) /\ Nodes(t) = Nodes(s)
          /\ t.current_dir = s.current_dir /\ c \in Attached(t) /\ Entered(s, t, dir, c)
      BY <2>2, <3>2
    <3> QED BY <2>2, <3>3 DEF r
  <2> QED BY <2>1, <2>2
<1>1. /\ dir \in Nodes(s) /\ dir # NULL /\ dir # c /\ c # NULL
      /\ s.heap[dir].type = DIRECTORY /\ s.heap[dir].parent # NULL
      /\ dir \in Nat /\ c \in Nat /\ dir < c
  <2>1. dir \in Nodes(s) /\ dir # NULL /\ s.heap[dir].type = DIRECTORY
        /\ s.heap[dir].parent # NULL /\ dir # c
    BY DEF IsDirectory, Attached
  <2>2. dir \in Nat /\ c \in Nat /\ c # NULL
    BY <2>1, Types DEF Good
  <2> QED BY <2>1, <2>2
<1>2. /\ s.heap \in Seq(fs_node_t)
      /\ s.heap[dir] \in fs_node_t /\ s.heap[c] \in fs_node_t
      /\ s.heap[dir].children \in Seq(Nodes(s)) /\ s.heap[dir].children \in Seq(Nat)
  BY <1>1, Types DEF Good, WellTyped, fs_node_t
<1>3. /\ kids \in Seq(Nodes(s)) /\ kids \in Seq(Nat)
      /\ Len(kids) = Len(s.heap[dir].children) + 1
      /\ kids[Len(kids)] = c
      /\ \A i \in 1..Len(s.heap[dir].children) : kids[i] = s.heap[dir].children[i]
      /\ DOMAIN kids = 1..Len(kids)
  <2> DEFINE old == s.heap[dir].children
  <2>1. old \in Seq(Nodes(s)) /\ old \in Seq(Nat) /\ c \in Nat /\ Len(old) \in Nat
    BY <1>1, <1>2
  <2> HIDE DEF old
  <2>2. /\ Append(old, c) \in Seq(Nodes(s)) /\ Append(old, c) \in Seq(Nat)
        /\ Len(Append(old, c)) = Len(old) + 1
        /\ Append(old, c)[Len(old) + 1] = c
        /\ \A i \in 1..Len(old) : Append(old, c)[i] = old[i]
    BY <2>1, AppendProperties
  <2>3. DOMAIN Append(old, c) = 1..Len(Append(old, c))
    BY <2>2
  <2> QED BY <2>2, <2>3 DEF old
<1> HIDE DEF kids
<1>4. /\ D \in fs_node_t /\ D.children = kids /\ D.name = s.heap[dir].name
      /\ D.type = s.heap[dir].type /\ D.parent = s.heap[dir].parent
      /\ D.size = s.heap[dir].size /\ D.data = s.heap[dir].data
  BY <1>2, <1>3 DEF fs_node_t
<1>5. /\ C \in fs_node_t /\ C.children = s.heap[c].children /\ C.name = s.heap[c].name
      /\ C.type = s.heap[c].type /\ C.parent = dir
      /\ C.size = s.heap[c].size /\ C.data = s.heap[c].data
  BY <1>1, <1>2 DEF fs_node_t
<1> HIDE DEF C, D
<1>6. /\ H \in Seq(fs_node_t) /\ Len(H) = Len(s.heap)
      /\ H[dir] = D /\ H[c] = C
      /\ \A m \in Nodes(s) : m # dir /\ m # c => H[m] = s.heap[m]
  <2> DEFINE G == [s.heap EXCEPT ![dir] = D]
  <2>1. G \in Seq(fs_node_t) /\ Len(G) = Len(s.heap)
        /\ \A m \in 1..Len(s.heap) : G[m] = IF m = dir THEN D ELSE s.heap[m]
    BY <1>1, <1>2, <1>4, ExceptSeq DEF Nodes
  <2> HIDE DEF G
  <2>2. H = [G EXCEPT ![c] = C]
    BY DEF G
  <2>3. H \in Seq(fs_node_t) /\ Len(H) = Len(G)
        /\ \A m \in 1..Len(G) : H[m] = IF m = c THEN C ELSE G[m]
    <3> HIDE DEF H
    <3> QED BY <1>5, <2>1, <2>2, ExceptSeq DEF Nodes
  <2> HIDE DEF H
  <2> QED BY <1>1, <2>1, <2>3 DEF Nodes
<1>7. r = [fs |-> t, ret |-> 0]
  <2>1. ~(Len(s.heap[dir].children) >= MAX_FILES_PER_DIR)
    BY <1>1, Types, SizesAssumption DEF Good
  <2>2. r = Result([s EXCEPT !.heap[dir].children = Append(@, c),
                             !.heap[c].parent = dir], 0)
    BY <1>1, <2>1 DEF fs_add_child
  <2>3. [s EXCEPT !.heap[dir].children = Append(@, c), !.heap[c].parent = dir] = t
    <3>1. s.heap[c] = [s.heap EXCEPT ![dir] = D][c]
      BY <1>1, <1>2 DEF Nodes
    <3> QED BY <3>1, Fields DEF C, D, kids
  <2> QED BY <2>2, <2>3 DEF Result
<1> HIDE DEF H
<1>8. /\ t \in filesystem_t /\ t.heap = H /\ t.current_dir = s.current_dir
      /\ t.total_files = s.total_files /\ t.memory_offset = s.memory_offset
      /\ Nodes(t) = Nodes(s)
  BY <1>6, Reheap
<1> HIDE DEF t, r
(* Names, types and sizes stay; one parent and one list of children change. *)
<1>9. \A m \in Nodes(s) :
         /\ t.heap[m].name = s.heap[m].name
         /\ t.heap[m].type = s.heap[m].type
         /\ t.heap[m].size = s.heap[m].size
         /\ t.heap[m].data = s.heap[m].data
         /\ t.heap[m].parent = IF m = c THEN dir ELSE s.heap[m].parent
         /\ t.heap[m].children = IF m = dir THEN kids ELSE s.heap[m].children
  BY <1>1, <1>4, <1>5, <1>6, <1>8
<1>10. c \in Attached(t)
  BY <1>1, <1>8, <1>9 DEF Attached
<1>11. WellTyped(t)
  <2>1. \A m \in Nodes(s) : /\ s.heap[m].size <= MAX_FILE_SIZE
                            /\ s.heap[m].parent \in Nodes(s) \cup {NULL}
                            /\ s.heap[m].children \in Seq(Nodes(s))
    BY DEF Good, WellTyped
  <2>2. \A m \in Nodes(t) : /\ t.heap[m].size <= MAX_FILE_SIZE
                            /\ t.heap[m].parent \in Nodes(t) \cup {NULL}
                            /\ t.heap[m].children \in Seq(Nodes(t))
    <3>1. dir \in Nodes(s) /\ kids \in Seq(Nodes(s)) /\ Nodes(t) = Nodes(s)
      BY <1>1, <1>3, <1>8
    <3> QED BY <1>9, <2>1, <3>1
  <2> QED BY <1>8, <2>2, Fields DEF WellTyped
<1>12. AnchoredDirs(t)
  <2>1. s.current_dir \in Nodes(s)
    BY Fields
  <2> QED BY <1>1, <1>8, <1>9, <2>1 DEF Good, AnchoredDirs
<1>13. ParentsOlder(t)
  <2>1. SUFFICES ASSUME NEW n \in Nodes(s) \ {ROOT}
        PROVE  /\ t.heap[n].parent < n
               /\ t.heap[n].parent # NULL =>
                    /\ t.heap[t.heap[n].parent].type = DIRECTORY
                    /\ t.heap[t.heap[n].parent].parent # NULL
    BY <1>8 DEF ParentsOlder
  <2>2. CASE n = c
    BY <1>1, <1>9, <2>2
  <2>3. CASE n # c
    <3>1. t.heap[n].parent = s.heap[n].parent
      BY <1>9, <2>3
    <3>2. s.heap[n].parent # NULL => s.heap[n].parent \in Nodes(s)
      BY DEF Good, WellTyped
    <3> DEFINE p == s.heap[n].parent
    <3>3. /\ p < n
          /\ p # NULL => s.heap[p].type = DIRECTORY /\ s.heap[p].parent # NULL
      BY DEF Good, ParentsOlder
    <3>4. ASSUME p # NULL PROVE t.heap[p].type = DIRECTORY /\ t.heap[p].parent # NULL
      <4>1. p \in Nodes(s)
        BY <3>2, <3>4
      <4> HIDE DEF p
      <4> QED BY <1>1, <1>9, <3>3, <3>4, <4>1
    <3> QED BY <3>1, <3>3, <3>4
  <2> QED BY <2>2, <2>3
<1>14. ASSUME NEW d \in Nodes(s), NEW i \in DOMAIN s.heap[d].children
       PROVE  /\ s.heap[d].children[i] \in Nodes(s) /\ s.heap[d].children[i] # c
              /\ i \in Nat /\ i <= Len(s.heap[d].children) /\ i > 0
  <2>1. s.heap[d].children[i] \in Nodes(s) /\ i \in 1..Len(s.heap[d].children)
        /\ Len(s.heap[d].children) \in Nat /\ d # NULL
    BY Types DEF Good
  <2>2. s.heap[s.heap[d].children[i]].parent = d
    BY DEF Good, ChildrenLinked
  <2> QED BY <2>1, <2>2
<1>15. ASSUME NEW i \in DOMAIN kids
       PROVE  \/ i \in DOMAIN s.heap[dir].children /\ kids[i] = s.heap[dir].children[i]
              \/ i = Len(kids) /\ kids[i] = c
  <2>1. DOMAIN s.heap[dir].children = 1..Len(s.heap[dir].children)
        /\ Len(s.heap[dir].children) \in Nat
    BY <1>1, Types DEF Good
  <2>2. i \in 1..(Len(s.heap[dir].children) + 1)
    BY <1>3
  <2>3. CASE i = Len(s.heap[dir].children) + 1
    BY <1>3, <2>3
  <2>4. CASE i \in 1..Len(s.heap[dir].children)
    BY <1>3, <2>1, <2>4
  <2> QED BY <2>1, <2>2, <2>3, <2>4
<1>16. ChildrenLinked(t)
  <2>1. SUFFICES ASSUME NEW d \in Nodes(s), NEW i \in DOMAIN t.heap[d].children
        PROVE  /\ t.heap[d].type = DIRECTORY
               /\ t.heap[d].children[i] # ROOT
               /\ t.heap[t.heap[d].children[i]].parent = d
    BY <1>8 DEF ChildrenLinked
  <2>2. CASE d # dir
    <3> DEFINE k == s.heap[d].children[i]
    <3>1. t.heap[d].children = s.heap[d].children /\ t.heap[d].type = s.heap[d].type
      BY <1>9, <2>2
    <3>2. k \in Nodes(s) /\ k # c
      BY <1>14, <3>1
    <3>3. s.heap[d].type = DIRECTORY /\ k # ROOT /\ s.heap[k].parent = d
      BY <3>1 DEF Good, ChildrenLinked
    <3>4. t.heap[d].children[i] = k
      BY <3>1
    <3> HIDE DEF k
    <3>5. t.heap[k].parent = d
      BY <1>9, <3>2, <3>3
    <3> QED BY <3>1, <3>3, <3>4, <3>5
  <2>3. CASE d = dir
    <3>1. i \in DOMAIN kids /\ t.heap[d].children[i] = kids[i]
      BY <1>9, <2>3
    <3>2. CASE i \in DOMAIN s.heap[dir].children /\ kids[i] = s.heap[dir].children[i]
      BY <1>9, <1>14, <2>3, <3>1, <3>2 DEF Good, ChildrenLinked
    <3>3. CASE i = Len(kids) /\ kids[i] = c
      BY <1>1, <1>9, <2>3, <3>1, <3>3
    <3> QED BY <1>15, <3>1, <3>2, <3>3
  <2> QED BY <2>2, <2>3
<1>17. \A i \in DOMAIN s.heap[dir].children :
           s.heap[s.heap[dir].children[i]].name # s.heap[c].name
  <2>1. CASE Matches(s, dir, s.heap[c].name) = {}
    BY <2>1 DEF Matches
  <2>2. CASE Matches(s, dir, s.heap[c].name) # {}
    <3> DEFINE m == Min(Matches(s, dir, s.heap[c].name))
    <3>1. m \in Matches(s, dir, s.heap[c].name)
      BY <1>1, <2>2, MatchesNat, MinNat DEF Good
    <3>2. m \in DOMAIN s.heap[dir].children
      BY <3>1 DEF Matches
    <3> HIDE DEF m
    <3>3. s.heap[dir].children[m] # NULL
      BY <1>1, <1>14, <3>2, Types DEF Good
    <3>4. fs_find_child(s, dir, s.heap[c].name) = s.heap[dir].children[m]
      BY <2>2 DEF fs_find_child, m
    <3> QED BY <3>3, <3>4
  <2> QED BY <2>1, <2>2
<1>18. NamesUnique(t)
  <2>1. SUFFICES ASSUME NEW d \in Nodes(s), NEW i \in DOMAIN t.heap[d].children,
                        NEW j \in DOMAIN t.heap[d].children,
                        t.heap[t.heap[d].children[i]].name
                          = t.heap[t.heap[d].children[j]].name
        PROVE  i = j
    BY <1>8 DEF NamesUnique
  <2>2. CASE d # dir
    <3> DEFINE e == s.heap[d].children
    <3>1. t.heap[d].children = e
      BY <1>9, <2>2
    <3>2. i \in DOMAIN e /\ j \in DOMAIN e /\ e[i] \in Nodes(s) /\ e[j] \in Nodes(s)
      BY <1>14, <3>1
    <3>3. s.heap[e[i]].name = s.heap[e[j]].name
      BY <1>9, <2>1, <3>1, <3>2
    <3> QED BY <3>2, <3>3 DEF Good, NamesUnique
  <2>3. CASE d = dir
    <3>1. t.heap[d].children = kids
      BY <1>9, <2>3
    <3>2. kids[i] \in Nodes(s) /\ kids[j] \in Nodes(s)
      BY <1>1, <1>14, <1>15, <3>1
    <3>3. s.heap[kids[i]].name = s.heap[kids[j]].name
      BY <1>9, <2>1, <3>1, <3>2
    <3>4. CASE i = Len(kids) /\ kids[i] = c
      BY <1>15, <1>17, <3>1, <3>3, <3>4
    <3>5. CASE j = Len(kids) /\ kids[j] = c
      BY <1>15, <1>17, <3>1, <3>3, <3>5
    <3>6. CASE /\ i \in DOMAIN s.heap[dir].children /\ kids[i] = s.heap[dir].children[i]
               /\ j \in DOMAIN s.heap[dir].children /\ kids[j] = s.heap[dir].children[j]
      BY <1>1, <3>3, <3>6 DEF Good, NamesUnique
    <3> QED BY <1>15, <3>1, <3>4, <3>5, <3>6
  <2> QED BY <2>2, <2>3
<1>19. Entered(s, t, dir, c)
  BY <1>8, <1>9 DEF Entered, kids
<1> QED BY <1>7, <1>8, <1>10, <1>11, <1>12, <1>13, <1>16, <1>18, <1>19 DEF Good

(* Shifting an entry out of children[] keeps the others, each once. *)
LEMMA ShiftOutSeq ==
    ASSUME NEW S, NEW e \in Seq(S), NEW k \in 1..Len(e)
    PROVE  /\ ShiftOut(e, k) \in Seq(S)
           /\ \A i \in DOMAIN ShiftOut(e, k) :
                /\ i \in Nat
                /\ (IF i < k THEN i ELSE i + 1) \in DOMAIN e
                /\ ShiftOut(e, k)[i] = e[IF i < k THEN i ELSE i + 1]
<1> DEFINE n == Len(e) - 1
<1>1. Len(e) \in Nat /\ n \in Nat /\ k \in Nat /\ DOMAIN e = 1..Len(e)
      /\ \A i \in 1..Len(e) : e[i] \in S
  OBVIOUS
<1>2. ASSUME NEW i \in 1..n
      PROVE  (IF i < k THEN e[i] ELSE e[i + 1]) \in S
  BY <1>1
<1>3. ShiftOut(e, k) = [i \in 1..n |-> IF i < k THEN e[i] ELSE e[i + 1]]
  BY DEF ShiftOut
<1>4. ShiftOut(e, k) \in Seq(S)
  <2> HIDE DEF n
  <2> QED BY <1>1, <1>2, <1>3
<1>5. ASSUME NEW i \in DOMAIN ShiftOut(e, k)
      PROVE  /\ i \in Nat
             /\ (IF i < k THEN i ELSE i + 1) \in DOMAIN e
             /\ ShiftOut(e, k)[i] = e[IF i < k THEN i ELSE i + 1]
  BY <1>1, <1>3
<1> QED BY <1>4, <1>5

(* The state with one node replaced, and what stays when the new node has  *)
(* the old one's name, type and parent.                                    *)
Put(s, n, new) == [s EXCEPT !.heap = [s.heap EXCEPT ![n] = new]]

Replaced(s, t, n, new) ==
    /\ Nodes(t) = Nodes(s)
    /\ t.current_dir = s.current_dir
    /\ t.total_files = s.total_files
    /\ t.memory_offset = s.memory_offset
    /\ t.heap[n] = new
    /\ \A m \in Nodes(s) :
         /\ m # n => t.heap[m] = s.heap[m]
         /\ t.heap[m].name = s.heap[m].name
         /\ t.heap[m].type = s.heap[m].type
         /\ t.heap[m].parent = s.heap[m].parent

(* Replacing a node by one of the same name, type and parent. *)
LEMMA ReplaceNode ==
    ASSUME NEW s, Good(s), NEW n \in Nodes(s), NEW new \in fs_node_t,
           new.name = s.heap[n].name, new.type = s.heap[n].type,
           new.parent = s.heap[n].parent, new.size <= MAX_FILE_SIZE,
           new.children \in Seq(Nodes(s))
    PROVE  /\ WellTyped(Put(s, n, new))
           /\ AnchoredDirs(Put(s, n, new))
           /\ ParentsOlder(Put(s, n, new))
           /\ Replaced(s, Put(s, n, new), n, new)
<1> DEFINE H == [s.heap EXCEPT ![n] = new]
           t == [s EXCEPT !.heap = H]
<1>1. s.heap \in Seq(fs_node_t)
  BY Types DEF Good
<1>2. /\ H \in Seq(fs_node_t) /\ Len(H) = Len(s.heap)
      /\ \A m \in 1..Len(s.heap) : H[m] = IF m = n THEN new ELSE s.heap[m]
  BY <1>1, ExceptSeq DEF Nodes
<1> HIDE DEF H
<1>3. /\ t \in filesystem_t /\ t.heap = H /\ t.current_dir = s.current_dir
      /\ t.total_files = s.total_files /\ t.memory_offset = s.memory_offset
      /\ Nodes(t) = Nodes(s)
  BY <1>2, Reheap
<1> HIDE DEF t
<1>4. /\ t.heap[n] = new
      /\ \A m \in Nodes(s) : m # n => t.heap[m] = s.heap[m]
  BY <1>2, <1>3 DEF Nodes
<1>5. \A m \in Nodes(s) :
         /\ t.heap[m].name = s.heap[m].name
         /\ t.heap[m].type = s.heap[m].type
         /\ t.heap[m].parent = s.heap[m].parent
  BY <1>4
<1>6. WellTyped(t)
  <2>1. \A m \in Nodes(s) : /\ s.heap[m].size <= MAX_FILE_SIZE
                            /\ s.heap[m].parent \in Nodes(s) \cup {NULL}
                            /\ s.heap[m].children \in Seq(Nodes(s))
    BY DEF Good, WellTyped
  <2>2. \A m \in Nodes(t) : /\ t.heap[m].size <= MAX_FILE_SIZE
                            /\ t.heap[m].parent \in Nodes(t) \cup {NULL}
                            /\ t.heap[m].children \in Seq(Nodes(t))
    BY <1>3, <1>4, <1>5, <2>1
  <2> QED BY <1>3, <2>2, Fields DEF WellTyped
<1>7. AnchoredDirs(t)
  <2>1. s.current_dir \in Nodes(s)
    BY Fields
  <2> QED BY <1>3, <1>5, <2>1 DEF Good, AnchoredDirs
<1>8. ParentsOlder(t)
  <2>1. SUFFICES ASSUME NEW m \in Nodes(s) \ {ROOT}
        PROVE  /\ t.heap[m].parent < m
               /\ t.heap[m].parent # NULL =>
                    /\ t.heap[t.heap[m].parent].type = DIRECTORY
                    /\ t.heap[t.heap[m].parent].parent # NULL
    BY <1>3 DEF ParentsOlder
  <2> DEFINE p == s.heap[m].parent
  <2>2. /\ p < m
        /\ p # NULL => /\ p \in Nodes(s)
                       /\ s.heap[p].type = DIRECTORY /\ s.heap[p].parent # NULL
    BY DEF Good, ParentsOlder, WellTyped
  <2>3. t.heap[m].parent = p
    BY <1>5
  <2> HIDE DEF p
  <2> QED BY <1>5, <2>2, <2>3
<1>9. t = Put(s, n, new)
  BY DEF t, H, Put
<1> QED BY <1>3, <1>4, <1>5, <1>6, <1>7, <1>8, <1>9 DEF Replaced

(* What the later calls of a command rely on. *)
SameLinks(s, t) ==
    /\ Nodes(t) = Nodes(s)
    /\ t.current_dir = s.current_dir
    /\ \A m \in Nodes(s) : t.heap[m].parent = s.heap[m].parent

(* The k-th entry of dir is shifted out, and nothing else changes. *)
Dropped(s, t, dir, k) ==
    /\ Nodes(t) = Nodes(s)
    /\ t.current_dir = s.current_dir
    /\ t.total_files = s.total_files
    /\ t.memory_offset = s.memory_offset
    /\ \A m \in Nodes(s) :
         /\ t.heap[m].name = s.heap[m].name
         /\ t.heap[m].type = s.heap[m].type
         /\ t.heap[m].size = s.heap[m].size
         /\ t.heap[m].data = s.heap[m].data
         /\ t.heap[m].parent = s.heap[m].parent
         /\ t.heap[m].children = IF m = dir THEN ShiftOut(s.heap[dir].children, k)
                                 ELSE s.heap[m].children

(* fs_remove_child shifts one entry out; the node keeps its parent. *)
LEMMA RemoveGood ==
    ASSUME NEW s, Good(s), NEW dir \in Nodes(s) \cup {NULL}, NEW name
    PROVE  LET t == fs_remove_child(s, dir, name).fs
           IN  /\ Good(t) /\ SameLinks(s, t)
               /\ IF IsDirectory(s, dir) /\ Matches(s, dir, name) # {}
                  THEN Dropped(s, t, dir, Min(Matches(s, dir, name)))
                  ELSE t = s
<1> DEFINE t == fs_remove_child(s, dir, name).fs
<1>1. CASE ~(IsDirectory(s, dir) /\ Matches(s, dir, name) # {})
  <2>1. t = s
    BY <1>1 DEF fs_remove_child, Result
  <2> HIDE DEF t
  <2> QED BY <1>1, <2>1 DEF t, SameLinks
<1>2. CASE IsDirectory(s, dir) /\ Matches(s, dir, name) # {}
  <2> DEFINE k == Min(Matches(s, dir, name))
             e == s.heap[dir].children
             new == [s.heap[dir] EXCEPT !.children = ShiftOut(e, k)]
  <2>1. dir \in Nodes(s)
    BY <1>2 DEF IsDirectory
  <2>2. e \in Seq(Nodes(s)) /\ e \in Seq(Nat) /\ s.heap[dir] \in fs_node_t
        /\ Len(e) \in Nat /\ DOMAIN e = 1..Len(e)
    BY <2>1, Types DEF Good, WellTyped, fs_node_t
  <2>3. k \in 1..Len(e)
    <3>1. k \in Matches(s, dir, name)
      BY <1>2, <2>1, MatchesNat, MinNat DEF Good
    <3> HIDE DEF k
    <3> QED BY <2>2, <3>1 DEF Matches
  <2>4. t = Put(s, dir, new)
    BY <1>2 DEF fs_remove_child, Result, Put
  <2> HIDE DEF k, t
  <2> DEFINE f == ShiftOut(e, k)
  <2>5. f \in Seq(Nodes(s)) /\ f \in Seq(Nat)
        /\ \A i \in DOMAIN f : /\ i \in Nat
                               /\ (IF i < k THEN i ELSE i + 1) \in DOMAIN e
                               /\ f[i] = e[IF i < k THEN i ELSE i + 1]
    <3> HIDE DEF e
    <3> QED BY <2>2, <2>3, ShiftOutSeq
  <2> HIDE DEF f
  <2>6. /\ new \in fs_node_t /\ new.children = f
        /\ new.name = s.heap[dir].name /\ new.type = s.heap[dir].type
        /\ new.parent = s.heap[dir].parent /\ new.size = s.heap[dir].size
        /\ new.data = s.heap[dir].data
    BY <2>2, <2>5 DEF fs_node_t, f
  <2>7. new.size <= MAX_FILE_SIZE
    BY <2>1, <2>6 DEF Good, WellTyped
  <2> HIDE DEF new
  <2>8. /\ WellTyped(t) /\ AnchoredDirs(t) /\ ParentsOlder(t)
        /\ Nodes(t) = Nodes(s) /\ t.current_dir = s.current_dir
        /\ t.heap[dir] = new
        /\ t.total_files = s.total_files /\ t.memory_offset = s.memory_offset
        /\ \A m \in Nodes(s) :
             /\ m # dir => t.heap[m] = s.heap[m]
             /\ t.heap[m].name = s.heap[m].name
             /\ t.heap[m].type = s.heap[m].type
             /\ t.heap[m].parent = s.heap[m].parent
    <3>1. WellTyped(t) /\ AnchoredDirs(t) /\ ParentsOlder(t) /\ Replaced(s, t, dir, new)
      BY <2>1, <2>4, <2>5, <2>6, <2>7, ReplaceNode
    <3> QED BY <3>1 DEF Replaced
  (* Each entry that is left was an entry, at its place or the next one. *)
  <2>9. ASSUME NEW d \in Nodes(s), NEW i \in DOMAIN t.heap[d].children
        PROVE  LET j == IF d = dir /\ i >= k THEN i + 1 ELSE i
               IN  /\ j \in DOMAIN s.heap[d].children
                   /\ t.heap[d].children[i] = s.heap[d].children[j]
                   /\ t.heap[d].children[i] \in Nodes(s)
    <3>1. CASE d # dir
      BY <2>8, <3>1, Types DEF Good
    <3>2. CASE d = dir
      <4>1. i \in DOMAIN f /\ t.heap[d].children[i] = f[i]
        BY <2>6, <2>8, <3>2
      <4>2. f[i] \in Nodes(s)
        BY <2>5, <4>1
      <4>3. k \in Nat /\ i \in Nat
        BY <2>2, <2>3, <2>5, <4>1
      <4> QED BY <2>5, <3>2, <4>1, <4>2, <4>3
    <3> QED BY <3>1, <3>2
  <2>10. ChildrenLinked(t)
    <3>1. SUFFICES ASSUME NEW d \in Nodes(s), NEW i \in DOMAIN t.heap[d].children
          PROVE  /\ t.heap[d].type = DIRECTORY
                 /\ t.heap[d].children[i] # ROOT
                 /\ t.heap[t.heap[d].children[i]].parent = d
      BY <2>8 DEF ChildrenLinked
    <3>2. PICK j \in DOMAIN s.heap[d].children :
              /\ t.heap[d].children[i] = s.heap[d].children[j]
              /\ t.heap[d].children[i] \in Nodes(s)
      BY <2>9
    <3> QED BY <2>8, <3>2 DEF Good, ChildrenLinked
  <2>11. NamesUnique(t)
    <3>1. SUFFICES ASSUME NEW d \in Nodes(s), NEW i \in DOMAIN t.heap[d].children,
                          NEW j \in DOMAIN t.heap[d].children,
                          t.heap[t.heap[d].children[i]].name
                            = t.heap[t.heap[d].children[j]].name
          PROVE  i = j
      BY <2>8 DEF NamesUnique
    <3> DEFINE Old(x) == IF d = dir /\ x >= k THEN x + 1 ELSE x
    <3>2. /\ Old(i) \in DOMAIN s.heap[d].children /\ Old(j) \in DOMAIN s.heap[d].children
          /\ t.heap[d].children[i] = s.heap[d].children[Old(i)]
          /\ t.heap[d].children[j] = s.heap[d].children[Old(j)]
          /\ t.heap[d].children[i] \in Nodes(s) /\ t.heap[d].children[j] \in Nodes(s)
      BY <2>9
    <3>3. i \in Nat /\ j \in Nat /\ k \in Nat
      <4>1. DOMAIN t.heap[d].children = 1..Len(t.heap[d].children)
        BY <2>8, Types
      <4>2. k \in Nat
        BY <2>2, <2>3
      <4> QED BY <4>1, <4>2
    <3> HIDE DEF Old
    <3>4. s.heap[s.heap[d].children[Old(i)]].name = s.heap[s.heap[d].children[Old(j)]].name
      BY <2>8, <3>1, <3>2
    <3>5. Old(i) = Old(j)
      BY <3>2, <3>4 DEF Good, NamesUnique
    <3> QED BY <3>3, <3>5 DEF Old
  <2>12. Dropped(s, t, dir, k)
    BY <2>6, <2>8 DEF Dropped, f
  <2>13. Good(t) /\ SameLinks(s, t)
    BY <2>8, <2>10, <2>11 DEF Good, SameLinks
  <2> QED BY <1>2, <2>12, <2>13 DEF t, k
<1> QED BY <1>1, <1>2

(* fs_delete_node, whose count wraps below zero as a size_t does. *)
LEMMA DeleteGood ==
    ASSUME NEW s, Good(s), NEW n \in Nodes(s) \cup {NULL}
    PROVE  LET t == fs_delete_node(s, n).fs
               u == fs_remove_child(s, s.heap[n].parent, s.heap[n].name).fs
           IN  /\ Good(t) /\ SameLinks(s, t)
               /\ IF \/ n \in {NULL, ROOT}
                     \/ IsDirectory(s, n) /\ s.heap[n].children # << >>
                  THEN t = s
                  ELSE /\ t.heap = u.heap /\ t.memory_offset = u.memory_offset
                       /\ t.total_files = (u.total_files + SIZE_RANGE - 1) % SIZE_RANGE
<1> DEFINE t == fs_delete_node(s, n).fs
<1>1. CASE \/ n \in {NULL, ROOT}
           \/ IsDirectory(s, n) /\ s.heap[n].children # << >>
  <2>1. t = s
    BY <1>1 DEF fs_delete_node, Result
  <2> HIDE DEF t
  <2> QED BY <1>1, <2>1 DEF t, SameLinks
<1>2. CASE ~(\/ n \in {NULL, ROOT}
             \/ IsDirectory(s, n) /\ s.heap[n].children # << >>)
  <2> DEFINE u == fs_remove_child(s, s.heap[n].parent, s.heap[n].name).fs
             v == [u EXCEPT !.total_files = (@ + SIZE_RANGE - 1) % SIZE_RANGE]
  <2>1. t = v
    BY <1>2 DEF fs_delete_node, Result
  <2>2. s.heap[n].parent \in Nodes(s) \cup {NULL}
    BY <1>2 DEF Good, WellTyped
  <2>3. Good(u) /\ SameLinks(s, u)
    BY <2>2, RemoveGood
  <2> HIDE DEF u
  <2>4. /\ v \in filesystem_t /\ v.heap = u.heap /\ v.current_dir = u.current_dir
        /\ v.total_files < SIZE_RANGE /\ v.memory_offset < POOL_SIZE
        /\ v.memory_offset = u.memory_offset
        /\ v.total_files = (u.total_files + SIZE_RANGE - 1) % SIZE_RANGE
    <3> DEFINE c == (u.total_files + SIZE_RANGE - 1) % SIZE_RANGE
    <3>1. c \in Nat /\ c < SIZE_RANGE
      <4>1. SIZE_RANGE \in Nat /\ SIZE_RANGE > 0 /\ u.total_files \in Nat
        BY <2>3, SizesAssumption, Fields
      <4>2. u.total_files + SIZE_RANGE - 1 \in Nat
        BY <4>1
      <4> QED BY <4>1, <4>2
    <3>2. v = [u EXCEPT !.total_files = c]
      OBVIOUS
    <3> HIDE DEF c, v
    <3>3. u \in filesystem_t /\ u.memory_offset < POOL_SIZE
      BY <2>3, Fields
    <3>4. /\ [u EXCEPT !.total_files = c] \in filesystem_t
          /\ [u EXCEPT !.total_files = c].heap = u.heap
          /\ [u EXCEPT !.total_files = c].current_dir = u.current_dir
          /\ [u EXCEPT !.total_files = c].total_files = c
          /\ [u EXCEPT !.total_files = c].memory_offset = u.memory_offset
      BY <3>1, <3>3 DEF filesystem_t
    <3> QED BY <3>1, <3>2, <3>3, <3>4 DEF c
  <2> HIDE DEF v, t
  <2>5. Good(v)
    BY <2>3, <2>4, SameTree
  <2>6. SameLinks(s, v)
    BY <2>3, <2>4 DEF SameLinks, Nodes
  <2> QED BY <1>2, <2>1, <2>4, <2>5, <2>6 DEF t, u
<1> QED BY <1>1, <1>2

(* The text is copied to the front of n's buffer; no link changes. *)
Written(s, t, n, text) ==
    /\ Nodes(t) = Nodes(s)
    /\ t.current_dir = s.current_dir
    /\ t.total_files = s.total_files
    /\ t.memory_offset = s.memory_offset
    /\ \A m \in Nodes(s) :
         /\ m # n => t.heap[m] = s.heap[m]
         /\ t.heap[m].name = s.heap[m].name
         /\ t.heap[m].type = s.heap[m].type
         /\ t.heap[m].parent = s.heap[m].parent
         /\ t.heap[m].children = s.heap[m].children
    /\ LET size == Min({Len(text), MAX_FILE_SIZE})
       IN  /\ t.heap[n].size = size
           /\ t.heap[n].data = [i \in 1..MAX_FILE_SIZE |->
                                   IF i <= size THEN text[i] ELSE s.heap[n].data[i]]

(* fs_write_file changes the contents of one file and no link. *)
LEMMA WriteGood ==
    ASSUME NEW s, Good(s), NEW n \in Nodes(s) \cup {NULL},
           NEW text \in Seq(Char \cup {NUL})
    PROVE  LET t == fs_write_file(s, n, text).fs
           IN  /\ Good(t) /\ SameLinks(s, t)
               /\ IF HasData(s, n) THEN Written(s, t, n, text) ELSE t = s
<1> DEFINE t == fs_write_file(s, n, text).fs
           size == Min({Len(text), MAX_FILE_SIZE})
           data == [i \in 1..MAX_FILE_SIZE |->
                       IF i <= size THEN text[i] ELSE s.heap[n].data[i]]
           new == [[s.heap[n] EXCEPT !.data = data] EXCEPT !.size = size]
<1>1. CASE ~HasData(s, n)
  <2>1. t = s
    BY <1>1 DEF fs_write_file, Result
  <2> HIDE DEF t
  <2> QED BY <1>1, <2>1 DEF t, SameLinks
<1>2. CASE HasData(s, n)
  <2>1. n \in Nodes(s) /\ s.heap[n].data # NODATA
    BY <1>2 DEF HasData
  <2>2. s.heap[n] \in fs_node_t /\ s.heap \in Seq(fs_node_t)
        /\ s.heap[n].children \in Seq(Nodes(s))
    BY <2>1, Types DEF Good, WellTyped
  <2>3. size \in Nat /\ size <= Len(text) /\ size <= MAX_FILE_SIZE
    <3>1. Len(text) \in Nat /\ MAX_FILE_SIZE \in Nat
      BY SizesAssumption
    <3> DEFINE S == {Len(text), MAX_FILE_SIZE}
    <3>2. S \in SUBSET Nat /\ S # {} /\ Len(text) \in S /\ MAX_FILE_SIZE \in S
      BY <3>1
    <3> HIDE DEF S
    <3>3. Min(S) \in S /\ \A k \in S : Min(S) <= k
      BY <3>2, MinNat
    <3> QED BY <3>2, <3>3 DEF S
  <2>4. t = Put(s, n, new)
    <3> DEFINE D == [s.heap[n] EXCEPT !.data = data]
               u == [s EXCEPT !.heap = [s.heap EXCEPT ![n] = D]]
    <3>1. t = [s EXCEPT !.heap[n].data = [i \in 1..MAX_FILE_SIZE |->
                                             IF i <= size THEN text[i] ELSE @[i]],
                        !.heap[n].size = size]
      BY <1>2 DEF fs_write_file, Result
    <3> HIDE DEF size, t
    <3>2. t = [u EXCEPT !.heap = [u.heap EXCEPT ![n] = [u.heap[n] EXCEPT !.size = size]]]
      BY <3>1
    <3>3. u.heap = [s.heap EXCEPT ![n] = D] /\ u.heap[n] = D
      BY <2>1, <2>2, Fields DEF Nodes
    <3>4. [u.heap EXCEPT ![n] = new] = [s.heap EXCEPT ![n] = new]
      BY <2>1, <2>2, <3>3
    <3>5. [u EXCEPT !.heap = [s.heap EXCEPT ![n] = new]] = Put(s, n, new)
      BY Fields DEF Put
    <3> QED BY <3>2, <3>3, <3>4, <3>5
  <2> HIDE DEF size, t
  <2>5. data \in Buffer
    <3>1. s.heap[n].data \in Buffer
      BY <2>1, <2>2 DEF fs_node_t
    <3>2. ASSUME NEW i \in 1..MAX_FILE_SIZE
          PROVE  (IF i <= size THEN text[i] ELSE s.heap[n].data[i]) \in Char \cup {NUL}
      <4>1. CASE i <= size
        BY <2>3, <4>1
      <4>2. CASE ~(i <= size)
        BY <3>1, <4>2 DEF Buffer
      <4> QED BY <4>1, <4>2
    <3> QED BY <3>2 DEF Buffer
  <2> HIDE DEF data
  <2>6. /\ new \in fs_node_t /\ new.children = s.heap[n].children
        /\ new.name = s.heap[n].name /\ new.type = s.heap[n].type
        /\ new.parent = s.heap[n].parent /\ new.size = size /\ new.data = data
    BY <2>2, <2>3, <2>5 DEF fs_node_t
  <2> HIDE DEF new
  <2>7. WellTyped(t) /\ AnchoredDirs(t) /\ ParentsOlder(t) /\ Replaced(s, t, n, new)
    BY <2>1, <2>2, <2>3, <2>4, <2>6, ReplaceNode
  <2>8. /\ Nodes(t) = Nodes(s) /\ t.current_dir = s.current_dir
        /\ \A m \in Nodes(s) :
             /\ t.heap[m].name = s.heap[m].name
             /\ t.heap[m].type = s.heap[m].type
             /\ t.heap[m].parent = s.heap[m].parent
             /\ t.heap[m].children = s.heap[m].children
    BY <2>6, <2>7 DEF Replaced
  <2>9. ASSUME NEW d \in Nodes(s), NEW i \in DOMAIN s.heap[d].children
        PROVE  s.heap[d].children[i] \in Nodes(s)
    BY Types DEF Good
  <2>10. ChildrenLinked(t)
    BY <2>8, <2>9 DEF Good, ChildrenLinked
  <2>11. NamesUnique(t)
    <3>1. SUFFICES ASSUME NEW d \in Nodes(t), NEW i \in DOMAIN t.heap[d].children,
                          NEW j \in DOMAIN t.heap[d].children,
                          t.heap[t.heap[d].children[i]].name
                            = t.heap[t.heap[d].children[j]].name
          PROVE  i = j
      BY DEF NamesUnique
    <3>2. d \in Nodes(s) /\ t.heap[d].children = s.heap[d].children
      BY <2>8
    <3>3. s.heap[s.heap[d].children[i]].name = s.heap[s.heap[d].children[j]].name
      BY <2>8, <2>9, <3>1, <3>2
    <3> QED BY <3>2, <3>3 DEF Good, NamesUnique
  <2>12. Good(t) /\ SameLinks(s, t)
    BY <2>7, <2>8, <2>10, <2>11 DEF Good, SameLinks
  <2>13. Written(s, t, n, text)
    BY <2>6, <2>7, <2>8 DEF Written, Replaced, size, data
  <2> QED BY <1>2, <2>12, <2>13 DEF t
<1> QED BY <1>1, <1>2

-------------------------------------------------------------------------------
(* The pool and the buffers. *)

(* The nodes that have a buffer. *)
Buffers(s) == {n \in Nodes(s) : s.heap[n].data # NODATA}

(* The pool has given out what the nodes and their buffers take up. *)
Exact(s) ==
    s.memory_offset = NODE_SIZE * Len(s.heap) + MAX_FILE_SIZE * Cardinality(Buffers(s))

(* Only files have buffers, and a '\0' ends each of them, after the text. *)
Ended(s) ==
    \A n \in Buffers(s) :
        /\ s.heap[n].type = REGULAR
        /\ s.heap[n].data[MAX_FILE_SIZE] = NUL
        /\ s.heap[n].size < MAX_FILE_SIZE
        /\ \A i \in 1..s.heap[n].size : s.heap[n].data[i] # NUL

(* What has no buffer has no size. *)
NoSize(s) == \A n \in Nodes(s) : s.heap[n].data = NODATA => s.heap[n].size = 0

Filed(s) == Exact(s) /\ Ended(s) /\ NoSize(s)

(* What a text that goes into a buffer looks like. *)
Storable(text) == text \in Seq(Char) /\ Len(text) < MAX_FILE_SIZE

(* No file is touched. *)
SameFiles(s, t) ==
    /\ Nodes(t) = Nodes(s)
    /\ t.memory_offset = s.memory_offset
    /\ \A m \in Nodes(s) : /\ t.heap[m].type = s.heap[m].type
                           /\ t.heap[m].size = s.heap[m].size
                           /\ t.heap[m].data = s.heap[m].data

(* As many nodes as before. *)
LEMMA SameLength ==
    ASSUME NEW a \in Nat, NEW b \in Nat, 1..a = 1..b
    PROVE  a = b
<1>1. CASE a < b
  <2>1. b \in 1..b /\ b \notin 1..a  BY <1>1
  <2> QED BY <2>1
<1>2. CASE b < a
  <2>1. a \in 1..a /\ a \notin 1..b  BY <1>2
  <2> QED BY <2>1
<1> QED BY <1>1, <1>2

(* A step that touches no file leaves them accounted for and ended. *)
LEMMA SameFiled ==
    ASSUME NEW s, Good(s), Filed(s), NEW t, Good(t), SameFiles(s, t)
    PROVE  Filed(t)
<1>1. Len(t.heap) = Len(s.heap)
  <2>1. Len(t.heap) \in Nat /\ Len(s.heap) \in Nat  BY Types DEF Good
  <2>2. 1..Len(t.heap) = 1..Len(s.heap)  BY DEF SameFiles, Nodes
  <2> QED BY <2>1, <2>2, SameLength
<1>2. Buffers(t) = Buffers(s)
  BY DEF Buffers, SameFiles
<1>3. Exact(t)
  BY <1>1, <1>2 DEF Exact, SameFiles, Filed
<1>4. Ended(t)
  <2>1. \A n \in Buffers(s) : n \in Nodes(s)
    BY DEF Buffers
  <2> QED BY <1>2, <2>1 DEF Ended, SameFiles, Filed
<1>5. NoSize(t)
  BY DEF NoSize, SameFiles, Filed
<1> QED BY <1>3, <1>4, <1>5 DEF Filed

(* fs_add_child, fs_remove_child and fs_delete_node touch no file. *)
LEMMA LinksOnly ==
    ASSUME NEW s, Good(s)
    PROVE  /\ \A dir \in Attached(s) \cup {NULL}, c \in Nodes(s) \ {ROOT} :
                s.heap[c].parent = NULL /\ (\A m \in Nodes(s) : m <= c)
                  => SameFiles(s, fs_add_child(s, dir, c).fs)
           /\ \A dir \in Nodes(s) \cup {NULL}, name \in String :
                SameFiles(s, fs_remove_child(s, dir, name).fs)
           /\ \A n \in Nodes(s) \cup {NULL} : SameFiles(s, fs_delete_node(s, n).fs)
<1>1. ASSUME NEW dir \in Attached(s) \cup {NULL}, NEW c \in Nodes(s) \ {ROOT},
             s.heap[c].parent = NULL, \A m \in Nodes(s) : m <= c
      PROVE  SameFiles(s, fs_add_child(s, dir, c).fs)
  <2> DEFINE r == fs_add_child(s, dir, c)
  <2>1. r = Result(s, -1) \/ Entered(s, r.fs, dir, c)
    BY <1>1, AddGood
  <2> HIDE DEF r
  <2> QED BY <2>1 DEF Result, Entered, SameFiles, r
<1>2. ASSUME NEW dir \in Nodes(s) \cup {NULL}, NEW name
      PROVE  SameFiles(s, fs_remove_child(s, dir, name).fs)
  <2> DEFINE t == fs_remove_child(s, dir, name).fs
             k == Min(Matches(s, dir, name))
  <2>1. t = s \/ Dropped(s, t, dir, k)
    BY RemoveGood
  <2> HIDE DEF t, k
  <2> QED BY <2>1 DEF Dropped, SameFiles, t
<1>3. ASSUME NEW n \in Nodes(s) \cup {NULL}
      PROVE  SameFiles(s, fs_delete_node(s, n).fs)
  <2> DEFINE t == fs_delete_node(s, n).fs
             u == fs_remove_child(s, s.heap[n].parent, s.heap[n].name).fs
  <2>1. t = s \/ (n # NULL /\ t.heap = u.heap /\ t.memory_offset = u.memory_offset)
    BY DeleteGood
  <2>2. n # NULL => s.heap[n].parent \in Nodes(s) \cup {NULL}
    BY DEF Good, WellTyped
  <2>3. n # NULL => SameFiles(s, u)
    BY <1>2, <2>2
  <2> HIDE DEF t, u
  <2> QED BY <2>1, <2>3 DEF SameFiles, Nodes, t
<1> QED BY <1>1, <1>2, <1>3

(* Every buffer is one of finitely many. *)
LEMMA FiniteBuffers ==
    ASSUME NEW s, Good(s)
    PROVE  IsFiniteSet(Buffers(s)) /\ Cardinality(Buffers(s)) \in Nat
<1>1. Len(s.heap) \in Nat
  BY Types DEF Good
<1>2. IsFiniteSet(1..Len(s.heap))
  BY <1>1, FS_Interval
<1>3. Buffers(s) \in SUBSET (1..Len(s.heap))
  BY DEF Buffers, Nodes
<1>4. IsFiniteSet(Buffers(s))
  BY <1>2, <1>3, FS_Subset
<1> QED BY <1>4, FS_CardinalityType

(* The arithmetic of one more node, and of one more buffer. *)
LEMMA OneMore ==
    ASSUME NEW a \in Nat, NEW b \in Nat, NEW m \in Nat, NEW k \in Nat,
           NEW old \in Nat, NEW new \in Nat, old = a * m + b * k
    PROVE  /\ new - old = a => new = a * (m + 1) + b * k
           /\ new - old = a + b => new = a * (m + 1) + b * (k + 1)
<1>1. a * (m + 1) = a * m + a /\ b * (k + 1) = b * k + b
      /\ a * m \in Nat /\ b * k \in Nat
  OBVIOUS
<1> DEFINE x == a * m
           y == b * k
<1>2. x \in Nat /\ y \in Nat /\ old = x + y
  BY <1>1
<1> HIDE DEF x, y
<1>3. /\ new - old = a => new = (x + a) + y
      /\ new - old = a + b => new = (x + a) + (y + b)
  BY <1>2
<1> QED BY <1>1, <1>3 DEF x, y

(* A cleared buffer is not the null pointer. *)
LEMMA BlankData == [i \in 1..MAX_FILE_SIZE |-> NUL] # NODATA
<1>1. 1 \in DOMAIN [i \in 1..MAX_FILE_SIZE |-> NUL]
  BY SizesAssumption
<1>2. 1 \notin DOMAIN NODATA
  BY DEF NODATA
<1> QED BY <1>1, <1>2

(* fs_create_file accounts for the node and the buffer it cleared. *)
LEMMA CreateFiled ==
    ASSUME NEW s, Good(s), Filed(s), NEW t, Good(t), NEW c, NEW name, NEW type,
           Fresh(s, t, c, name, type)
    PROVE  Filed(t)
<1> DEFINE bytes == t.memory_offset - s.memory_offset
<1>1. /\ NODE_SIZE \in Nat /\ MAX_FILE_SIZE \in Nat /\ MAX_FILE_SIZE > 0
      /\ s.memory_offset \in Nat /\ t.memory_offset \in Nat /\ Len(s.heap) \in Nat
  BY SizesAssumption, Fields, Types DEF Good
<1>2. /\ Len(t.heap) = Len(s.heap) + 1 /\ c \notin Nodes(s)
      /\ Nodes(t) = Nodes(s) \cup {c}
      /\ \A m \in Nodes(s) : t.heap[m] = s.heap[m]
  BY <1>1 DEF Fresh, Nodes
<1>3. IsFiniteSet(Buffers(s)) /\ Cardinality(Buffers(s)) \in Nat
  BY FiniteBuffers
<1>4. t.heap[c].size = 0 /\ Paid(t.heap[c], bytes)
  BY DEF Fresh
<1>5. s.memory_offset = NODE_SIZE * Len(s.heap) + MAX_FILE_SIZE * Cardinality(Buffers(s))
  BY DEF Filed, Exact
<1>8. NoSize(t)
  BY <1>2, <1>4 DEF NoSize, Filed
<1>6. CASE t.heap[c].data = NODATA /\ bytes = NODE_SIZE
  <2>1. Buffers(t) = Buffers(s)
    BY <1>2, <1>6 DEF Buffers
  <2>2. t.memory_offset
          = NODE_SIZE * (Len(s.heap) + 1) + MAX_FILE_SIZE * Cardinality(Buffers(s))
    <3> DEFINE m == Len(s.heap)
               k == Cardinality(Buffers(s))
               old == s.memory_offset
               new == t.memory_offset
    <3>1. new - old = NODE_SIZE
      BY <1>6
    <3>2. m \in Nat /\ k \in Nat /\ old \in Nat /\ new \in Nat
          /\ NODE_SIZE \in Nat /\ MAX_FILE_SIZE \in Nat
          /\ old = NODE_SIZE * m + MAX_FILE_SIZE * k
      BY <1>1, <1>3, <1>5
    <3> HIDE DEF m, k, old, new
    <3>3. new = NODE_SIZE * (m + 1) + MAX_FILE_SIZE * k
      BY <3>1, <3>2, OneMore
    <3> QED BY <3>3 DEF m, k, new
  <2>3. Exact(t)
    BY <1>2, <2>1, <2>2 DEF Exact
  <2>4. \A n \in Buffers(s) : t.heap[n] = s.heap[n]
    BY <1>2 DEF Buffers
  <2>5. Ended(t)
    BY <2>1, <2>4 DEF Ended, Filed
  <2> QED BY <1>8, <2>3, <2>5 DEF Filed
<1>7. CASE /\ t.heap[c].data = [i \in 1..MAX_FILE_SIZE |-> NUL] /\ t.heap[c].type = REGULAR
           /\ bytes = NODE_SIZE + MAX_FILE_SIZE
  <2>1. Buffers(t) = Buffers(s) \cup {c} /\ c \notin Buffers(s)
    BY <1>2, <1>7, BlankData DEF Buffers
  <2>2. Cardinality(Buffers(t)) = Cardinality(Buffers(s)) + 1
    BY <1>3, <2>1, FS_AddElement
  <2>3. t.memory_offset
          = NODE_SIZE * (Len(s.heap) + 1) + MAX_FILE_SIZE * (Cardinality(Buffers(s)) + 1)
    <3> DEFINE m == Len(s.heap)
               k == Cardinality(Buffers(s))
               old == s.memory_offset
               new == t.memory_offset
    <3>1. new - old = NODE_SIZE + MAX_FILE_SIZE
      BY <1>7
    <3>2. m \in Nat /\ k \in Nat /\ old \in Nat /\ new \in Nat
          /\ NODE_SIZE \in Nat /\ MAX_FILE_SIZE \in Nat
          /\ old = NODE_SIZE * m + MAX_FILE_SIZE * k
      BY <1>1, <1>3, <1>5
    <3> HIDE DEF m, k, old, new
    <3>3. new = NODE_SIZE * (m + 1) + MAX_FILE_SIZE * (k + 1)
      BY <3>1, <3>2, OneMore
    <3> QED BY <3>3 DEF m, k, new
  <2>4. Exact(t)
    BY <1>2, <2>2, <2>3 DEF Exact
  <2>5. \A i \in 1..t.heap[c].size : t.heap[c].data[i] # NUL
    BY <1>4
  <2>6. t.heap[c].data[MAX_FILE_SIZE] = NUL
    BY <1>1, <1>7
  <2>7. \A n \in Buffers(s) : t.heap[n] = s.heap[n]
    BY <1>2 DEF Buffers
  <2>9. t.heap[c].type = REGULAR /\ t.heap[c].size < MAX_FILE_SIZE
    BY <1>1, <1>4, <1>7
  <2>8. Ended(t)
    BY <2>1, <2>5, <2>6, <2>7, <2>9 DEF Ended, Filed
  <2> QED BY <1>8, <2>4, <2>8 DEF Filed
<1> QED BY <1>4, <1>6, <1>7 DEF Paid

(* fs_write_file puts a text in front of the '\0' that ends the buffer. *)
LEMMA WriteFiled ==
    ASSUME NEW s, Good(s), Filed(s), NEW n \in Nodes(s) \cup {NULL},
           NEW text, Storable(text)
    PROVE  Filed(fs_write_file(s, n, text).fs)
<1> DEFINE t == fs_write_file(s, n, text).fs
           size == Min({Len(text), MAX_FILE_SIZE})
<1>1. text \in Seq(Char) /\ text \in Seq(Char \cup {NUL}) /\ Len(text) \in Nat
      /\ Len(text) < MAX_FILE_SIZE /\ MAX_FILE_SIZE \in Nat
  BY SeqMonotonic, SizesAssumption DEF Storable
<1>2. /\ Good(t)
      /\ IF HasData(s, n) THEN Written(s, t, n, text) ELSE t = s
  BY <1>1, WriteGood
<1> HIDE DEF t
<1>3. CASE ~HasData(s, n)
  BY <1>2, <1>3 DEF t
<1>4. CASE HasData(s, n)
  <2>1. n \in Nodes(s) /\ n \in Buffers(s)
    BY <1>4 DEF HasData, Buffers
  <2>2. size = Len(text)
    <3>1. Len(text) <= MAX_FILE_SIZE
      BY <1>1
    <3> QED BY <1>1, <3>1, MinPair
  <2> HIDE DEF size
  <2> DEFINE data == [i \in 1..MAX_FILE_SIZE |->
                        IF i <= size THEN text[i] ELSE s.heap[n].data[i]]
  <2>3. /\ Nodes(t) = Nodes(s) /\ t.memory_offset = s.memory_offset
        /\ \A m \in Nodes(s) : m # n => t.heap[m] = s.heap[m]
        /\ t.heap[n].size = size /\ t.heap[n].data = data
    BY <1>2, <1>4 DEF Written, size
  <2>12. \A m \in Nodes(s) : t.heap[m].type = s.heap[m].type
    BY <1>2, <1>4 DEF Written
  <2>4. data # NODATA
    <3>1. 1 \in DOMAIN data
      BY SizesAssumption
    <3>2. 1 \notin DOMAIN NODATA
      BY DEF NODATA
    <3> QED BY <3>1, <3>2
  <2>5. data[MAX_FILE_SIZE] = NUL
    <3>1. s.heap[n].data[MAX_FILE_SIZE] = NUL
      BY <2>1 DEF Filed, Ended
    <3> QED BY <1>1, <2>2, <3>1, SizesAssumption
  <2>6. \A i \in 1..size : data[i] # NUL
    <3>1. ASSUME NEW i \in 1..size PROVE data[i] = text[i] /\ text[i] \in Char
      BY <1>1, <2>2
    <3> QED BY <3>1, CharAssumption
  <2> HIDE DEF data
  <2>7. Buffers(t) = Buffers(s)
    BY <2>1, <2>3, <2>4 DEF Buffers
  <2>8. Len(t.heap) = Len(s.heap)
    <3>1. Len(t.heap) \in Nat /\ Len(s.heap) \in Nat
      BY <1>2, Types DEF Good
    <3>2. 1..Len(t.heap) = 1..Len(s.heap)
      BY <2>3 DEF Nodes
    <3> QED BY <3>1, <3>2, SameLength
  <2>9. Exact(t)
    BY <2>3, <2>7, <2>8 DEF Exact, Filed
  <2>10. ASSUME NEW m \in Buffers(t)
         PROVE  /\ t.heap[m].type = REGULAR
                /\ t.heap[m].data[MAX_FILE_SIZE] = NUL
                /\ t.heap[m].size < MAX_FILE_SIZE
                /\ \A i \in 1..t.heap[m].size : t.heap[m].data[i] # NUL
    <3>1. m \in Nodes(s) /\ m \in Buffers(s)
      BY <2>7 DEF Buffers
    <3>2. CASE m = n
      <4>1. t.heap[m].size < MAX_FILE_SIZE
        BY <1>1, <2>2, <2>3, <3>2
      <4>2. s.heap[m].type = REGULAR /\ t.heap[m].type = s.heap[m].type
        <5>1. s.heap[m].type = REGULAR
          BY <3>1 DEF Filed, Ended
        <5> QED BY <2>12, <3>1, <5>1
      <4> QED BY <2>3, <2>5, <2>6, <3>2, <4>1, <4>2
    <3>3. CASE m # n
      <4>1. t.heap[m] = s.heap[m]
        BY <2>3, <3>1, <3>3
      <4> QED BY <3>1, <4>1 DEF Filed, Ended
    <3> QED BY <3>2, <3>3
  <2>11. Ended(t)
    BY <2>10 DEF Ended
  <2>13. NoSize(t)
    BY <2>1, <2>3, <2>4 DEF NoSize, Filed
  <2> QED BY <2>9, <2>11, <2>13 DEF Filed, t
<1> QED BY <1>3, <1>4

-------------------------------------------------------------------------------
(* A new node, before and after it is entered in a directory. *)

(* c is new and in no directory; the other nodes are as they were. *)
Loose(s, t, c, type) ==
    /\ Good(t)
    /\ c = Len(s.heap) + 1 /\ c \notin Nodes(s) /\ c # ROOT /\ c # NULL
    /\ Nodes(t) = Nodes(s) \cup {c}
    /\ \A m \in Nodes(s) : t.heap[m] = s.heap[m]
    /\ t.heap[c].parent = NULL
    /\ t.heap[c].children = << >>
    /\ t.heap[c].type = type
    /\ t.current_dir = s.current_dir

(* c is new and in dir; nothing else has been linked or unlinked, and no   *)
(* other file touched.                                                     *)
Grown(s, t, dir, c, type) ==
    /\ Good(t)
    /\ c = Len(s.heap) + 1 /\ c \notin Nodes(s) /\ c # ROOT /\ c # NULL
    /\ Nodes(t) = Nodes(s) \cup {c}
    /\ dir \in Attached(s) /\ s.heap[dir].type = DIRECTORY
    /\ \A m \in Nodes(s) :
         /\ t.heap[m].name = s.heap[m].name
         /\ t.heap[m].type = s.heap[m].type
         /\ t.heap[m].size = s.heap[m].size
         /\ t.heap[m].data = s.heap[m].data
         /\ t.heap[m].parent = s.heap[m].parent
         /\ t.heap[m].children = IF m = dir THEN Append(s.heap[dir].children, c)
                                 ELSE s.heap[m].children
    /\ t.heap[c].parent = dir
    /\ t.heap[c].children = << >>
    /\ t.heap[c].type = type
    /\ t.current_dir = s.current_dir
    /\ t.total_files = s.total_files + 1

(* What fs_create_file makes is loose. *)
LEMMA FreshLoose ==
    ASSUME NEW s, Good(s), NEW t, Good(t), NEW c, NEW name, NEW type,
           Fresh(s, t, c, name, type)
    PROVE  Loose(s, t, c, type)
<1>1. Len(s.heap) \in Nat
  BY Types DEF Good
<1>2. c = Len(s.heap) + 1 /\ Len(t.heap) = c
  BY DEF Fresh
<1>3. c \notin Nodes(s) /\ Nodes(t) = Nodes(s) \cup {c}
  BY <1>1, <1>2 DEF Nodes
<1> QED BY <1>3 DEF Fresh, Loose

(* A loose node is fit for fs_add_child, in a directory of old. *)
LEMMA LooseFit ==
    ASSUME NEW s, Good(s), NEW t, NEW c, NEW type, Loose(s, t, c, type)
    PROVE  /\ c \in Nodes(t) \ {ROOT} /\ t.heap[c].parent = NULL
           /\ \A m \in Nodes(t) : m <= c
           /\ Attached(s) \subseteq Attached(t)
<1>1. Len(s.heap) \in Nat
  BY Types DEF Good
<1>2. \A m \in Nodes(t) : m <= c
  BY <1>1 DEF Loose, Nodes
<1> QED BY <1>2 DEF Loose, Attached

(* Writing into a loose node leaves it loose. *)
LEMMA LooseWrite ==
    ASSUME NEW s, Good(s), NEW u, NEW c, NEW type, Loose(s, u, c, type),
           NEW text \in Seq(Char \cup {NUL})
    PROVE  /\ Loose(s, fs_write_file(u, c, text).fs, c, type)
           /\ fs_write_file(u, c, text).fs.total_files = u.total_files
<1> DEFINE t == fs_write_file(u, c, text).fs
<1>1. c \in Nodes(u) /\ Good(u)
  BY DEF Loose
<1>2. Good(t) /\ (t = u \/ Written(u, t, c, text))
  BY <1>1, WriteGood
<1> HIDE DEF t
<1>3. CASE t = u
  BY <1>3 DEF t
<1>4. CASE Written(u, t, c, text)
  <2>1. /\ Nodes(t) = Nodes(u) /\ t.current_dir = u.current_dir
        /\ t.total_files = u.total_files
        /\ \A m \in Nodes(u) :
             /\ m # c => t.heap[m] = u.heap[m]
             /\ t.heap[m].type = u.heap[m].type
             /\ t.heap[m].parent = u.heap[m].parent
             /\ t.heap[m].children = u.heap[m].children
    BY <1>4 DEF Written
  <2> QED BY <1>1, <1>2, <2>1 DEF Loose, t
<1> QED BY <1>2, <1>3, <1>4

(* fs_add_child of a loose node: refused, or the tree has grown by it. *)
LEMMA LooseAdd ==
    ASSUME NEW s, Good(s), NEW u, NEW c, NEW type, Loose(s, u, c, type),
           u.total_files = s.total_files + 1,
           NEW dir \in Attached(s) \cup {NULL}
    PROVE  LET r == fs_add_child(u, dir, c)
           IN  \/ r = Result(u, -1)
               \/ /\ r.ret = 0 /\ Grown(s, r.fs, dir, c, type)
                  /\ r.fs.heap[c].name = u.heap[c].name
                  /\ r.fs.heap[c].size = u.heap[c].size
                  /\ r.fs.heap[c].data = u.heap[c].data
<1> DEFINE r == fs_add_child(u, dir, c)
           t == r.fs
<1>1. /\ Good(u) /\ dir \in Attached(u) \cup {NULL}
      /\ c \in Nodes(u) /\ c # ROOT /\ u.heap[c].parent = NULL
      /\ \A m \in Nodes(u) : m <= c
  BY LooseFit DEF Loose
<1>2. \/ r = Result(u, -1)
      \/ r.ret = 0 /\ Good(t) /\ IsDirectory(u, dir) /\ Entered(u, t, dir, c)
  BY <1>1, AddGood
<1> HIDE DEF r, t
<1>3. CASE r = Result(u, -1)
  BY <1>3 DEF r
<1>4. CASE r.ret = 0 /\ Good(t) /\ IsDirectory(u, dir) /\ Entered(u, t, dir, c)
  <2>1. dir \in Attached(s) /\ dir \in Nodes(s) /\ dir # c /\ s.heap[dir].type = DIRECTORY
    BY <1>4 DEF Attached, IsDirectory, Loose
  <2>2. /\ Nodes(t) = Nodes(u) /\ t.current_dir = u.current_dir
        /\ t.total_files = u.total_files
        /\ \A m \in Nodes(u) :
             /\ t.heap[m].name = u.heap[m].name
             /\ t.heap[m].type = u.heap[m].type
             /\ t.heap[m].size = u.heap[m].size
             /\ t.heap[m].data = u.heap[m].data
             /\ t.heap[m].parent = IF m = c THEN dir ELSE u.heap[m].parent
             /\ t.heap[m].children = IF m = dir THEN Append(u.heap[dir].children, c)
                                     ELSE u.heap[m].children
    BY <1>4 DEF Entered
  <2>3. /\ Nodes(u) = Nodes(s) \cup {c} /\ c \notin Nodes(s)
        /\ \A m \in Nodes(s) : u.heap[m] = s.heap[m]
        /\ u.heap[c].children = << >> /\ u.heap[c].type = type
        /\ u.current_dir = s.current_dir
        /\ c = Len(s.heap) + 1 /\ c # ROOT /\ c # NULL
    BY DEF Loose
  <2>4. \A m \in Nodes(s) :
         /\ t.heap[m].name = s.heap[m].name
         /\ t.heap[m].type = s.heap[m].type
         /\ t.heap[m].size = s.heap[m].size
         /\ t.heap[m].data = s.heap[m].data
         /\ t.heap[m].parent = s.heap[m].parent
         /\ t.heap[m].children = IF m = dir THEN Append(s.heap[dir].children, c)
                                 ELSE s.heap[m].children
    BY <2>1, <2>2, <2>3
  <2>5. /\ t.heap[c].parent = dir /\ t.heap[c].children = << >> /\ t.heap[c].type = type
        /\ t.heap[c].name = u.heap[c].name /\ t.heap[c].size = u.heap[c].size
        /\ t.heap[c].data = u.heap[c].data
    BY <2>1, <2>2, <2>3
  <2>6. Grown(s, t, dir, c, type)
    BY <1>4, <2>1, <2>2, <2>3, <2>4, <2>5 DEF Grown
  <2> QED BY <1>4, <2>5, <2>6 DEF t, r
<1> QED BY <1>2, <1>3, <1>4

(* fs_delete_node of a loose node finds nothing to unlink: it counts down. *)
LEMMA LooseDelete ==
    ASSUME NEW s, Good(s), NEW u, NEW c, NEW type, Loose(s, u, c, type),
           u.total_files = s.total_files + 1
    PROVE  LET t == fs_delete_node(u, c).fs
           IN  Loose(s, t, c, type) /\ t.total_files = s.total_files /\ t.heap = u.heap
<1> DEFINE t == fs_delete_node(u, c).fs
           v == fs_remove_child(u, u.heap[c].parent, u.heap[c].name).fs
<1>1. c \in Nodes(u) /\ Good(u) /\ c \notin {NULL, ROOT} /\ u.heap[c].children = << >>
      /\ u.heap[c].parent = NULL
  BY DEF Loose
<1>2. v = u
  BY <1>1 DEF fs_remove_child, IsDirectory, Result
<1>3. /\ Good(t) /\ SameLinks(u, t) /\ t.heap = v.heap
      /\ t.total_files = (v.total_files + SIZE_RANGE - 1) % SIZE_RANGE
  BY <1>1, DeleteGood
<1> HIDE DEF t, v
<1>4. t.total_files = s.total_files
  <2> DEFINE k == s.total_files
  <2>1. k \in Nat /\ k < SIZE_RANGE /\ SIZE_RANGE \in Nat
    BY Fields, SizesAssumption
  <2>2. t.total_files = ((k + 1) + SIZE_RANGE - 1) % SIZE_RANGE
    BY <1>2, <1>3
  <2> HIDE DEF k
  <2>3. (k + 1) + SIZE_RANGE - 1 = k + SIZE_RANGE
    BY <2>1
  <2>4. (k + SIZE_RANGE) % SIZE_RANGE = k
    BY <2>1
  <2> QED BY <2>2, <2>3, <2>4 DEF k
<1>5. t.heap = u.heap /\ Nodes(t) = Nodes(u) /\ t.current_dir = u.current_dir
  BY <1>2, <1>3 DEF SameLinks
<1> QED BY <1>3, <1>4, <1>5 DEF Loose, t

(* Writing into the new file links and unlinks nothing. *)
LEMMA GrownWrite ==
    ASSUME NEW s, Good(s), NEW u, NEW dir, NEW c, NEW type, Grown(s, u, dir, c, type),
           NEW text \in Seq(Char \cup {NUL})
    PROVE  Grown(s, fs_write_file(u, c, text).fs, dir, c, type)
<1> DEFINE t == fs_write_file(u, c, text).fs
<1>1. c \in Nodes(u) /\ Good(u) /\ Nodes(u) = Nodes(s) \cup {c} /\ c \notin Nodes(s)
  BY DEF Grown
<1>2. Good(t) /\ (t = u \/ Written(u, t, c, text))
  BY <1>1, WriteGood
<1> HIDE DEF t
<1>3. CASE t = u
  BY <1>3 DEF t
<1>4. CASE Written(u, t, c, text)
  <2>1. /\ Nodes(t) = Nodes(u) /\ t.current_dir = u.current_dir
        /\ t.total_files = u.total_files
        /\ \A m \in Nodes(s) : t.heap[m] = u.heap[m]
        /\ t.heap[c].type = u.heap[c].type
        /\ t.heap[c].parent = u.heap[c].parent
        /\ t.heap[c].children = u.heap[c].children
    BY <1>1, <1>4 DEF Written
  <2> QED BY <1>1, <1>2, <2>1 DEF Grown, t
<1> QED BY <1>2, <1>3, <1>4

(* A new node, loose or entered, leaves everything where it was. *)
LEMMA NewExtends ==
    ASSUME NEW s, Good(s), NEW t, NEW dir, NEW c, NEW type,
           Loose(s, t, c, type) \/ Grown(s, t, dir, c, type)
    PROVE  Extends(s, t) /\ t.current_dir = s.current_dir
<1>1. CASE Loose(s, t, c, type)
  BY <1>1 DEF Loose, Extends
<1>2. CASE Grown(s, t, dir, c, type)
  <2>1. /\ Good(t) /\ t.current_dir = s.current_dir
        /\ \A m \in Nodes(s) :
             /\ m \in Nodes(t)
             /\ t.heap[m].name = s.heap[m].name
             /\ t.heap[m].type = s.heap[m].type
             /\ t.heap[m].parent = s.heap[m].parent
             /\ t.heap[m].children = IF m = dir THEN Append(s.heap[dir].children, c)
                                     ELSE s.heap[m].children
    BY <1>2 DEF Grown
  <2>2. ASSUME NEW m \in Nodes(s), NEW i \in DOMAIN s.heap[m].children
        PROVE  /\ i \in DOMAIN t.heap[m].children
               /\ t.heap[m].children[i] = s.heap[m].children[i]
    <3>1. CASE m # dir
      BY <2>1, <3>1
    <3>2. CASE m = dir
      <4> DEFINE e == s.heap[m].children
      <4>1. e \in Seq(Nodes(s)) /\ t.heap[m].children = Append(e, c) /\ i \in DOMAIN e
        BY <2>1, <3>2 DEF Good, WellTyped
      <4> HIDE DEF e
      <4>2. i \in DOMAIN Append(e, c) /\ Append(e, c)[i] = e[i]
        BY <4>1
      <4> QED BY <4>1, <4>2 DEF e
    <3> QED BY <3>1, <3>2
  <2> QED BY <2>1, <2>2 DEF Extends
<1> QED BY <1>1, <1>2

(* The parent part of a path is a path. *)
LEMMA ParentPathString ==
    ASSUME NEW path \in String, path # << >>
    PROVE  /\ fs_get_parent_path(path) \in String
           /\ fs_get_parent_path(path) # << >>
<1>1. path \in Seq(Segment) /\ Len(path) \in Nat /\ Len(path) > 0
  BY DEF String
<1>2. CASE Len(path) = 1 \/ (Len(path) = 2 /\ path[1] = EMPTY)
  <2>1. fs_get_parent_path(path) = <<EMPTY, EMPTY>>
    BY <1>2 DEF fs_get_parent_path
  <2>2. <<EMPTY, EMPTY>> \in Seq(Segment) /\ <<EMPTY, EMPTY>> # << >>
    BY DEF Segment
  <2> QED BY <2>1, <2>2 DEF String
<1>3. CASE ~(Len(path) = 1 \/ (Len(path) = 2 /\ path[1] = EMPTY))
  <2>1. fs_get_parent_path(path) = SubSeq(path, 1, Len(path) - 1)
    BY <1>3 DEF fs_get_parent_path, Front
  <2>2. Len(path) - 1 \in Nat /\ Len(path) - 1 > 0
    <3> DEFINE k == Len(path)
    <3>1. k \in Nat /\ k > 0 /\ k # 1
      BY <1>1, <1>3
    <3> HIDE DEF k
    <3>2. k - 1 \in Nat /\ k - 1 > 0
      BY <3>1
    <3> QED BY <3>2 DEF k
  <2>3. SubSeq(path, 1, Len(path) - 1) \in Seq(Segment)
        /\ Len(SubSeq(path, 1, Len(path) - 1)) = Len(path) - 1
    BY <1>1, <2>2
  <2>4. SubSeq(path, 1, Len(path) - 1) # << >>
    BY <2>2, <2>3, EmptySeq
  <2> QED BY <2>1, <2>3, <2>4 DEF String
<1> QED BY <1>2, <1>3

(* The new file holds the text of the file src, as far as it has a buffer. *)
SameText(s, src, t, c) ==
    t.heap[c].data # NODATA =>
        /\ t.heap[c].size = s.heap[src].size
        /\ \A i \in 1..s.heap[src].size : t.heap[c].data[i] = s.heap[src].data[i]

(* The bytes fs_copy_file takes from a file make up a text. *)
LEMMA SourceText ==
    ASSUME NEW s, Good(s), NEW src \in Nodes(s), s.heap[src].data # NODATA
    PROVE  LET text == SubSeq(s.heap[src].data, 1, s.heap[src].size)
           IN  /\ text \in Seq(Char \cup {NUL})
               /\ Len(text) = s.heap[src].size /\ s.heap[src].size \in Nat
               /\ s.heap[src].size <= MAX_FILE_SIZE
               /\ \A i \in 1..s.heap[src].size : text[i] = s.heap[src].data[i]
               /\ Filed(s) => Storable(text)
<1> DEFINE d == s.heap[src].data
           k == s.heap[src].size
           text == SubSeq(d, 1, k)
<1>1. s.heap[src] \in fs_node_t
  BY Types DEF Good
<1>2. d \in Buffer /\ k \in Nat
  BY <1>1 DEF fs_node_t
<1>3. k <= MAX_FILE_SIZE /\ MAX_FILE_SIZE \in Nat
  BY SizesAssumption DEF Good, WellTyped
<1>4. Filed(s) => k < MAX_FILE_SIZE /\ \A i \in 1..k : d[i] # NUL
  BY DEF Filed, Ended, Buffers
<1> HIDE DEF d, k
<1>5. \A i \in 1..k : d[i] \in Char \cup {NUL}
  BY <1>2, <1>3 DEF Buffer
<1>6. text \in Seq(Char \cup {NUL}) /\ Len(text) = k /\ \A i \in 1..k : text[i] = d[i]
  <2>1. \A i \in 1..k : d[i] \in Char \cup {NUL}
    BY <1>5
  <2> QED BY <1>2, <2>1, SubSeqProperties
<1> HIDE DEF text
<1>7. ASSUME Filed(s) PROVE Storable(text)
  <2>1. \A i \in 1..Len(text) : text[i] \in Char
    BY <1>4, <1>5, <1>6, <1>7
  <2>2. text \in Seq(Char)
    BY <1>6, <2>1
  <2> QED BY <1>4, <1>6, <1>7, <2>2 DEF Storable
<1> QED BY <1>2, <1>3, <1>6, <1>7 DEF d, k, text

(* What fs_copy_file has made before it looks for the directory. *)
LEMMA CopyMade ==
    ASSUME NEW s, Good(s), NEW src \in Nodes(s), NEW name, Truncate(name) \in String,
           fs_create_file(s, name, REGULAR).ret # NULL
    PROVE  LET dest == fs_create_file(s, name, REGULAR)
               c == Len(s.heap) + 1
               text == SubSeq(s.heap[src].data, 1, s.heap[src].size)
               w == IF s.heap[src].data # NODATA /\ s.heap[src].size > 0
                    THEN fs_write_file(dest.fs, dest.ret, text).fs
                    ELSE dest.fs
           IN  /\ dest.ret = c
               /\ Loose(s, w, c, REGULAR) /\ w.total_files = s.total_files + 1
               /\ Filed(s) => Filed(w) /\ SameText(s, src, w, c)
<1> DEFINE dest == fs_create_file(s, name, REGULAR)
           u == dest.fs
           c == Len(s.heap) + 1
           text == SubSeq(s.heap[src].data, 1, s.heap[src].size)
           has == s.heap[src].data # NODATA /\ s.heap[src].size > 0
           w == IF has THEN fs_write_file(u, c, text).fs ELSE u
<1>1. Good(u) /\ Fresh(s, u, dest.ret, name, REGULAR)
  <2>1. \/ dest = Result(s, NULL)
        \/ Good(u) /\ Fresh(s, u, dest.ret, name, REGULAR)
    BY CreateGood
  <2> HIDE DEF dest
  <2> QED BY <2>1 DEF Result, dest
<1> HIDE DEF dest
<1>2. dest.ret = c /\ Fresh(s, u, c, name, REGULAR)
  BY <1>1 DEF Fresh
<1>3. /\ u.total_files = s.total_files + 1 /\ u.heap[c].size = 0
      /\ u.heap[c].data \in {NODATA, [i \in 1..MAX_FILE_SIZE |-> NUL]}
      /\ u.heap[c].type = REGULAR
  BY <1>2 DEF Fresh, Paid
<1>4. Loose(s, u, c, REGULAR)
  BY <1>1, <1>2, FreshLoose
<1>5. Filed(s) => Filed(u)
  BY <1>1, <1>2, CreateFiled
<1>6. c \in Nodes(u) /\ c # NULL
  BY <1>4 DEF Loose
<1> HIDE DEF u, c, text
<1>7. CASE has
  <2>1. /\ text \in Seq(Char \cup {NUL})
        /\ Len(text) = s.heap[src].size /\ s.heap[src].size \in Nat
        /\ s.heap[src].size <= MAX_FILE_SIZE
        /\ \A i \in 1..s.heap[src].size : text[i] = s.heap[src].data[i]
        /\ Filed(s) => Storable(text)
    BY <1>7, SourceText DEF text
  <2>2. w = fs_write_file(u, c, text).fs
    BY <1>7
  <2> HIDE DEF w, has
  <2>3. Loose(s, w, c, REGULAR) /\ w.total_files = s.total_files + 1
    BY <1>3, <1>4, <2>1, <2>2, LooseWrite
  <2>4. Filed(s) => Filed(w)
    BY <1>1, <1>5, <1>6, <2>1, <2>2, WriteFiled
  <2>5. SameText(s, src, w, c)
    <3>1. IF HasData(u, c) THEN Written(u, w, c, text) ELSE w = u
      BY <1>1, <1>6, <2>1, <2>2, WriteGood
    <3>2. CASE ~HasData(u, c)
      BY <1>3, <1>6, <3>1, <3>2 DEF SameText, HasData
    <3>3. CASE HasData(u, c)
      <4> DEFINE size == Min({Len(text), MAX_FILE_SIZE})
      <4>1. size = Len(text)
        <5>1. Len(text) \in Nat /\ MAX_FILE_SIZE \in Nat /\ Len(text) <= MAX_FILE_SIZE
          BY <2>1, SizesAssumption
        <5> QED BY <5>1, MinPair
      <4>2. /\ w.heap[c].size = size
            /\ w.heap[c].data = [i \in 1..MAX_FILE_SIZE |->
                                   IF i <= size THEN text[i] ELSE u.heap[c].data[i]]
        BY <3>1, <3>3 DEF Written
      <4> HIDE DEF size
      <4>3. ASSUME NEW i \in 1..s.heap[src].size
            PROVE  w.heap[c].data[i] = s.heap[src].data[i]
        <5>1. i \in 1..MAX_FILE_SIZE /\ i <= size
          BY <2>1, <4>1, SizesAssumption
        <5>2. w.heap[c].data[i] = text[i]
          BY <4>2, <5>1
        <5> QED BY <2>1, <5>2
      <4> QED BY <2>1, <4>1, <4>2, <4>3 DEF SameText
    <3> QED BY <3>2, <3>3
  <2> QED BY <1>2, <2>3, <2>4, <2>5 DEF w, has, u, c, text, dest
<1>8. CASE ~has
  <2>1. w = u
    BY <1>8
  <2>2. ASSUME Filed(s) PROVE SameText(s, src, u, c)
    <3>1. s.heap[src].size \in Nat
      <4>1. s.heap[src] \in fs_node_t
        BY Types DEF Good
      <4> QED BY <4>1 DEF fs_node_t
    <3>2. s.heap[src].size = 0
      BY <1>8, <2>2, <3>1 DEF Filed, NoSize
    <3> QED BY <1>3, <3>2 DEF SameText
  <2> HIDE DEF w, has
  <2> QED BY <1>2, <1>3, <1>4, <1>5, <2>1, <2>2 DEF w, has, u, c, text, dest
<1> QED BY <1>7, <1>8

(* fs_copy_file, its error paths too: nothing, a new node that stays loose *)
(* and is not counted, or a new file with the source's text.               *)
LEMMA CopyShape ==
    ASSUME NEW s, Good(s), NEW p \in String, p # << >>, NEW q \in String, q # << >>,
           Truncate(<<Last(q)>>) \in String
    PROVE  LET r == fs_copy_file(s, p, q)
               src == fs_resolve_path(s, p)
               dir == fs_resolve_path(s, fs_get_parent_path(q))
               c == Len(s.heap) + 1
           IN  /\ \/ r = Result(s, -1)
                  \/ /\ r.ret = -1
                     /\ Loose(s, r.fs, c, REGULAR) /\ r.fs.total_files = s.total_files
                  \/ /\ r.ret = 0
                     /\ Grown(s, r.fs, dir, c, REGULAR)
                     /\ src \in Attached(s) /\ ~IsDirectory(s, src)
                     /\ Filed(s) => SameText(s, src, r.fs, c)
               /\ Filed(s) => Filed(r.fs)
<1> DEFINE r == fs_copy_file(s, p, q)
           src == fs_resolve_path(s, p)
           dir == fs_resolve_path(s, fs_get_parent_path(q))
           c == Len(s.heap) + 1
           dest == fs_create_file(s, fs_get_filename(q), REGULAR)
           text == SubSeq(s.heap[src].data, 1, s.heap[src].size)
           has == s.heap[src].data # NODATA /\ s.heap[src].size > 0
           w == IF has THEN fs_write_file(dest.fs, dest.ret, text).fs ELSE dest.fs
           added == fs_add_child(w, dir, dest.ret)
           refused == \/ src = NULL \/ IsDirectory(s, src)
                      \/ ~IsDirectory(s, dir)
                      \/ dest.ret = NULL
<1>1. r = IF refused THEN Result(s, -1)
          ELSE IF added.ret # 0 THEN Result(fs_delete_node(added.fs, dest.ret).fs, -1)
          ELSE Result(added.fs, 0)
  BY DEF fs_copy_file
<1>2. src \in Attached(s) \cup {NULL}
  BY ResolveAttached
<1>3. dir \in Attached(s) \cup {NULL}
  BY ParentPathString, ResolveAttached
<1>4. ASSUME src \in Nodes(s), dest.ret # NULL
      PROVE  /\ dest.ret = c
             /\ Loose(s, w, c, REGULAR) /\ w.total_files = s.total_files + 1
             /\ Filed(s) => Filed(w) /\ SameText(s, src, w, c)
  BY <1>4, CopyMade DEF fs_get_filename
<1> HIDE DEF src, dir, dest, added, r, w
<1>5. CASE refused
  <2> HIDE DEF refused
  <2> QED BY <1>1, <1>5 DEF Result, r
<1>6. CASE ~refused
  <2>1. src \in Attached(s) /\ src \in Nodes(s) /\ ~IsDirectory(s, src) /\ dest.ret # NULL
    BY <1>2, <1>6 DEF Attached
  <2> HIDE DEF refused
  <2>2. /\ dest.ret = c
        /\ Loose(s, w, c, REGULAR) /\ w.total_files = s.total_files + 1
        /\ Filed(s) => Filed(w) /\ SameText(s, src, w, c)
    BY <1>4, <2>1
  <2> HIDE DEF c
  <2>3. \/ added = Result(w, -1)
        \/ /\ added.ret = 0 /\ Grown(s, added.fs, dir, c, REGULAR)
           /\ added.fs.heap[c].size = w.heap[c].size
           /\ added.fs.heap[c].data = w.heap[c].data
    BY <1>3, <2>2, LooseAdd DEF added
  <2>4. Good(w) /\ SameFiles(w, added.fs)
    <3>1. Good(w) /\ dir \in Attached(w) \cup {NULL}
          /\ c \in Nodes(w) \ {ROOT} /\ w.heap[c].parent = NULL
          /\ \A m \in Nodes(w) : m <= c
      BY <1>3, <2>2, LooseFit DEF Loose
    <3> QED BY <2>2, <3>1, LinksOnly DEF added
  <2>5. CASE added.ret = 0
    <3>1. Grown(s, added.fs, dir, c, REGULAR) /\ r = Result(added.fs, 0)
      BY <1>1, <1>6, <2>3, <2>5 DEF Result
    <3>2. Filed(s) => Filed(added.fs)
      BY <2>2, <2>4, <3>1, SameFiled DEF Grown
    <3>3. Filed(s) => SameText(s, src, added.fs, c)
      BY <2>2, <2>3, <2>5 DEF SameText, Result
    <3>4. r.fs = added.fs /\ r.ret = 0
      BY <3>1 DEF Result
    <3> QED BY <2>1, <3>1, <3>2, <3>3, <3>4 DEF r, src, dir, c
  <2>6. CASE added.ret # 0
    <3>1. added.fs = w
      BY <2>3, <2>6 DEF Result
    <3> DEFINE t == fs_delete_node(w, c).fs
    <3>2. r.fs = t /\ r.ret = -1
      BY <1>1, <1>6, <2>2, <2>6, <3>1 DEF Result
    <3>3. Loose(s, t, c, REGULAR) /\ t.total_files = s.total_files
      BY <2>2, LooseDelete
    <3>4. SameFiles(w, t) /\ Good(t)
      BY <2>2, <2>4, <3>3, LinksOnly DEF Loose
    <3> HIDE DEF t
    <3>5. Filed(s) => Filed(t)
      BY <2>2, <2>4, <3>4, SameFiled
    <3> QED BY <3>2, <3>3, <3>5 DEF r, c
  <2> QED BY <2>5, <2>6
<1> QED BY <1>5, <1>6

(* fs_copy_file keeps the tree. *)
LEMMA CopyGood ==
    ASSUME NEW s, Good(s), NEW p \in String, p # << >>, NEW q \in String, q # << >>,
           Truncate(<<Last(q)>>) \in String
    PROVE  Good(fs_copy_file(s, p, q).fs)
<1> DEFINE r == fs_copy_file(s, p, q)
           dir == fs_resolve_path(s, fs_get_parent_path(q))
           c == Len(s.heap) + 1
<1>1. \/ r = Result(s, -1)
      \/ Loose(s, r.fs, c, REGULAR)
      \/ Grown(s, r.fs, dir, c, REGULAR)
  BY CopyShape
<1> HIDE DEF r
<1> QED BY <1>1 DEF Result, Loose, Grown, r

(* fs_move_file, which looks the source up again after the copy. *)
LEMMA MoveGood ==
    ASSUME NEW s, Good(s), NEW p \in String, p # << >>, NEW q \in String, q # << >>,
           Truncate(<<Last(q)>>) \in String
    PROVE  /\ Good(fs_move_file(s, p, q).fs)
           /\ Filed(s) => Filed(fs_move_file(s, p, q).fs)
<1> DEFINE t == fs_copy_file(s, p, q).fs
           n == fs_resolve_path(t, p)
<1>1. Good(t) /\ (Filed(s) => Filed(t))
  BY CopyGood, CopyShape
<1> HIDE DEF t
<1>2. n \in Nodes(t) \cup {NULL}
  BY <1>1, ResolveAttached DEF Attached
<1> HIDE DEF n
<1>3. Good(fs_delete_node(t, n).fs) /\ SameFiles(t, fs_delete_node(t, n).fs)
  BY <1>1, <1>2, DeleteGood, LinksOnly
<1>4. Filed(s) => Filed(fs_delete_node(t, n).fs)
  BY <1>1, <1>3, SameFiled
<1>5. fs_move_file(s, p, q).fs \in {t, fs_delete_node(t, n).fs}
  BY DEF fs_move_file, Result, t, n
<1> QED BY <1>1, <1>3, <1>4, <1>5

(* fs_move_file finds the source where it was before the copy. *)
LEMMA MoveShape ==
    ASSUME NEW s, Good(s), NEW p \in String, p # << >>, NEW q \in String, q # << >>,
           Truncate(<<Last(q)>>) \in String
    PROVE  LET r == fs_move_file(s, p, q)
               t == fs_copy_file(s, p, q).fs
               src == fs_resolve_path(s, p)
               dir == fs_resolve_path(s, fs_get_parent_path(q))
               c == Len(s.heap) + 1
           IN  \/ r = Result(s, -1)
               \/ /\ r.ret = -1
                  /\ Loose(s, r.fs, c, REGULAR) /\ r.fs.total_files = s.total_files
               \/ /\ r = Result(fs_delete_node(t, src).fs, 0)
                  /\ Grown(s, t, dir, c, REGULAR)
                  /\ src \in Attached(s) /\ ~IsDirectory(s, src)
                  /\ Filed(s) => SameText(s, src, t, c)
<1> DEFINE r == fs_move_file(s, p, q)
           copy == fs_copy_file(s, p, q)
           t == copy.fs
           src == fs_resolve_path(s, p)
           dir == fs_resolve_path(s, fs_get_parent_path(q))
           c == Len(s.heap) + 1
           again == fs_resolve_path(t, p)
<1>1. r = IF copy.ret = 0 /\ again # NULL
          THEN Result(fs_delete_node(t, again).fs, 0)
          ELSE Result(t, -1)
  BY DEF fs_move_file
<1>2. \/ copy = Result(s, -1)
      \/ /\ copy.ret = -1
         /\ Loose(s, t, c, REGULAR) /\ t.total_files = s.total_files
      \/ /\ copy.ret = 0
         /\ Grown(s, t, dir, c, REGULAR)
         /\ src \in Attached(s) /\ ~IsDirectory(s, src)
         /\ Filed(s) => SameText(s, src, t, c)
  BY CopyShape
<1>3. NULL \notin Attached(s)
  BY Types DEF Attached, Good
<1>4. Grown(s, t, dir, c, REGULAR) /\ src # NULL => again = src
  BY NewExtends, ResolveExtends
<1> HIDE DEF r, copy, t, src, dir, c, again
<1>5. CASE copy = Result(s, -1)
  <2>1. copy.ret = -1 /\ t = s
    BY <1>5 DEF Result, t
  <2>2. r = Result(s, -1)
    BY <1>1, <2>1
  <2> QED BY <2>2 DEF r
<1>6. CASE copy.ret = -1 /\ Loose(s, t, c, REGULAR) /\ t.total_files = s.total_files
  <2>1. r = Result(t, -1)
    BY <1>1, <1>6
  <2>2. r.ret = -1 /\ r.fs = t
    BY <2>1 DEF Result
  <2> QED BY <1>6, <2>2 DEF r, c
<1>7. CASE /\ copy.ret = 0
           /\ Grown(s, t, dir, c, REGULAR)
           /\ src \in Attached(s) /\ ~IsDirectory(s, src)
           /\ Filed(s) => SameText(s, src, t, c)
  <2>1. src # NULL
    BY <1>3, <1>7
  <2>2. again = src
    BY <1>4, <1>7, <2>1
  <2>3. r = Result(fs_delete_node(t, src).fs, 0)
    BY <1>1, <1>7, <2>1, <2>2
  <2> QED BY <1>7, <2>3 DEF r, t, copy, src, dir, c
<1> QED BY <1>2, <1>5, <1>6, <1>7

(* The first nodes of a heap that has only grown by a loose one. *)
LEMMA LoosePrefix ==
    ASSUME NEW s, Good(s), NEW t, NEW c, NEW type, Loose(s, t, c, type)
    PROVE  SubSeq(t.heap, 1, Len(s.heap)) = s.heap
<1> DEFINE n == Len(s.heap)
           h == SubSeq(t.heap, 1, n)
<1>1. s.heap \in Seq(fs_node_t) /\ n \in Nat
  BY Types DEF Good
<1>2. t.heap \in Seq(fs_node_t) /\ Len(t.heap) \in Nat
  BY Types DEF Good, Loose
<1>3. \A i \in 1..n : i \in 1..Len(t.heap) /\ t.heap[i] = s.heap[i]
  BY DEF Loose, Nodes
<1>4. n <= Len(t.heap)
  <2>1. CASE n = 0
    BY <1>2, <2>1
  <2>2. CASE n # 0
    <3>1. n \in 1..n
      BY <1>1, <2>2
    <3>2. n \in 1..Len(t.heap)
      BY <1>3, <3>1
    <3> QED BY <1>1, <1>2, <3>2
  <2> QED BY <2>1, <2>2
<1> HIDE DEF n
<1>5. Len(h) = n /\ h \in Seq(fs_node_t) /\ \A i \in 1..n : h[i] = t.heap[i]
  BY <1>1, <1>2, <1>4
<1> HIDE DEF h
<1>6. \A i \in 1..n : h[i] = s.heap[i]
  BY <1>3, <1>5
<1>7. h = s.heap
  BY <1>1, <1>5, <1>6, SeqEqual DEF n
<1> QED BY <1>7 DEF h, n

(* Nor has a heap that has not changed lost anything. *)
LEMMA SamePrefix ==
    ASSUME NEW s, Good(s)
    PROVE  SubSeq(s.heap, 1, Len(s.heap)) = s.heap
<1>1. s.heap \in Seq(fs_node_t)
  BY Types DEF Good
<1> QED BY <1>1

===============================================================================
