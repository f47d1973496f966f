-------------------------------- MODULE Tmpfs --------------------------------
(***************************************************************************)
(* The virtual file system of src/src/vfs.c over the tmpfs of              *)
(* src/src/tmpfs.c: a tree of vnodes in which a path is walked component   *)
(* by component, and the data of files.  A name and a text are sequences   *)
(* of characters; a path is the sequence of names that strtok cuts it      *)
(* into.  A call runs to its end: nothing that can interrupt it uses the   *)
(* file system.                                                            *)
(***************************************************************************)
EXTENDS Integers, Sequences, FiniteSets, FiniteSetsExt, SequencesExt

CONSTANTS Paths,     \* the paths callers use
          Texts,     \* what they write
          Chars,     \* the characters in use
          Entries,   \* the entries of a directory: 16 in the code
          LowSize,   \* a bound on the bytes from address 0 on that are looked at
          MaxNodes,  \* a bound on the vnodes that are made
          MaxFiles   \* a bound on the files that are opened

ASSUME EntriesAssumption == Entries \in Nat \ {0}
ASSUME LowSizeAssumption == LowSize \in Nat \ {0}

VARIABLES node,   \* the vnodes with their tmpfs_data; a directory's entries that
                  \* are in use are the first ones, for nothing is ever removed
          files,  \* the opened files; vfs_close changes nothing
          low,    \* the memory from address 0 on
          wild    \* a function or an address was taken from memory that holds none

vars == <<node, files, low, wild>>

Root == 1
NoNode == 0
NULL == 0
NUL == ""

\* A C string without the '\0' that ends it.
IsString(s) == s \in Seq(ToSet(s)) /\ NUL \notin ToSet(s)
IsName(s) == IsString(s) /\ s # <<>>

\* strtok returns no empty name.
ASSUME PathsAssumption ==
    \A p \in Paths : /\ p \in Seq(ToSet(p)) /\ p # <<>>
                     /\ \A i \in DOMAIN p : IsName(p[i])
ASSUME TextsAssumption == Texts \subseteq Seq(Chars)

-----------------------------------------------------------------------------
(* tmpfs *)

\* The string at address 0, or as much of it as is looked at.
LowString == SubSeq(low, 1, Min({a \in 1 .. LowSize : low[a] = NUL} \cup {LowSize + 1}) - 1)

\* tmpfs_lookup: the first entry of the name, in the vnodes of table.
Child(table, dir, name) ==
    LET hits == {i \in DOMAIN table[dir].entry : table[dir].entry[i].name = name}
    IN  IF hits = {} THEN NoNode ELSE table[dir].entry[Min(hits)].node

NewNode(type) == [type |-> type, entry |-> <<>>, data |-> NULL]

Linked(table, dir, name, type) ==
    Append([table EXCEPT ![dir].entry = Append(@, [name |-> name, node |-> Len(table) + 1])],
           NewNode(type))

\* A mutant: the name is not looked for.
Made_NoCheck(table, dir, name, type) ==
    IF table[dir].type = "file" \/ Len(table[dir].entry) = Entries
    THEN table
    ELSE Linked(table, dir, name, type)

\* A mutant: a directory has one entry too many.
Made_OffByOne(table, dir, name, type) ==
    IF \/ table[dir].type = "file"
       \/ name = <<>> \/ Child(table, dir, name) # NoNode
       \/ Len(table[dir].entry) > Entries
    THEN table
    ELSE Linked(table, dir, name, type)

\* A mutant: the last entry of a full directory is used again.
Made_Overwrites(table, dir, name, type) ==
    IF table[dir].type = "file" \/ name = <<>> \/ Child(table, dir, name) # NoNode
    THEN table
    ELSE IF Len(table[dir].entry) < Entries
    THEN Linked(table, dir, name, type)
    ELSE Linked([table EXCEPT ![dir].entry = Front(@)], dir, name, type)

\* A mutant: the entry leads to the vnode that was made before.
Made_OldNode(table, dir, name, type) ==
    IF \/ table[dir].type = "file"
       \/ name = <<>> \/ Child(table, dir, name) # NoNode
       \/ Len(table[dir].entry) = Entries
    THEN table
    ELSE Append([table EXCEPT ![dir].entry = Append(@, [name |-> name, node |-> Len(table)])],
                NewNode(type))

\* tmpfs_create and tmpfs_mkdir: the vnodes afterwards, the same ones when the
\* name is there, the directory is full or is none.  An unused entry has the
\* empty name.
Made(table, dir, name, type) ==
    IF \/ table[dir].type = "file"
       \/ name = <<>> \/ Child(table, dir, name) # NoNode
       \/ Len(table[dir].entry) = Entries
    THEN table
    ELSE Linked(table, dir, name, type)

-----------------------------------------------------------------------------
(* vfs *)

\* vfs_mkdir, one component: a walk that has come to a file stays there.
Follow(n, name) ==
    IF n = NoNode \/ node[n].type = "file" THEN n ELSE Child(node, n, name)

\* The vnodes that the walk of vfs_mkdir comes to, the first one before any component.
Reach(path) ==
    LET at[k \in 0 .. Len(path)] ==
            IF k = 0 THEN Root ELSE Follow(at[k - 1], path[k])
    IN  at

\* A mutant: vnode_itr lags behind by a component.
MkdirParent_Lags(path, k) == Reach(path)[IF k > 1 THEN k - 2 ELSE 0]

\* The vnode before the component at which the walk of vfs_mkdir ends.
MkdirParent(path, k) == Reach(path)[k - 1]

\* vfs_mkdir: the first component that is missing is made, the ones behind it
\* are not looked at.  When none is missing the name is the null pointer that
\* strtok returned last, and is read as the string at address 0.
VfsMkdir(path) ==
    LET missing == {k \in 1 .. Len(path) : Reach(path)[k] = NoNode}
    IN  /\ node' = IF missing = {}
                   THEN Made(node, Reach(path)[Len(path)], LowString, "directory")
                   ELSE Made(node, MkdirParent(path, Min(missing)), path[Min(missing)], "directory")
        /\ Len(node') <= MaxNodes
        /\ UNCHANGED <<files, low, wild>>

\* A mutant: vfs_open makes the file before it looks for it.
OpenStep_CreatesFirst(s, name) ==
    IF s.at = NoNode \/ s.table[s.at].type = "file" THEN s
    ELSE LET made == IF s.creat THEN Made(s.table, s.at, name, "file") ELSE s.table
         IN  [s EXCEPT !.table = made,
                       !.at = IF made # s.table THEN Len(made)
                              ELSE IF s.creat THEN @
                              ELSE Child(made, @, name)]

\* vfs_open, one component.  A walk that has come to a file stays there.  When a
\* component is neither found nor made, vnode_itr gets what next_node was: the
\* directory itself, or memory that nobody wrote at the first component.
OpenStep(s, name) ==
    IF s.at = NoNode \/ s.table[s.at].type = "file" THEN s
    ELSE IF Child(s.table, s.at, name) # NoNode
    THEN [s EXCEPT !.at = Child(s.table, @, name)]
    ELSE LET made == IF s.creat THEN Made(s.table, s.at, name, "file") ELSE s.table
         IN  [s EXCEPT !.table = made,
                       !.at = IF made # s.table THEN Len(made)
                              ELSE IF @ = Root THEN NoNode ELSE @]

\* The walk of vfs_open: the vnodes and the one it has come to, behind each component.
OpenSteps(path, creat) ==
    LET state[k \in 0 .. Len(path)] ==
            IF k = 0 THEN [table |-> node, at |-> Root, creat |-> creat]
            ELSE OpenStep(state[k - 1], path[k])
    IN  state

OpenWalk(path, creat) == OpenSteps(path, creat)[Len(path)]

VfsOpen(path, creat) ==
    LET end == OpenWalk(path, creat)
    IN  /\ Len(files) < MaxFiles
        /\ node' = end.table
        /\ Len(node') <= MaxNodes
        /\ wild' = (end.at = NoNode)
        /\ files' = IF end.at = NoNode THEN files
                    ELSE Append(files, [vnode |-> end.at, f_pos |-> 0])
        /\ UNCHANGED low

IsFile(f) == node[files[f].vnode].type = "file"

\* The memory after a text and a '\0' were written from address start on.
Written(start, text) ==
    [a \in 1 .. LowSize |->
        IF a \in start + 1 .. start + Len(text) THEN text[a - start]
        ELSE IF a = start + Len(text) + 1 THEN NUL
        ELSE low[a]]

\* vfs_write of a file, with the '\0' behind the text.
VfsWrite(f, text) ==
    LET start == node[files[f].vnode].data + files[f].f_pos
    IN  /\ IsFile(f)
        /\ start + Len(text) < LowSize
        /\ low' = Written(start, text)
        /\ files' = [files EXCEPT ![f].f_pos = @ + Len(text)]
        /\ UNCHANGED <<node, wild>>

\* vfs_read of a file: it reads on behind what was written.
VfsRead(f, len) ==
    /\ IsFile(f)
    /\ files[f].f_pos + len < LowSize
    /\ files' = [files EXCEPT ![f].f_pos = @ + len]
    /\ UNCHANGED <<node, low, wild>>

\* vfs_write or vfs_read of a directory takes the name of its first entry for
\* the address of the data.
UseDirectory(f) ==
    /\ ~IsFile(f)
    /\ wild' = TRUE
    /\ UNCHANGED <<node, files, low>>

-----------------------------------------------------------------------------

\* init_tmpfs; what the memory at address 0 holds is not the program's doing.
Init ==
    /\ node = <<NewNode("directory")>>
    /\ files = <<>>
    /\ low \in [1 .. LowSize -> Chars \cup {NUL}]
    /\ wild = FALSE

Next ==
    /\ ~wild
    /\ \/ \E path \in Paths : VfsMkdir(path)
       \/ \E path \in Paths, creat \in BOOLEAN : VfsOpen(path, creat)
       \/ \E f \in DOMAIN files, text \in Texts : VfsWrite(f, text)
       \/ \E f \in DOMAIN files, text \in Texts : VfsRead(f, Len(text))
       \/ \E f \in DOMAIN files : UseDirectory(f)

Spec == Init /\ [][Next]_vars

-----------------------------------------------------------------------------

TypeOK ==
    /\ \A n \in DOMAIN node :
          /\ node[n].type \in {"directory", "file"}
          /\ node[n].type = "file" => node[n].entry = <<>>
          /\ Len(node[n].entry) <= Entries
          /\ \A i \in DOMAIN node[n].entry :
                node[n].entry[i].node \in DOMAIN node /\ node[n].entry[i].name # <<>>
    /\ \A f \in DOMAIN files : files[f].vnode \in DOMAIN node /\ files[f].f_pos \in 0 .. LowSize
    /\ low \in [1 .. LowSize -> Chars \cup {NUL}]
    /\ wild \in BOOLEAN

Below(table, n, name) ==
    IF n = NoNode \/ table[n].type = "file" THEN NoNode ELSE Child(table, n, name)

\* The vnodes on the way of a path in a table, NoNode when there is none.
Trail(table, path) ==
    LET at[k \in 0 .. Len(path)] ==
            IF k = 0 THEN Root ELSE Below(table, at[k - 1], path[k])
    IN  at

\* The vnode of a path.
Resolve(path) == Trail(node, path)[Len(path)]

\* A directory that a path leads to and that has room.
HasRoom(path) ==
    LET dir == Resolve(path)
    IN  dir # NoNode /\ node[dir].type = "directory" /\ Len(node[dir].entry) < Entries

\* tmpfs_lookup takes the first entry of a name: no directory has a second, also
\* when vfs_mkdir takes a name from address 0.
NamesUnique ==
    \A n \in DOMAIN node : \A i, j \in DOMAIN node[n].entry :
        node[n].entry[i].name = node[n].entry[j].name => i = j

\* Every vnode but the root is in one entry of one directory, and that directory
\* is older: the entries make a tree.
TreeShaped ==
    LET links == {l \in (DOMAIN node) \X (1 .. Entries) : l[2] \in DOMAIN node[l[1]].entry}
        Target(link) == node[link[1]].entry[link[2]].node
    IN  /\ \A link \in links : Target(link) > link[1]
        /\ \A n \in DOMAIN node \ {Root} : \E link \in links :
              links \cap {l \in links : Target(l) = n} = {link}

\* A path that leads to a vnode leads to it for ever, whatever is made later, in
\* full directories too.
PathsStable ==
    [][\A path \in Paths :
          Resolve(path) # NoNode => Resolve(path)' = Resolve(path)]_vars

\* vfs_open of a path that exists gives a file of its vnode and makes nothing; with
\* O_CREAT, of a name that is missing in a directory with room, it makes that file
\* and no other.
OpenFinds ==
    [][\A path \in Paths, creat \in BOOLEAN :
          VfsOpen(path, creat) =>
              /\ Resolve(path) # NoNode =>
                    node' = node /\ Last(files').vnode = Resolve(path)
              /\ (Resolve(path) = NoNode /\ creat /\ HasRoom(Front(path))) =>
                    /\ Len(node') = Len(node) + 1
                    /\ Last(files').vnode = Resolve(path)'
                    /\ node'[Resolve(path)'].type = "file"]_vars

\* vfs_mkdir of a name that is missing in a directory with room makes that
\* directory, empty, and nothing else.
MkdirMakes ==
    [][\A path \in Paths :
          (VfsMkdir(path) /\ Resolve(path) = NoNode /\ HasRoom(Front(path))) =>
              /\ Len(node') = Len(node) + 1
              /\ Resolve(path)' = Len(node')
              /\ node'[Len(node')] = NewNode("directory")]_vars

-----------------------------------------------------------------------------
(* What the comments say, and the code does not do *)

Data(n) == SubSeq(low, node[n].data + 1, LowSize)

\* "write len byte from buf to the opened file": a write to a file leaves the
\* data of every other file alone.
WritesOwnData ==
    [][\A f \in DOMAIN files : files'[f].f_pos # files[f].f_pos =>
          \A n \in DOMAIN node :
              (node[n].type = "file" /\ n # files[f].vnode) => Data(n)' = Data(n)]_vars
=============================================================================
