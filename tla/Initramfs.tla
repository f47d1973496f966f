------------------------------ MODULE Initramfs ------------------------------
(***************************************************************************)
(* mount_initramfs of src/src/tmpfs.c: the walk over the archive, in which *)
(* every record becomes a file of the tmpfs, a step per record, between    *)
(* other calls of the file system.                                         *)
(***************************************************************************)
EXTENDS Tmpfs

CONSTANTS Archives,  \* the archives that may be loaded
          Dir        \* the name of the directory: "initramfs"

VARIABLES archive,   \* the archive at cpio_addr
          addr       \* where the walk of mount_initramfs is, Idle when it does not run

ASSUME DirAssumption == IsName(Dir)
ASSUME ArchivesAssumption ==
    \A a \in Archives : /\ a \in Seq(ToSet(a))
                        /\ \A k \in DOMAIN a : IsName(a[k].name) /\ a[k].data \in Seq(Chars)

initramfs_vars == <<vars, archive, addr>>

C == INSTANCE Cpio

Idle == -1

InitramfsInit ==
    /\ Init
    /\ archive \in Archives
    /\ addr = Idle

\* mount_initramfs makes the directory and begins the walk.
Mount ==
    /\ ~wild
    /\ addr = Idle
    /\ VfsMkdir(<<Dir>>)
    /\ addr' = 0
    /\ UNCHANGED archive

Slash == "/"

\* The names into which strtok cuts a string: what lies between slashes, as far as
\* it is not empty.
Tokens(s) ==
    LET upto[k \in 0 .. Len(s)] ==
            IF k = 0 THEN <<>>
            ELSE IF s[k] = Slash THEN upto[k - 1]
            ELSE IF upto[k - 1] = <<>> \/ s[k - 1] = Slash THEN Append(upto[k - 1], <<s[k]>>)
            ELSE [upto[k - 1] EXCEPT ![Len(upto[k - 1])] = Append(@, s[k])]
    IN  upto[Len(s)]

\* The path that open_initramfs_file makes of the name of a record.
RecordPath(name) == <<Dir>> \o Tokens(name)

\* open_initramfs_file copies fs bytes from behind the name, where ns is not yet
\* aligned, to a buffer, and writes them to the file it has opened.  That is the
\* first name of the path that is missing, or is a file, whatever names follow.
MountFile ==
    /\ ~wild
    /\ addr # Idle
    /\ LET k   == C!RecordAt(archive, addr)
           end == OpenWalk(RecordPath(archive[k].name), TRUE)
           fs  == C!FileSize(archive, k)
           buf == C!Bytes(archive, addr + C!Header + C!NameSize(archive, k), fs)
       IN  /\ k # 0
           /\ node' = end.table
           /\ Len(node') <= MaxNodes
           /\ wild' = (end.at = NoNode \/ node'[end.at].type = "directory")
           /\ low' = IF wild' THEN low ELSE Written(node'[end.at].data, buf)
           /\ addr' = C!Beyond(archive, addr, k)
    /\ UNCHANGED <<files, archive>>

MountDone ==
    /\ ~wild
    /\ addr # Idle
    /\ C!RecordAt(archive, addr) = 0
    /\ addr' = Idle
    /\ UNCHANGED <<vars, archive>>

\* The other calls of the file system.
Call == addr = Idle /\ Next /\ UNCHANGED <<archive, addr>>

InitramfsNext == Mount \/ MountFile \/ MountDone \/ Call

InitramfsSpec == InitramfsInit /\ [][InitramfsNext]_initramfs_vars

-----------------------------------------------------------------------------

\* The walk comes to every record, whatever the lengths of names and data, and
\* mount_initramfs leaves in the directory, as long as that has room, a vnode for the
\* first name of each: for a name without a slash that is the record itself.  The
\* names behind a slash get vnodes only where directories are there already.
MountComplete ==
    [][MountDone =>
          /\ addr = C!HeaderAt(archive)[Len(archive) + 1]
          /\ HasRoom(<<Dir>>) =>
                \A k \in DOMAIN archive :
                    Tokens(archive[k].name) # <<>> =>
                        Resolve(<<Dir, Head(Tokens(archive[k].name))>>) # NoNode
      ]_initramfs_vars

Names == {path[Len(path)] : path \in Paths}

\* When a walk begins: get_cpio_file and get_cpio_file_len find the data of the
\* record of that very name, not of one it begins like, and as many bytes as it
\* has, rounded up to a multiple of four.
LookupFinds ==
    addr = 0 =>
        \A name \in Names :
            LET hits == {k \in DOMAIN archive : archive[k].name = name}
            IN  /\ hits = {} => C!GetCpioFile(archive, name) = C!NotFound
                /\ hits # {} =>
                      /\ C!GetCpioFile(archive, name) = C!DataAt(archive, Min(hits))
                      /\ C!GetCpioFileLen(archive, name) - C!FileSize(archive, Min(hits)) \in 0 .. 3
=============================================================================
