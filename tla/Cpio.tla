-------------------------------- MODULE Cpio --------------------------------
(***************************************************************************)
(* The cpio archive that the firmware loads as the initial ramdisk, and    *)
(* the walk over it that src/src/initrd.c and mount_initramfs make.  An    *)
(* archive is a sequence of records with a name and data; the trailer      *)
(* follows the last one.  The format puts headers, names and data one      *)
(* behind the other, headers and data at multiples of four.                *)
(***************************************************************************)
EXTENDS Integers, Sequences, FiniteSets, FiniteSetsExt

\* sizeof(cpio_t)
Header == 110
Nul == ""

(* The format *)

Record(archive, k) ==
    IF k > Len(archive) THEN [name |-> <<"TRAILER!!!">>, data |-> <<>>] ELSE archive[k]

\* c_namesize counts the '\0' behind the name; the name of the trailer is ten long.
NameSize(archive, k) == IF k > Len(archive) THEN 11 ELSE Len(archive[k].name) + 1
FileSize(archive, k) == Len(Record(archive, k).data)

RoundUp(a) == 4 * ((a + 3) \div 4)

\* Where the header and the data of every record lie.
HeaderAt(archive) ==
    LET at[k \in 1 .. Len(archive) + 1] ==
            IF k = 1 THEN 0
            ELSE RoundUp(RoundUp(at[k - 1] + Header + NameSize(archive, k - 1))
                           + FileSize(archive, k - 1))
    IN  at
DataAt(archive, k) == RoundUp(HeaderAt(archive)[k] + Header + NameSize(archive, k))

\* n bytes from address a on, of the data of the records and the gaps between.
Bytes(archive, a, n) ==
    [j \in 1 .. n |->
        LET b    == a + j - 1
            hits == {k \in DOMAIN archive :
                        b \in DataAt(archive, k) .. DataAt(archive, k) + FileSize(archive, k) - 1}
        IN  IF hits = {} THEN Nul
            ELSE archive[Min(hits)].data[b - DataAt(archive, Min(hits)) + 1]]

-----------------------------------------------------------------------------
(* The walk *)

\* ns, aligned together with the header, and fs, aligned
Aligned(n) == IF n % 4 # 0 THEN n + (4 - (n % 4)) ELSE n

\* A mutant: the name is aligned without the header before it.
AlignedName_Alone(ns) == Aligned(ns)

AlignedName(ns) == IF (Header + ns) % 4 # 0 THEN ns + (4 - ((Header + ns) % 4)) ELSE ns

\* The record whose header is at addr, 0 when none is or when it is the trailer:
\* there the walk ends.
RecordAt(archive, addr) ==
    LET hits == {k \in DOMAIN archive : HeaderAt(archive)[k] = addr}
    IN  IF hits = {} THEN 0 ELSE Min(hits)

\* addr of the next round, in the round of record k
Beyond(archive, addr, k) ==
    addr + Header + AlignedName(NameSize(archive, k)) + Aligned(FileSize(archive, k))

\* The addresses the walk comes to, the last one that where it ends.
Walk(archive) ==
    LET addr[j \in 1 .. Len(archive) + 1] ==
            IF j = 1 THEN 0
            ELSE LET k == RecordAt(archive, addr[j - 1])
                 IN  IF k = 0 THEN addr[j - 1] ELSE Beyond(archive, addr[j - 1], k)
    IN  addr

\* A mutant: only as much as the shorter string has is compared.
Same_Shorter(name, filename) ==
    \A j \in 1 .. Min({Len(name), Len(filename)}) : name[j] = filename[j]

\* memcmp over the longer of the two, which ends with a '\0' in the other.
Same(name, filename) ==
    \A j \in 1 .. Max({Len(name), Len(filename)}) :
        (IF j <= Len(name) THEN name[j] ELSE Nul)
            = (IF j <= Len(filename) THEN filename[j] ELSE Nul)

\* The rounds of the walk in which the name is found.
Found(archive, filename) ==
    {j \in 1 .. Len(archive) : LET k == RecordAt(archive, Walk(archive)[j])
                               IN  k # 0 /\ Same(archive[k].name, filename)}

NotFound == -1

\* get_cpio_file: the address of the data.
GetCpioFile(archive, filename) ==
    IF Found(archive, filename) = {} THEN NotFound
    ELSE LET addr == Walk(archive)[Min(Found(archive, filename))]
         IN  addr + Header + AlignedName(NameSize(archive, RecordAt(archive, addr)))

\* get_cpio_file_len: fs is aligned when it is returned.
GetCpioFileLen(archive, filename) ==
    IF Found(archive, filename) = {} THEN 0
    ELSE LET addr == Walk(archive)[Min(Found(archive, filename))]
         IN  Aligned(FileSize(archive, RecordAt(archive, addr)))
=============================================================================
