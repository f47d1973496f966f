------------------------------- MODULE MCTmpfs -------------------------------
(***************************************************************************)
(* Tmpfs with directories of two entries, so that they fill up, and paths  *)
(* of up to three names; the archives are mounted in a directory that the  *)
(* paths lead to as well, with names and data that need padding and ones   *)
(* that need none, one of them of two components.  The text is the name of *)
(* a directory, so that the string at address 0 is a name in use and one   *)
(* that is not.                                                            *)
(***************************************************************************)
EXTENDS Initramfs

MCTmp == <<"t">>
MCText == <<"x">>
MCHi == <<"x", "h">>
MCNested == <<"x", "/", "t">>

MCPaths == {<<MCTmp>>, <<MCText>>, <<MCHi>>,
            <<MCTmp, MCText>>, <<MCTmp, MCText, MCHi>>}
MCTexts == {<<"x">>}
MCChars == {"x"}

MCFile(name, data) == [name |-> name, data |-> data]
MCArchives == {<<MCFile(MCHi, <<"x">>), MCFile(MCText, <<>>)>>,
               <<MCFile(MCText, <<"x">>), MCFile(MCTmp, <<>>), MCFile(MCHi, <<>>)>>,
               <<MCFile(MCHi, <<>>), MCFile(MCNested, <<"x">>)>>}
=============================================================================
