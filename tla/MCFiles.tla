------------------------------ MODULE MCFiles -------------------------------
(***************************************************************************)
(* A small image for module Files: names of up to three bytes, a program,  *)
(* a text over two blocks that are not neighbours and whose name fills its *)
(* field, the directory itself and the RTC.                                *)
(***************************************************************************)
EXTENDS Files, TLC

Entry(name, type, inode) == [file_name |-> name, file_type |-> type, inode_num |-> inode]

MCdentries == <<Entry(<<".">>, 1, 0), Entry(<<"a">>, 2, 1),
                Entry(<<"r", "t", "c">>, 0, 0), Entry(<<"a", "b", "c">>, 2, 2)>>

\* Inode 0 is empty; the program fills its last block, the text does not.
MCinodes == 0 :> [length |-> 0, data_block |-> <<>>]
         @@ 1 :> [length |-> 4, data_block |-> <<2, 0>>]
         @@ 2 :> [length |-> 3, data_block |-> <<1, 3>>]

MCdata_blocks == 0 :> <<"p3", "p4">> @@ 1 :> <<"q1", "q2">>
              @@ 2 :> <<"m1", "m2">> @@ 3 :> <<"q3", "behind">>

MCMagic == <<"m1", "m2">>

MCNames == {<<".">>, <<"r", "t", "c">>, <<"a", "b", "c", "d">>, <<"a", "b">>, <<>>}

MCCommands == {<<"a">>, <<"a", " ", "x">>, <<"a", "b", "c">>, <<"r", "t", "c">>, <<" ", "a">>}

MCSizes == {2, -1}

\* Full, empty, and a rest behind a NUL.
MCBuffers == {[k \in 0 .. 4 |-> "old"], [k \in 0 .. 4 |-> IF k = 0 THEN NUL ELSE "m2"]}

Strings(n) == UNION {[1 .. k -> {"a", "b"}] : k \in 0 .. n}

MCDirectories ==
    UNION {[1 .. k -> {Entry(name, type, 0) : name \in Strings(3) \ {<<>>}, type \in {0, 2}}]
              : k \in 0 .. 2}

MCLookupNames == Strings(4)
=============================================================================
