---------------------------- MODULE MCAesdChar ----------------------------
(***************************************************************************)
(* Small instances of AesdChar for TLC.                                    *)
(***************************************************************************)
EXTENDS AesdChar

CONSTANTS t1, t2, f1, f2, A, B

MCByte == {A, B, NEWLINE, NUL, UNINIT}

\* each thread has its own open file, or both share one
MCPrivate == (t1 :> {f1}) @@ (t2 :> {f2})
MCShared  == (t1 :> {f1}) @@ (t2 :> {f1})

\* a whole command, a piece without newline, a piece that ends a command and
\* carries a byte behind the newline, and one whose newline strchr never sees
MCPayloads  == {<<A, NEWLINE>>, <<B>>, <<NEWLINE, B>>, <<NUL, NEWLINE>>}
MCTwoSizes  == {<<NEWLINE>>, <<A, NEWLINE>>}
MCPieces    == {<<A>>, <<NEWLINE>>, <<A, NEWLINE>>}

MCNoArgs    == {}
MCSeeks     == {<<0, "SEEK_SET">>, <<-1, "SEEK_END">>, <<1, "SEEK_CUR">>,
                <<0, "SEEK_DATA">>}
MCSeektos   == {<<0, 1>>, <<1, 0>>, <<1, 1>>, <<2, 0>>}
MCOneSeek   == {<<0, "SEEK_END">>}
MCOneSeekto == {<<0, 0>>}

\* threads that use the same files the same way are interchangeable
ThreadSymmetry == Permutations(Threads)

=============================================================================
