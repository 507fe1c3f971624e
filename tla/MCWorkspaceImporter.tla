------------------------- MODULE MCWorkspaceImporter --------------------------
(* A small instance of WorkspaceImporter for TLC. *)
EXTENDS WorkspaceImporter, TLC

MCMountDir == "v" :> "one" @@ "w" :> "two"

MCLibraryPaths == {<<"v">>, <<"..", "v">>}

MCFiles == {<<"x">>, <<"v", "x">>}

MCFroms == {<<>>, <<"v", "x">>, <<"w", "v", "x">>, <<"v", ".", "x">>}

MCImported == {<<"x">>, <<"..", "x">>, <<"..", "..", "x">>, <<"v", "", "x">>, <<"..">>, <<"", "x">>,
               <<"v", "..", "C:", "x">>}
=============================================================================
