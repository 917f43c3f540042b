------------------------------ MODULE MCBrowse ------------------------------
(* root holds d, which holds a directory e, a file f and a symbolic link l   *)
(* to a file; a directory may be created in d.                                *)
EXTENDS Browse

MCPaths == {"root", "d", "e", "f", "l", "made", "gone", "e_gone"}

MCParentOf == [p \in MCPaths |-> CASE p \in {"root", "d"} -> "root"
                                   [] p = "e_gone" -> "e"
                                   [] OTHER -> "d"]

MCInodeType == [p \in MCPaths |-> CASE p = "f" -> "nondir" [] p = "l" -> "symlink"
                                    [] OTHER -> "isdir"]

MCTargetType == [p \in MCPaths |-> IF p \in {"f", "l"} THEN "nondir" ELSE "isdir"]

MCAbsent == [p \in MCPaths |-> IF p = "e" THEN "e_gone" ELSE "gone"]

MCNewDir == [p \in MCPaths |-> IF p = "d" THEN "made" ELSE "none"]

MCUses ==
    {<<"landing", "sel_dir", p>> : p \in {"d", "f", "e_gone"}}
    \cup {<<"plain", "sel_file", p>> : p \in MCPaths \ {"made"}}
    \cup {<<"plain", "sel_symlinks", p>> : p \in {"d", "l", "gone"}}
=============================================================================
