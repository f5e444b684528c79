--------------------------- MODULE MCWorkspaceSetup ---------------------------
(* prerequisites_config.json, cut down: the sparse base repository, one that *)
(* an option brings, three options, and the packages that tell them apart. *)
EXTENDS WorkspaceSetup

MCScopes     == {"linux", "networking", "debug"}
MCBaseRepos  == {"openpcie"}
MCRepoScopes == {"linux"}
MCSparse     == {"openpcie"}
MCLinked     == {"openpcie", "linux"}
MCBasePkgs   == {"git"}
MCPkgs       == [s \in MCScopes |->
                   CASE s = "linux"      -> {"bc"}
                     [] s = "networking" -> {"wireshark", "x11-xserver-utils"}
                     [] s = "debug"      -> {"gdb", "x11-xserver-utils"}]
MCRoots      == {"d1", "d2"}
=============================================================================
