---------------------------- MODULE MCImageAssets ----------------------------
(* The Ubuntu manifest of download_os_images.py, which has no initrd, and  *)
(* a command line that asks for one.                                       *)
EXTENDS ImageAssets

MCDists    == {"ubuntu"}
MCAssets   == {"disk", "kernel", "initrd"}
MCManifest == [d \in MCDists |-> <<"disk", "kernel">>]
MCFilters  == {<<>>, <<"initrd", "kernel">>}
=============================================================================
