------------------------------- MODULE MCCopyFile -------------------------------
(* CopyFile for TLC: three files into a directory, or one, with a buffer   *)
(* that three short writes fit into, and descriptors for two copies.       *)
EXTENDS CopyFile
=============================================================================
