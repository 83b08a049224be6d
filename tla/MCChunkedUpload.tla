---------------------------- MODULE MCChunkedUpload ----------------------------
(* Model-checking instance of ChunkedUpload: the file page in one tab, the      *)
(* modpack page in another, and files of two blocks.                            *)
EXTENDS ChunkedUpload, TLC
TwoPages == 1 :> ServerFiles @@ 2 :> Modpacks
=================================================================================
