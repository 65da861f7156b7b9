-------------------------- MODULE MCDownloadCache --------------------------
EXTENDS DownloadCache

(* Two versions of a file, the second one shorter. *)
Sizes == <<3, 2>>
=============================================================================
