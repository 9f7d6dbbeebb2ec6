----------------------------- MODULE MCFileSystem -----------------------------
(***************************************************************************)
(* FileSystem for TLC: the buffer the caller writes.  With blocks of two   *)
(* bytes it crosses into the next block, ends early when there is none, or *)
(* is cut off at the limit of the file, depending on the offset.           *)
(***************************************************************************)
EXTENDS FileSystem

OneText == {<<1, 2, 1>>}
=============================================================================
