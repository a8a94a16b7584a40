---------------------------- MODULE MCBackingFile ----------------------------
(* Files of up to four sectors of two bytes, some with half a sector at the  *)
(* end, in a stream that can hold three bytes back.                          *)
EXTENDS BackingFile
=============================================================================
