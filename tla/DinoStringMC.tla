---------------------------- MODULE DinoStringMC ----------------------------
(* A size_t of six bits, buffers of 0 to 3 bytes that may grow to 12 (or more *)
(* for one append), strings of up to 4 characters: every way a text meets the *)
(* end of its buffer, with memory to grow and without.                        *)
EXTENDS DinoString
=============================================================================
