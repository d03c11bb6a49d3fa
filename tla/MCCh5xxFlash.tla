---------------------------- MODULE MCCh5xxFlash ----------------------------
(***************************************************************************)
(* Instances of Ch5xxFlash for TLC: pages of 2 units, sectors of 4, halves *)
(* of 8, banks of 16, a flash of 20.                                       *)
(***************************************************************************)
EXTENDS Ch5xxFlash

\* A bank with what is left over; a range that starts with a half, a sector and
\* a page and ends within one; a sector that is not the first of its half; parts
\* of sectors and of pages; the last page; nothing.
MCRanges == {<<0, 20>>, <<0, 15>>, <<4, 12>>, <<12, 4>>, <<2, 3>>, <<3, 6>>, <<18, 2>>, <<6, 0>>}
=============================================================================
