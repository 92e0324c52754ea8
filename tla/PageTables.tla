------------------------------ MODULE PageTables ------------------------------
(* The page classes of a chunk of 16 pages of 8 KiB, written out: 1..8, 10,    *)
(* 12, 14 and 16 pages.  MCPoolChunk is checked with them; SizeRequests       *)
(* compares them with what SizeClasses computes.                               *)

SmallPages == 16
SmallPSizes == 12
SmallPages2pageIdx      == <<0, 1, 2, 3, 4, 5, 6, 7, 8, 8, 9, 9, 10, 10, 11, 11>>
SmallPages2pageIdxFloor == <<0, 1, 2, 3, 4, 5, 6, 7, 7, 8, 8, 9, 9, 10, 10, 11>>
===============================================================================
