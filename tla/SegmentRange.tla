---------------------------- MODULE SegmentRange ----------------------------
(***************************************************************************)
(* The size_t arithmetic segment.c applies to offsets and lengths:         *)
(* rounding to a segment's page size and the clamp/truncate resolution of  *)
(* an (offset, length) argument that segment_touch, segment_mbind,        *)
(* segment_location and segment_lock_unlock all repeat.                    *)
(*                                                                         *)
(* size_t is a WordBits-wide unsigned integer: every sum is taken modulo   *)
(* Word, so rounding a length close to SIZE_MAX up wraps to zero, exactly  *)
(* as the C expression does.  A segment whose seg_pagesize is still 0      *)
(* (never mapped, or registered from /proc/<pid>/maps) gives a page mask   *)
(* of all ones, so both roundings return 0.                                *)
(***************************************************************************)
EXTENDS Naturals

CONSTANT WordBits

ASSUME WordBits \in Nat \ {0}

Word == 2^WordBits

(* size_t values *)
Size == 0 .. Word - 1

(* (size_t)-1: BOGUS_SIZE and DEFAULT_LENGTH in the C code *)
SizeMax == Word - 1

(* round_up_to_segment_pagesize(): (size + pagemask) & ~pagemask, where    *)
(* pagemask = seg_pagesize - 1.  seg_pagesize is 0 or a power of two.      *)
round_up_to_segment_pagesize(size, pagesize) ==
    IF pagesize = 0
    THEN 0
    ELSE LET s == (size + pagesize - 1) % Word IN s - (s % pagesize)

(* round_down_to_segment_pagesize(): size & ~pagemask *)
round_down_to_segment_pagesize(size, pagesize) ==
    IF pagesize = 0 THEN 0 ELSE size - (size % pagesize)

ResolveRange_no_truncate(seglength, pagesize, roffset, rlength) ==
    LET offset    == round_down_to_segment_pagesize(roffset, pagesize)
        maxlength == (seglength - offset) % Word
        length    == IF rlength # 0
                     THEN round_up_to_segment_pagesize(rlength, pagesize)
                     ELSE 0
    IN  IF offset >= seglength
        THEN [ok |-> FALSE, offset |-> offset, length |-> 0]
        ELSE [ok |-> TRUE, offset |-> offset,
              length |-> IF length = 0 THEN maxlength ELSE length]

(***************************************************************************)
(* The range resolution common to segment_touch(), segment_mbind(),        *)
(* segment_location() and segment_lock_unlock(): the offset is rounded     *)
(* down and must lie inside the segment ("offset ... is past end of        *)
(* segment"); a zero length, or one longer than what is left of the        *)
(* segment after rounding up, is silently truncated to the end.            *)
(* The result is [ok, offset, length].                                     *)
(***************************************************************************)
ResolveRange(seglength, pagesize, roffset, rlength) ==
    LET offset    == round_down_to_segment_pagesize(roffset, pagesize)
        maxlength == (seglength - offset) % Word
        length    == IF rlength # 0
                     THEN round_up_to_segment_pagesize(rlength, pagesize)
                     ELSE 0
    IN  IF offset >= seglength
        THEN [ok |-> FALSE, offset |-> offset, length |-> 0]
        ELSE [ok |-> TRUE, offset |-> offset,
              length |-> IF length = 0 \/ length > maxlength
                         THEN maxlength ELSE length]

=============================================================================
