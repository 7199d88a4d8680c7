------------------------------- MODULE WideMask -------------------------------
(***************************************************************************)
(* Mask and Match (src/src/irc/wide/): a comparison of vectors as a number *)
(* whose bits tell the lanes that are equal, and a bit of it as a place.   *)
(* A number is the set of the bits that are set.                           *)
(***************************************************************************)
EXTENDS Integers

CONSTANT LaneBits  \* bits of a mask that stand for a lane: 1, or 4 on NEON

ASSUME LaneAssumption == LaneBits \in {1, 4}

(* The bits of a lane: vshrn_n_u16 by 4 leaves half of each byte.          *)
BitsOf(lane) == (LaneBits * lane)..(LaneBits * lane + LaneBits - 1)

(* The mask of the lanes that are equal. *)
Movemask(lanes) == UNION {BitsOf(l) : l \in lanes}

HasMatch(mask) == mask # {}

(* first_match: the number of trailing zeros. *)
IsFirst(m, mask) == m \in mask /\ \A n \in mask : m <= n

(* clear_to: the bits up to and including those of the match's lane. *)
ClearTo(mask, m) == mask \ 0..(m + LaneBits - 1)

(* The lane of a match. *)
AsIndex(m) == m \div LaneBits
=============================================================================
