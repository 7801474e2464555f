--------------------------- MODULE MCChannelTable ---------------------------
(* The ways a write of a channel ends, for TLC, and the symmetry of the    *)
(* channels.                                                               *)
EXTENDS ChannelTable, TLC

MCEnds == {"done", "refused", "lost", "unsaved"}

MCSymmetry == Permutations(Channels)

=============================================================================
