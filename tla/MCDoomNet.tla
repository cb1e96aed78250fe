------------------------------ MODULE MCDoomNet ------------------------------
(* Two nodes, from the start and across the wrap of the tics' low byte.     *)
EXTENDS DoomNet

MCNodes == {0, 1}
MCSettings == {[skill |-> 4, episode |-> 3, map |-> 9]}
MCGames == {[from |-> 0, to |-> 1, extratics |-> 0], [from |-> 23, to |-> 26, extratics |-> 0],
            [from |-> 23, to |-> 25, extratics |-> 1]}

=============================================================================
