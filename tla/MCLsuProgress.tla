--------------------------- MODULE MCLsuProgress ---------------------------
(* Progress does not depend on the words: there is only one.               *)
EXTENDS LoadStoreUnitProgress

CONSTANTS word, t1

\* One address is loaded, all are stored to.
OneWord == [a \in BusAddr |-> {[l \in Lanes |-> word]}]
StallingPrograms ==
  [stalling |-> Program({"load", "store", "branch", "div", "fence_i"},
                        {a \in CacheAddr : a.tag = t1}, OneWord)]

Garbage == {[tag |-> t1, valid |-> TRUE, dirty |-> TRUE, lru |-> TRUE,
             data |-> [l \in Lanes |-> word]]}

Same(a, b) == a

NothingLost == ~lost
=============================================================================
