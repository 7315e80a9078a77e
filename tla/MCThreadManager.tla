-------------------------- MODULE MCThreadManager --------------------------
(* Small instances of ThreadManager for TLC.                               *)
EXTENDS ThreadManager

(* The Timeout arguments: a null pointer, and an interval that rounds up   *)
(* to one millisecond.                                                     *)
JustForever == {NullPointer}
ForeverOrOne == {NullPointer, -7}

(* The handle arrays.                                                      *)
NoMulti == {}
EventAndThread == {<<EventKey(0), ThreadKey(1)>>}
EventAndMutant == {<<EventKey(0), MutantKey(0)>>}
EventPairs == {<<EventKey(0), MutantKey(0)>>, <<EventKey(0), EventKey(1)>>}
=============================================================================
