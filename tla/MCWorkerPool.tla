---------------------------- MODULE MCWorkerPool ----------------------------
(***************************************************************************)
(* Small instances of WorkerPool: the submissions of each configuration.   *)
(* A span of one task outside Bulk is submit or dispatch, any span of bulk *)
(* tasks is one dispatch_bulk call.                                        *)
(***************************************************************************)
EXTENDS WorkerPool, TLC

CONSTANTS a, b, c, d

Two == {<<a>>, <<b>>}
Singles == {<<a>>, <<b>>, <<c>>}
OneBulk == {<<a>>, <<b, c>>}
AllBulk == {<<a, b, c, d>>}
TwoCallsAndNested == {<<a>>, <<b, c>>, <<d>>}
NestedBody == {<<d>>}
SinglesAndNested == Singles \cup NestedBody

\* Workers run the same loop: safety runs need one of each permutation.
WorkerSymmetry == Permutations(Workers)
=============================================================================
