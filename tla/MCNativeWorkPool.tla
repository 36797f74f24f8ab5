-------------------------- MODULE MCNativeWorkPool --------------------------
EXTENDS NativeWorkPool, TLC

CONSTANTS c1, c2

(* One caller whose call fills the queue and one whose call needs one slot. *)
CountShared == (c1 :> 3) @@ (c2 :> 1)
NestedShared == {<<c1, 1>>, <<c1, 3>>}
RaisingShared == {<<c1, 1>>}
=============================================================================
