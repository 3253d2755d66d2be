----------------------------- MODULE MCPushIngest -----------------------------
(* Model values for TLC.                                                    *)
EXTENDS PushIngest, TLC

CONSTANTS r1, r2

\* The slots are interchangeable; used only where no liveness is checked.
SlotSymmetry == Permutations(Slots)

\* A kind with a cache and a mirror, one with a table, and a live thumbnail.
ThreeKinds == <<"heartbeat", "media", "thumb">>

TwoKinds == <<"heartbeat", "media">>

OneKind == <<"thumb">>

==============================================================================
