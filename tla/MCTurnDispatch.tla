--------------------------- MODULE MCTurnDispatch ---------------------------
(* Small instances of TurnDispatch: messages of alice, whose channel may   *)
(* send several at a time, and of bob, whose channel sends one at a time.  *)
EXTENDS TurnDispatch, TLC

CONSTANTS a1, a2, b1, alice, bob

MCUser == {alice, bob}
MCBob == {bob}

MCAll == {a1, a2, b1}
MCAllOwner == (a1 :> alice) @@ (a2 :> alice) @@ (b1 :> bob)

MCSecond == {a2}
MCBobs == {b1}
=============================================================================
