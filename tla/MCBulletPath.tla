---------------------------- MODULE MCBulletPath ----------------------------
(* Every bullet of up to a cell and a half a tick on a map of three by     *)
(* three cells.                                                            *)
EXTENDS BulletPath
CONSTANT Reach
AllBlocks == {<<1, 1>>, <<2, 0>>}
ThreeBodies == {<<0, 9>>, <<3, 6>>, <<10, 5>>}
AllVelocities == ((-Reach)..Reach) \X ((-Reach)..Reach) \ {<<0, 0>>}
===============================================================================
