------------------------------- MODULE MCRenderer -------------------------------
(* Two positions of the camera, two scales, two sizes of the window, and buffers  *)
(* of two rectangles.                                                             *)
EXTENDS Renderer
=================================================================================
