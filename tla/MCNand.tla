-------------------------------- MODULE MCNand --------------------------------
(* Instances of Nand for TLC; the view is the one MCStorage explains. *)
EXTENDS Nand

\* Empty, shorter than a block, a block, and more than a partition.
SmallBuffers == {<<>>, <<1>>, <<0, 1>>, <<1, 1, 0>>}

FileAndHandles == <<exists, image, mode, wp>>
===============================================================================
