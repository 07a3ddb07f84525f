------------------------------ MODULE MCStorage ------------------------------
(***************************************************************************)
(* Instances of Storage for TLC: the buffers its callers pass, and the     *)
(* view under which states are told apart.  What a call does depends on    *)
(* the file and the handles only, never on the previous request or its     *)
(* reply, so two states that differ in those alone behave alike; every     *)
(* property is about the file and about the request and the reply a step   *)
(* ends in.                                                                *)
(***************************************************************************)
EXTENDS Storage

\* Empty, shorter than a block, a block, and more than a block.
SmallBuffers == {<<>>, <<1>>, <<0, 1>>, <<1, 1, 0>>}

FileAndHandles == <<exists, image, mode, wp>>
===============================================================================
