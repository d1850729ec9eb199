-------------------------- MODULE MCRemoteUploads --------------------------
(* Instances of RemoteUploads: archives of two units. *)
EXTENDS RemoteUploads

AllChunks == {<<Right>>, <<Wrong>>, <<Right, Right>>}
=============================================================================
