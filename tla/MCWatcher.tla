----------------------------- MODULE MCWatcher -----------------------------
(***************************************************************************)
(* The watcher on one pod of three containers, whose statuses and Events   *)
(* bring both handlers, and two containers, to one key and one pod to two. *)
(***************************************************************************)
EXTENDS Watcher

MCStatuses == { <<"Running", "Running", "Running">>,
                <<"ErrImagePull", "ImagePullBackOff", "OOMKilled">> }

MCRawEvents ==
    { [warning |-> TRUE, reason |-> "BackOff", about |-> "pulling image"] }
=============================================================================
