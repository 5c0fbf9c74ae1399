-------------------------- MODULE MCNodeConfigSync --------------------------
(* Two tags, one of which the node comes with, one client and one admin: an   *)
(* inbound to import and one to create, a client to edit, lose and resurrect, *)
(* and every order of one admin's requests with the ticks of the sync job.    *)
EXTENDS NodeConfigSync
=============================================================================
