---------------------------- MODULE MCRemoteFetch ----------------------------
(***************************************************************************)
(* RemoteFetch on small instances: a live name and a rotated one, files of *)
(* a few bytes, the first a newline.  HeadBytes = 1 makes every non-empty  *)
(* file identifiable, as files of at least ssh_fingerprint_bytes are.      *)
(***************************************************************************)
EXTENDS RemoteFetch
=============================================================================
