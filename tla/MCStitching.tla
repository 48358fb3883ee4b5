----------------------------- MODULE MCStitching -----------------------------
(***************************************************************************)
(* Small instances of Stitching.  Conversation a is a request, a line of   *)
(* work and its response, b two lines of work; both files hold a part of   *)
(* each, so either order of arrival back-fills lines into what is already  *)
(* stitched, and each file spans more than one window.                     *)
(***************************************************************************)
EXTENDS Stitching

MCTimeOf   == <<0, 1, 2, 5, 6>>
MCStreamOf == <<"a", "a", "a", "b", "b">>
MCKindOf   == <<"request", "work", "response", "work", "work">>
MCBatch    == <<{2, 4}, {1, 3, 5}>>
MCRanges   == {<<3, 6>>}
=============================================================================
