---------------------------- MODULE MCAdminStream ----------------------------
(***************************************************************************)
(* AdminStream with two administrators of one organisation, so that lists  *)
(* are shared, emptied and made anew, and one of another.                  *)
(***************************************************************************)
EXTENDS AdminStream, TLC

CONSTANTS s1, s2, s3, o1, o2

MCOrgOf == s1 :> o1 @@ s2 :> o1 @@ s3 :> o2
=============================================================================
