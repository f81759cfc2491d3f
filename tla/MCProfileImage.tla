--------------------------- MODULE MCProfileImage ---------------------------
(* Values for the constants of ProfileImage: u1 uses two browsers, u2 one. *)
EXTENDS ProfileImage, TLC

CONSTANTS s1, s2, s3, u1, u2

OneUserInTwoBrowsers == s1 :> u1 @@ s2 :> u1 @@ s3 :> u2

SwapBrowsers == Permutations({s1, s2})
=============================================================================
