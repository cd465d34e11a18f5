---------------------------- MODULE MCSwitchNet ----------------------------
(***************************************************************************)
(* Three switches in a row: h1 and h2 at the first, h3 at the last.        *)
(***************************************************************************)
EXTENDS SwitchNet, TLC

CONSTANTS s1, s2, s3, h1, h2, h3

MCPeer ==
    <<s1, 2>> :> h1 @@ <<s1, 3>> :> h2 @@ <<s1, 4>> :> <<s2, 2>>
    @@ <<s2, 2>> :> <<s1, 4>> @@ <<s2, 3>> :> <<s3, 2>>
    @@ <<s3, 2>> :> <<s2, 3>> @@ <<s3, 3>> :> h3

MCHome ==
    s1 :> (h1 :> 2 @@ h2 :> 3 @@ h3 :> 4)
    @@ s2 :> (h1 :> 2 @@ h2 :> 2 @@ h3 :> 3)
    @@ s3 :> (h1 :> 2 @@ h2 :> 2 @@ h3 :> 3)
=============================================================================
