------------------------------- MODULE MCFtp -------------------------------
(***************************************************************************)
(* Two clients and one name. The server's file is empty, absent or longer  *)
(* than a buffer; one client has a file as long as a buffer, one has none. *)
(***************************************************************************)
EXTENDS FtpInv, TLC

CONSTANTS c1, c2, f, a, b

MCServerFiles == {[n \in Name |-> file] : file \in {<<a, b, a, b>>, << >>, NoFile}}

MCClientFiles ==
    {(c1 :> [n \in Name |-> <<b, b, b>>]) @@ (c2 :> [n \in Name |-> NoFile])}
=============================================================================
