---------------------------- MODULE MCHandshake -----------------------------
(***************************************************************************)
(* Two versions: one that the service refuses, and one that it serves and  *)
(* asks a client certificate for; a mark or an answer taken from the       *)
(* attempt of the other version is then wrong.                             *)
(***************************************************************************)
EXTENDS Handshake

CONSTANTS tls11, tls12

MCVersion == {tls11, tls12}
MCNegotiates == {tls12}
MCServes == {tls12}
MCRequests == {tls12}
=============================================================================
