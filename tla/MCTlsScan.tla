----------------------------- MODULE MCTlsScan ------------------------------
(* Two protocol versions with two suites each: four tasks compete for a    *)
(* semaphore of weight two.                                                *)
EXTENDS TlsScan

MCAccepts == {<<"TLS11", "rsa">>, <<"TLS12", "rsa">>, <<"TLS12", "ecdhe">>}
=============================================================================
