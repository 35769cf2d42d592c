----------------------------- MODULE MCBoshScan -----------------------------
(* Two deployments: cf of two machines and mysql of one.                   *)
EXTENDS BoshScan

MCVMsOf == [d \in Deployment |-> IF d = "cf" THEN {"router", "cell"} ELSE {"db"}]
=============================================================================
