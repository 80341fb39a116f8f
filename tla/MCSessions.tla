----------------------------- MODULE MCSessions -----------------------------
(* Connections and addresses for the runs of Sessions.                       *)
EXTENDS SessionsProps, TLC

CONSTANTS s1, s2, s3, i1, i2, d1, d2

OneAddress == (s1 :> i1) @@ (s2 :> i1)
TwoAddresses == (s1 :> i1) @@ (s2 :> i1) @@ (s3 :> i2)
=============================================================================
