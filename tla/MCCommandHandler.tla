-------------------------- MODULE MCCommandHandler --------------------------
(* A small instance of CommandHandler: one message of each kind, of which any *)
(* MaxSent are published, and a duplicate guard so small that the second      *)
(* command empties it.                                                        *)
EXTENDS CommandHandler, TLC

CONSTANTS m1, m2, m3, m4, m5, i1, i2, i3, i4, i5

MCMessages == {m1, m2, m3, m4, m5}

MCKinds == (m1 :> "ACTUATE") @@ (m2 :> "OTA") @@ (m3 :> "UNKNOWN")
             @@ (m4 :> "DIAGNOSIS") @@ (m5 :> "MALFORMED")

MCIds == (m1 :> i1) @@ (m2 :> i2) @@ (m3 :> i3) @@ (m4 :> i4) @@ (m5 :> i5)
=============================================================================
