------------------------- MODULE MCInboundDebounce -------------------------
(* Two conversations and room to track one of them. *)
EXTENDS InboundDebounce

CONSTANTS k1, k2, m1, m2, m3, m4, m5

MCKeyOf == (m1 :> k1) @@ (m2 :> k1) @@ (m3 :> k1) @@ (m4 :> k2) @@ (m5 :> k2)
=============================================================================
