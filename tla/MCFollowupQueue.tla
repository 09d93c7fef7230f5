--------------------------- MODULE MCFollowupQueue ---------------------------
(* Three messages, two of them for one target, on one session.             *)
EXTENDS FollowupQueue, TLC

CONSTANTS m1, m2, m3

OnceEach == (m1 :> 1) @@ (m2 :> 1) @@ (m3 :> 1)
FirstRedelivered == (m1 :> 2) @@ (m2 :> 0) @@ (m3 :> 1)

MCRoute == (m1 :> "a") @@ (m2 :> "a") @@ (m3 :> "b")

Setting(mode, drop, cap) == [mode |-> mode, dropPolicy |-> drop, cap |-> cap]

RefuseSettings == {Setting("collect", "new", 2), Setting("followup", "new", 0)}
SummarizeSettings == {Setting("collect", "summarize", 1), Setting("collect", "summarize", 2)}
Regime(settings, accepts) == [settings |-> settings, maxAccepts |-> accepts]
MCRegimes ==
  {Regime(RefuseSettings, OnceEach), Regime(RefuseSettings, FirstRedelivered),
   Regime(SummarizeSettings, OnceEach)}
CollectSummarize == {Regime({Setting("collect", "summarize", 2)}, OnceEach)}
=============================================================================
