------------------------------- MODULE MCAc97 -------------------------------
(* Two players that share the ring of the AC97 driver: enough blocks for two *)
(* laps and a half, and files whose lengths fit neither chunk nor block.     *)
EXTENDS Ac97

MCFileLen == <<15, 4>>
=============================================================================
