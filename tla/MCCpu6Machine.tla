--------------------------- MODULE MCCpu6Machine ---------------------------
(***************************************************************************)
(* Register files with a stack in the registers of an unused level, with   *)
(* frames that return to another level, to one that does not exist, and    *)
(* with a stack pointer that points at itself.                             *)
(***************************************************************************)
EXTENDS Cpu6Machine, TLC

Words(f) == [a \in Byte |->
  LET w == IF a % 2 = 0 THEN a ELSE a - 1
  IN IF w \notin DOMAIN f THEN 0
     ELSE IF a % 2 = 0 THEN f[w] \div 256 ELSE f[w] % 256]

(* Level 0 returns to level 1 with map 3, level 1 to level 33 with map 23; *)
(* at 192 a program: PC to X, return from the stack, and others.           *)
Nested == Words(
     (4 :> 512) @@ (10 :> 128) @@ (12 :> 4624)
  @@ (20 :> 768) @@ (26 :> 136) @@ (28 :> 8224)
  @@ (128 :> 4660) @@ (130 :> 22017) @@ (132 :> 769) @@ (134 :> 2)
  @@ (136 :> 255) @@ (138 :> 65313) @@ (140 :> 5889)
  @@ (192 :> 3343) @@ (194 :> 1547) @@ (196 :> 2320))

(* The stack pointer of level 0 points at itself, that of level 1 at the   *)
(* last byte of memory: its frame continues at address 0.                  *)
Edges == Words(
     (4 :> 65535) @@ (10 :> 9) @@ (12 :> 17)
  @@ (26 :> 65535) @@ (28 :> 61488) @@ (2 :> 5)
  @@ (192 :> 3849) @@ (194 :> 2315))

MCImages == {Nested, Edges}
(* The control group, a branch, an ALU operation, a load, and special      *)
(* codes refused with and without a return value.                          *)
MCOps == (0 .. 15) \cup {16, 40, 70, 86, 120, 128}
=============================================================================
