--------------------------- MODULE MCPatchMatchers ---------------------------
(* What matters to each matcher, of one or two bytes, with jumps backwards *)
(* to before the function (0), forwards inside the window and behind it.   *)
EXTENDS PatchMatchers, TLC

CONSTANTS r1, r2, b1, b2

Plain(kinds, sizes) == [kind: kinds, size: sizes]
Jump(kinds, targets) == [kind: kinds, size: {1}, to: targets]
Load(kind, bases)    == [kind: {kind}, size: {1}, reg: {r1, r2}, base: bases]

MCInstructions ==
  [local_only |->
     Plain({"bad", "call", "mov", "test", "cmp"}, {1}) \cup
     Jump({"js", "jns"}, {0, 6}) \cup
     [kind: {"jz"}, size: {1}, to: {0, 5, 6}, near: {FALSE}] \cup
     [kind: {"jz"}, size: {2}, to: {0, 5, 6}, near: {TRUE}],
   def_policy |->
     Plain({"bad", "jnz", "pop"}, {1}) \cup Plain({"other"}, {2}) \cup
     Load("policy", {b1, b2, None}) \cup Load("load63C", {b1, b2, None}) \cup
     Load("load638", {b1, b2}) \cup [kind: {"cmp2"}, size: {1}, regs: {{r1, r2}}],
   single_user |->
     Plain({"bad", "thunk", "cmp_ok"}, {1}) \cup Plain({"other", "thunk", "verify"}, {2}) \cup
     Jump({"call"}, {0, 5, 8}),
   sl_policy |->
     Plain({"bad", "argument", "test"}, {1}) \cup Plain({"other"}, {1, 2})]

MCSymmetry == Permutations({r1, r2}) \cup Permutations({b1, b2})
=============================================================================
