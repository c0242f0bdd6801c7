------------------------------ MODULE MCSession ------------------------------
(* Session from a kernel, and from recipe files: one with its own W.       *)
EXTENDS Session

Kernel == [params |-> (N :> 2), steps |-> <<>>]
W == <<"W", 0, 1>>
File ==
  [params |-> (N :> 2 @@ W :> 2),
   steps |-> <<Step("split", "mul", W, 0), Step("split", "sum", W, 0),
               Step("bind", "mul", Literal(0), 1), Step("bind", "sum", Literal(0), 2)>>]
Plain ==
  [params |-> (N :> 2),
   steps |-> <<Step("split", "mul", Literal(2), 0), Step("split", "sum", Literal(2), 0),
               Step("bind", "mul", Literal(0), 1), Step("bind", "sum", Literal(0), 2)>>]
From(r, steps, params) == [recipe |-> r, steps |-> steps, params |-> params]
FromKernel == {From(Kernel, 2, 3)}
FromAny == {From(Kernel, 3, 3), From(File, 4, 2), From(Plain, 4, 2)}
=============================================================================
