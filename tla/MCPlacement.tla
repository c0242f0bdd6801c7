----------------------------- MODULE MCPlacement -----------------------------
EXTENDS Placement

Containers3 == {[bytes |-> 5, in |-> "moved"], [bytes |-> 8, in |-> "moved"], [bytes |-> 3, in |-> "local"],
                [bytes |-> 6, in |-> "local"], [bytes |-> 4, in |-> "none"]}
UpToThree == {<<a, b>> : a, b \in Containers3} \cup {<<a, b, c>> : a, b, c \in Containers3}
SomeBases == {0, 4, 6, 8, 14}
UpToTwoPins ==
  {<<>>} \cup {<<[of |-> i, base |-> b]>> : i \in 1 .. 3, b \in SomeBases}
  \cup {<<[of |-> p[1], base |-> b], [of |-> p[2], base |-> c]>> :
          p \in {<<1, 2>>, <<2, 1>>, <<3, 1>>}, b \in SomeBases, c \in SomeBases}
===============================================================================
