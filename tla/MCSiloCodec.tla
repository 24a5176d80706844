---------------------------- MODULE MCSiloCodec ----------------------------
(* A small instance of SiloCodec: bytes of two bits, two to a leaf, two    *)
(* leaves to a page; trees of up to eight leaves; APPs of two arguments.   *)
EXTENDS SiloCodec

P(i) == Pin(Num(i))

RECURSIVE Nested(_)
Nested(d) == IF d = 0 THEN Zero ELSE App(Zero, <<Nested(d - 1)>>)

MCNats ==
    {0, 1, 2, 3, 4, 15, 16, 63, 64, 255, 256, 1023, 1024, 4096, 65537, 99999,
     1234567, 4194304, 67108863, 268435455, 300000000, 999999999}

MCValues ==
    {Num(n) : n \in MCNats}
    \cup {App(Zero, [i \in 1..n |-> Num(i)]) : n \in 1..7}
    \cup {Nested(d) : d \in 1..4}
    \cup {P(1), App(P(2), <<P(1), P(2), P(3)>>), App(P(1), <<P(2), P(3), P(4), P(5), P(6)>>),
          Law(1, Zero, Num(1000)), Law(15, Num(70), App(P(1), <<Law(2, P(2), P(1))>>)),
          App(Law(3, Zero, Zero), <<One, App(One, <<One, One, Num(5000)>>)>>)}

MCPins == {P(1), P(2)}
MCHints == {1, 70}
=============================================================================
