----------------------------- MODULE MCReadBatch -----------------------------
(* Model-checking instances of ReadBatch.  With a PDU of 240 bytes one       *)
(* fragment carries at most 222 bytes (220 of 4-byte elements), and two      *)
(* fragments share a response when their data, padding included, is at most  *)
(* 218 bytes.                                                                *)
EXTENDS ReadBatch

It(t, o, n) ==
    [area |-> IF t \in {"timer", "counter"} THEN t ELSE "db",
     db |-> IF t \in {"timer", "counter"} THEN 0 ELSE 1,
     offset |-> o, bit |-> 0, transport |-> t, count |-> n]
Bit(o, b, n) == [It("bit", o, n) EXCEPT !.area = "marker", !.db = 0, !.bit = b]

MCRequests ==
    {<<It("byte", 10, 223), It("byte", 300, 1)>>,
     <<It("byte", 0, 109), It("byte", 0, 108), It("byte", 0, 1)>>,
     <<It("byte", 0, 109), It("byte", 0, 109)>>,
     <<It("real", 4, 112), It("word", 8, 3)>>,
     <<It("timer", 5, 224)>>, <<It("counter", 16777215, 1), Bit(3, 7, 1)>>,
     <<Bit(0, 1, 1), Bit(0, 2, 1), Bit(0, 3, 1), Bit(0, 4, 1)>>,
     <<It("dword", 0, 60), It("dword", 0, 60), It("dword", 0, 60)>>,
     <<It("byte", 2096900, 252)>>, <<It("byte", 2096900, 253)>>,
     <<It("byte", 2097000, 300)>>, <<It("timer", 16777215, 2)>>, <<It("byte", 2097152, 1)>>,
     <<[It("byte", 0, 1) EXCEPT !.db = 0]>>, <<[Bit(0, 0, 1) EXCEPT !.db = 1]>>,
     <<[It("word", 0, 1) EXCEPT !.area = "timer", !.db = 0]>>,
     <<It("byte", 0, 0)>>, <<Bit(0, 8, 1)>>, <<Bit(0, 0, 2)>>,
     <<It("byte", 0, 1500)>>, <<It("byte", 0, 2000)>>,
     <<It("byte", 0, 900), It("byte", 0, 900)>>,
     <<>>, <<Bit(0, 0, 1), Bit(0, 1, 1), Bit(0, 2, 1), Bit(0, 3, 1), Bit(0, 4, 1)>>}
MCAreaRequests == {<<It("byte", 0, n)>> : n \in {1, 222, 223, 444, 500}}
=============================================================================
