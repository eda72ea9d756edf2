------------------------------- MODULE MCWire -------------------------------
(* Model-checking instance of Wire: address texts around every limit of the  *)
(* parser, one by one, and pairs of addresses whose lengths need padding or  *)
(* whose bytes overlap.                                                      *)
EXTENDS Wire

DB(db, width, number, bit) == Text("db", "DB", db, width, number, bit)
Mem(prefix, width, number, bit) == Text("memory", prefix, 0, width, number, bit)
Timer(prefix, number) == Text("timer", prefix, 0, "", number, Absent)
Counter(prefix, number) == Text("counter", prefix, 0, "", number, Absent)

Accepted ==
    {DB(1, "X", 0, 0), DB(1, "X", 1, 7), DB(258, "B", 3, Absent), DB(65535, "W", 258, Absent),
     DB(1, "D", 0, Absent), Mem("I", "", 0, 3), Mem("E", "X", 0, 3), Mem("A", "B", 1, Absent),
     Mem("Q", "W", 1, Absent), Mem("M", "D", 65537, Absent), Mem("M", "B", 2097151, Absent),
     Timer("TM", 1), Timer("T", 16777215), Counter("Z", 2), Counter("CT", 300)}

Refused ==
    {DB(0, "B", 0, Absent), DB(65536, "B", 0, Absent), DB(TooBig, "B", 0, Absent),
     DB(1, "X", 0, Absent), DB(1, "X", 0, 8), DB(1, "W", 0, 1), DB(1, "B", TooBig, Absent),
     DB(1, "B", 2097152, Absent), Mem("M", "", 5, Absent), Mem("M", "", 0, 9),
     Mem("I", "B", 0, 0), Mem("Q", "B", 268435455, Absent), Timer("T", 16777216),
     Counter("C", TooBig), Text("other", "", 0, "", 0, Absent)}

Together ==
    {DB(1, "X", 0, 0), DB(1, "X", 1, 7), DB(1, "B", 1, Absent), DB(1, "W", 0, Absent),
     DB(1, "D", 0, Absent), Mem("Q", "B", 1, Absent), Timer("T", 1), Counter("C", 1)}

MCTextBatches ==
    {<<t>> : t \in Accepted \cup Refused} \cup {<<s, t>> : s, t \in Together}
    \cup {<<s, t, u>> : s \in {DB(1, "B", 1, Absent)}, t \in {DB(1, "B", 3, Absent), Timer("T", 1)},
                        u \in {DB(1, "X", 0, 0), DB(1, "B", 4, Absent)}}

\* A different byte in every cell of the small areas.
Cells == ({129, 130, 131, 28, 29} \X {0} \X (0..5)) \cup ({132} \X {1, 258} \X (0..5))
MCMemories == {[c \in Cells |-> (c[1] * 7 + c[2] * 31 + c[3] * 41 + 5) % 256]}
=============================================================================
