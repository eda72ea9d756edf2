------------------------------- MODULE PDUSize -------------------------------
(***************************************************************************)
(* Sizes of ReadVar and WriteVar PDUs without TPKT and COTP, as            *)
(* src/internal/protocol/protocol.go computes them.  An argument lens is   *)
(* the sequence of the items' data lengths in bytes.                       *)
(***************************************************************************)
EXTENDS Integers, Sequences

JobHeaderSize == 10
AckHeaderSize == 12
ItemSpecSize == 12
ItemDataHeaderSize == 4

\* What a loop has added up after each of the first n elements of s.
Totals(s, n) == LET total[k \in 0..n] == IF k = 0 THEN 0 ELSE total[k - 1] + s[k] IN total
Total(s, n) == Totals(s, n)[n]

\* Every item but the last is padded to an even length.
Padded(lens, k) == lens[k] + (IF k # Len(lens) /\ lens[k] % 2 # 0 THEN 1 ELSE 0)
ItemsDataSize(lens) ==
    Total([k \in DOMAIN lens |-> ItemDataHeaderSize + Padded(lens, k)], Len(lens))

ReadRequestSize(count) == JobHeaderSize + 2 + ItemSpecSize * count
ReadResponseSize(lens) == AckHeaderSize + 2 + ItemsDataSize(lens)
WriteRequestSize(lens) ==
    JobHeaderSize + 2 + ItemSpecSize * Len(lens) + ItemsDataSize(lens)
WriteResponseSize(count) == AckHeaderSize + 2 + count
=============================================================================
