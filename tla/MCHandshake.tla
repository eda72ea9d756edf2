----------------------------- MODULE MCHandshake -----------------------------
(* Model-checking instance of Handshake: every limit of Config at, below and *)
(* above its bounds, both addressing modes with every reason to refuse them, *)
(* and a peer that names sizes and TSAPs in every order.                     *)
EXTENDS Handshake

Base == [f \in DOMAIN Defaults |-> 0]

MCConfigs ==
    {[Base EXCEPT !.pdu = p, !.frame = f] :
        p \in {0, 239, 240, 253, 254, 960, 961}, f \in {0, 31, 246, 247, 260, 967, 65535, 65536}}
    \cup {[Base EXCEPT !.items = n] : n \in {-1, 1048576, 1048577}}
    \cup {[Base EXCEPT !.fragments = n] : n \in {-1, 1048576, 1048577}}
    \cup {[Base EXCEPT !.itemBytes = n, !.batchBytes = n + d] :
            n \in {-1, 1, 1073741824, 1073741825}, d \in {-1, 0}}
    \cup {[Base EXCEPT !.connect = -1], [Base EXCEPT !.exchange = -1],
          [Base EXCEPT !.keepAlive = -1]}

Rack(rack, slot, role) ==
    [mode |-> 1, rack |-> rack, slot |-> slot, role |-> role, local |-> 0, remote |-> 0]
TSAP(l, r) == [mode |-> 2, rack |-> 0, slot |-> 0, role |-> 0, local |-> l, remote |-> r]

MCAddressings ==
    {Rack(0, 2, 1), Rack(7, 31, 3), Rack(8, 0, 1), Rack(0, 32, 1), Rack(0, 0, 0), Rack(0, 0, 4),
     Rack(0, 0, 1), TSAP(256, 258), TSAP(0, 258), TSAP(256, 0),
     [TSAP(1, 2) EXCEPT !.slot = 1], [Rack(0, 1, 1) EXCEPT !.local = 1], [TSAP(1, 2) EXCEPT !.mode = 0]}

MCParameters ==
    ({"tpdu"} \X {6, 7, 8, 9, 10, 13, 14}) \cup ({"source", "destination"} \X {256, 258, 5})
    \cup {<<"other", 0>>, <<"malformed", 0>>}

Answer(g, p, caller, callee, size, ok) ==
    [global |-> g, pdu |-> p, caller |-> caller, callee |-> callee, size |-> size,
     wellFormed |-> ok]

MCAnswers ==
    {Answer(0, p, 1, 1, 20, TRUE) : p \in {0, 239, 240, 241, 253, 254, 480, 481, 960, 961, 65535}}
    \cup {Answer(0, 240, 0, 1, 20, TRUE), Answer(0, 240, 1, 2, 20, TRUE)}
    \cup {Answer(g, 240, 1, 1, n, ok) : g \in {0, 5}, n \in {12, 240, 254, 481, 1022, 4090},
                                        ok \in BOOLEAN}

MCPayloads == {20, 240, 241, 253, 254, 480, 481, 960, 961, 1021, 1022, 4090, 65535}
=============================================================================
