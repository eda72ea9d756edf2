------------------------------ MODULE Handshake ------------------------------
(***************************************************************************)
(* What a session is allowed to carry: the validation of Config, the COTP  *)
(* connection confirm, the S7 setup response and the sizes that exchange   *)
(* checks afterwards (src/config.go, Connect and exchange of               *)
(* src/client.go, src/internal/isotcp/framing.go).                         *)
(*                                                                         *)
(* The peer is either the scripted PLC of src/internal/testplc, or any     *)
(* peer at all: it puts any parameters, in any order and number, into its  *)
(* confirm and any numbers into its answers.  Sockets, deadlines and       *)
(* concurrent calls are the business of module Session.                    *)
(***************************************************************************)
EXTENDS Integers, Sequences, FiniteSetsExt

CONSTANTS
    Configs,        \* the Config values passed to New
    Addressings,    \* the Addressing values passed to New
    Parameters,     \* COTP parameters any peer may send: <<kind, value>>
    MaxParameters,  \* bound on the parameters of one confirm
    Answers,        \* setup responses any peer may send
    ServerPDUs,     \* testplc.Start(serverPDU)
    Payloads        \* sizes of S7 PDUs exchanged on the session

None == -1
MaxUint16 == 65535

ASSUME HandshakeAssumption ==
    /\ Configs \subseteq [pdu : 0..MaxUint16, frame : Int, items : Int, fragments : Int,
                          itemBytes : Int, batchBytes : Int,
                          connect : Int, exchange : Int, keepAlive : Int]
    /\ Addressings \subseteq [mode : Nat, rack : 0..255, slot : 0..255, role : 0..255,
                              local : 0..MaxUint16, remote : 0..MaxUint16]
    /\ Parameters \subseteq {"tpdu", "source", "destination", "other", "malformed"} \X Nat
    /\ MaxParameters \in Nat
    /\ Answers \subseteq [global : Nat, pdu : Nat, caller : Nat, callee : Nat, size : Nat,
                          wellFormed : BOOLEAN]
    /\ ServerPDUs \subseteq 64..MaxUint16
    /\ Payloads \subseteq Nat

VARIABLES
    config,         \* Config and Addressing as given, then normalized
    peer,           \* the server's PDU, or None for any peer
    pc,
    local, remote,  \* TSAPs of normalizedConfig
    offered,        \* TPDU size of the connection request
    tpdu,           \* result.TPDUSize of ParseConnectionConfirm
    source, destination,   \* TSAPs of the confirm, None when absent
    named,          \* history: every TPDU size the peer has named
    count,          \* parameters parsed so far
    proposed,       \* sessionRequestedPDU
    pdu,            \* NegotiatedPDU
    answer,         \* size of the last answer on the session, or None
    error           \* kind of the error returned, or "none"

confirmVars == <<tpdu, source, destination, named, count>>
vars == <<config, peer, pc, local, remote, offered, confirmVars, proposed, pdu, answer, error>>

-----------------------------------------------------------------------------
\* src/config.go

MinRequestedPDU == 240
MaxRequestedPDU == 960
MaxTPKT == 65535
MaxInt32 == 2147483647

Defaults ==
    [pdu |-> 480, frame |-> 4096, items |-> 4096, fragments |-> 65536,
     itemBytes |-> 1048576, batchBytes |-> 33554432,
     connect |-> 10, exchange |-> 10, keepAlive |-> 30]

WithDefaults(c) == [f \in DOMAIN Defaults |-> IF c[f] = 0 THEN Defaults[f] ELSE c[f]]

ConfigValid(c) ==
    /\ c.frame \in 32..MaxTPKT
    /\ c.pdu \in MinRequestedPDU..MaxRequestedPDU /\ c.pdu + 7 <= c.frame
    /\ c.items \in 1..2^20 /\ c.fragments \in 1..2^20
    /\ c.itemBytes \in 1..2^30
    /\ c.batchBytes >= c.itemBytes /\ c.batchBytes <= MaxInt32
    /\ c.connect >= 0 /\ c.exchange >= 0 /\ c.keepAlive >= 0

ByRackSlot == 1
ByTSAP == 2

AddressingValid(a) ==
    \/ /\ a.mode = ByRackSlot /\ a.local = 0 /\ a.remote = 0
       /\ a.rack <= 7 /\ a.slot <= 31 /\ a.role \in 1..3
    \/ /\ a.mode = ByTSAP /\ a.rack = 0 /\ a.slot = 0 /\ a.role = 0
       /\ a.local # 0 /\ a.remote # 0

LocalTSAP(a) == IF a.mode = ByRackSlot THEN 256 ELSE a.local
RemoteTSAP(a) ==
    IF a.mode = ByRackSlot THEN a.role * 256 + a.rack * 32 + a.slot ELSE a.remote

-----------------------------------------------------------------------------
\* src/internal/isotcp/framing.go

DataTPDUHeaderSize == 3
DataHeaderSize == 7
TPDUSizes == {2^code : code \in 7..13}

\* The offers TPDUSizeForS7PDU tries, smallest first; none is left for a PDU
\* above 8189 bytes.
Offers(bytes) == {size \in {1024, 2048, 4096, 8192} : bytes + DataTPDUHeaderSize <= size}

LastTPDUWins(size) == size                    \* mutant: a repeated parameter
SmallerTPDU(size) == IF size < tpdu THEN size ELSE tpdu

TSAPsMatchInAnyOrder ==                       \* mutant: each one on its own
    /\ source \in {None, local, remote} /\ destination \in {None, local, remote}

\* The end of ParseConnectionConfirm: standard or echo order when both are
\* present, standard order when one is.
TSAPsMatch ==
    IF source # None /\ destination # None
      THEN <<source, destination>> \in {<<remote, local>>, <<local, remote>>}
      ELSE source \in {None, remote} /\ destination \in {None, local}

-----------------------------------------------------------------------------
Init ==
    /\ \E c \in Configs, a \in Addressings :
         config = [f \in DOMAIN c \cup {"addressing"} |-> IF f = "addressing" THEN a ELSE c[f]]
    /\ peer \in ServerPDUs \cup {None}
    /\ pc = "new" /\ error = "none"
    /\ local = None /\ remote = None /\ source = None /\ destination = None
    /\ offered = 0 /\ tpdu = 0 /\ named = {} /\ count = 0 /\ proposed = 0 /\ pdu = 0
    /\ answer = None

\* A step ends in an error, or leads to the next one.
Outcome(kind, next) ==
    /\ error' = kind
    /\ pc' = IF kind = "none" THEN next ELSE "failed"

\* New: normalizeConfig with validateAddressing.
New ==
    /\ pc = "new"
    /\ LET c == WithDefaults(config)
           a == config.addressing
       IN /\ Outcome(IF ConfigValid(c) /\ AddressingValid(a) THEN "none" ELSE "invalid", "idle")
          /\ config' = [f \in DOMAIN config |-> IF f = "addressing" THEN a ELSE c[f]]
          /\ local' = LocalTSAP(a) /\ remote' = RemoteTSAP(a)
    /\ UNCHANGED <<peer, offered, confirmVars, proposed, pdu, answer>>

\* Connect offers a TPDU size; result.TPDUSize starts from the offer.
ConnectionRequest ==
    /\ pc = "idle"
    /\ IF Offers(config.pdu) = {}
         THEN Outcome("invariant", pc) /\ UNCHANGED <<offered, tpdu>>
         ELSE /\ Outcome("none", "confirm")
              /\ offered' = Min(Offers(config.pdu)) /\ tpdu' = offered'
    /\ UNCHANGED <<config, peer, local, remote, source, destination, named, count,
                   proposed, pdu, answer>>

\* buildConnectionConfirm of the scripted PLC: the CR's TPDU size and reversed
\* TSAPs.
PLCConfirm ==
    <<<<"tpdu", CHOOSE code \in 7..13 : 2^code = offered>>,
      <<"source", remote>>, <<"destination", local>>>>

\* One round of the parameter loop of ParseConnectionConfirm.
Parameter ==
    /\ pc = "confirm"
    /\ count < IF peer = None THEN MaxParameters ELSE Len(PLCConfirm)
    /\ \E p \in IF peer = None THEN Parameters ELSE {PLCConfirm[count + 1]} :
         LET sized == p[1] = "tpdu" /\ p[2] \in 7..13
         IN /\ Outcome(IF p[1] = "malformed" \/ (p[1] = "tpdu" /\ ~sized)
                         THEN "protocol" ELSE "none", "confirm")
            /\ tpdu' = IF sized THEN SmallerTPDU(2^p[2]) ELSE tpdu
            /\ named' = IF sized THEN named \cup {2^p[2]} ELSE named
            /\ source' = IF p[1] = "source" THEN p[2] ELSE source
            /\ destination' = IF p[1] = "destination" THEN p[2] ELSE destination
    /\ count' = count + 1
    /\ UNCHANGED <<config, peer, local, remote, offered, proposed, pdu, answer>>

\* A confirm whose COTP header, reference or class is wrong, or one whose TPKT
\* header is: the latter is an error of ReadFrame, which Connect takes for transport.
MalformedConfirm ==
    /\ pc = "confirm" /\ peer = None
    /\ \E kind \in {"protocol", "transport"} : Outcome(kind, pc)
    /\ UNCHANGED <<config, peer, local, remote, offered, confirmVars, proposed, pdu, answer>>

Smaller(m, n) == IF m < n THEN m ELSE n

ProposedAsConfigured(limit) == config.pdu     \* mutant: the TPDU is not regarded
ProposedPDU(limit) == Smaller(config.pdu, limit)

\* BuildSetupRequest: a job header and eight parameter bytes.
SetupRequestSize == 10 + 8

\* The parameters are parsed; Connect checks what they allow and sends the setup.
SetupRequest ==
    /\ pc = "confirm" /\ (peer # None => count = Len(PLCConfirm))
    /\ LET limit == tpdu - DataTPDUHeaderSize
       IN /\ proposed' = ProposedPDU(limit)
          /\ Outcome(IF ~TSAPsMatch \/ limit < MinRequestedPDU THEN "protocol"
                     ELSE IF SetupRequestSize + DataTPDUHeaderSize > tpdu THEN "invariant"
                     ELSE "none", "setup")
    /\ UNCHANGED <<config, peer, local, remote, offered, confirmVars, pdu, answer>>

\* handleConnection of the scripted PLC.
PLCAnswer ==
    [global |-> 0, pdu |-> Smaller(proposed, peer), caller |-> 1, callee |-> 1,
     size |-> 20, wellFormed |-> TRUE]

LimitsWithoutProposal(r) ==                   \* mutant: any PDU of at least 240
    r.caller = 1 /\ r.callee = 1 /\ r.pdu >= MinRequestedPDU

\* "invalid negotiated limits"; maxAmQCaller and maxAmQCallee are 1.
LimitsValid(r) ==
    /\ r.caller = 1 /\ r.callee = 1
    /\ r.pdu >= MinRequestedPDU /\ r.pdu <= proposed
    /\ r.pdu + DataTPDUHeaderSize <= tpdu /\ r.pdu + DataHeaderSize <= config.frame

\* ReadFrame and the checks on the size of an answer that may have limit bytes.
ReceiveError(size, limit) ==
    IF size + DataHeaderSize > config.frame THEN "transport"
    ELSE IF size + DataTPDUHeaderSize > tpdu \/ size > limit THEN "protocol"
    ELSE "none"

\* ParseSetupResponse, the global code and the limits; the answer has an
\* AckData header and eight parameter bytes.
SetupError(r) ==
    IF ReceiveError(r.size, proposed) # "none" THEN ReceiveError(r.size, proposed)
    ELSE IF ~r.wellFormed THEN "protocol"
    ELSE IF r.global # 0 THEN "plc"
    ELSE IF r.size # 12 + 8 \/ ~LimitsValid(r) THEN "protocol"
    ELSE "none"

SetupResponse ==
    /\ pc = "setup"
    /\ \E r \in IF peer = None THEN Answers ELSE {PLCAnswer} :
         /\ Outcome(SetupError(r), "ready")
         /\ pdu' = IF SetupError(r) = "none" THEN r.pdu ELSE pdu
    /\ UNCHANGED <<config, peer, local, remote, offered, confirmVars, proposed, answer>>

\* exchange: the planners of ReadBatch and WriteBatch build no request above the
\* negotiated PDU; the answer of any peer has any size.
Exchange ==
    /\ pc = "ready"
    /\ \E request \in Payloads, size \in Payloads :
         /\ request <= pdu /\ (peer # None => size <= pdu)
         /\ Outcome(IF \/ request + DataHeaderSize > MaxTPKT
                       \/ request + DataTPDUHeaderSize > tpdu THEN "invariant"
                    ELSE ReceiveError(size, pdu), "ready")
         /\ answer' = size
    /\ UNCHANGED <<config, peer, local, remote, offered, confirmVars, proposed, pdu>>

Next ==
    \/ New \/ ConnectionRequest \/ Parameter \/ MalformedConfirm
    \/ SetupRequest \/ SetupResponse \/ Exchange

Spec == Init /\ [][Next]_vars

-----------------------------------------------------------------------------
\* Properties

\* The size checks that Connect and exchange keep for "impossible" cases never
\* fire: no configuration and no peer leads to an offer, a setup request or a
\* request within the negotiated PDU that does not fit the TPDU, the frame limit
\* or the TPKT length; and no answer within the negotiated PDU is ever refused.
NegotiatedPDUIsUsable ==
    /\ error # "invariant"
    /\ answer # None /\ error # "none" => answer > pdu

\* ParseConnectionConfirm: the TPDU size is never above the offer or above any
\* size the peer has named, in whatever order and number it named them, and it
\* is one of these sizes.
TPDUIsAgreed ==
    pc \in {"confirm", "setup", "ready"} =>
        tpdu = Min(named \cup {offered})

\* What Connect proposes it also accepts, whatever sizes were agreed before; so a
\* scripted PLC that offers at least the minimum PDU is never refused, and both
\* sides end with the same PDU, the smaller of the two wishes.
ConformingPeerIsAccepted ==
    /\ pc = "setup" =>
         LimitsValid([caller |-> 1, callee |-> 1, pdu |-> proposed])
    /\ peer # None /\ peer >= MinRequestedPDU =>
         /\ error \in {"none", "invalid"}
         /\ pc = "ready" => pdu = Smaller(config.pdu, peer)

\* A session is only ready with a peer whose TSAPs, where it names them, are the
\* two of the connection request: neither a foreign one nor the same one twice,
\* and one that is named alone stands for its own side (unless local and remote
\* are the same).
PeerIsTheAddressedOne ==
    pc = "ready" =>
        /\ {source, destination} \subseteq {None, local, remote}
        /\ source = destination /\ source # None => local = remote
        /\ source = local /\ destination = None => local = remote
        /\ destination = remote /\ destination # None /\ source = None => local = remote
=============================================================================
