--------------------------- MODULE HandshakeProofs ---------------------------
(***************************************************************************)
(* The negotiation of Handshake is sound for every configuration, every    *)
(* peer, any number of COTP parameters and answers of any size.            *)
(***************************************************************************)
EXTENDS Handshake, TLAPS

\* The two limits of the configuration that the sizes are compared with.
RequestedPDU == config.pdu
FrameLimit == config.frame

\* What is known of the sizes after each phase of the handshake.
SizesInv ==
    /\ error # "invariant"
    /\ {"pdu", "frame"} \subseteq DOMAIN config
    /\ peer \in Int
    /\ pc \in {"idle", "confirm", "setup", "ready"} =>
         /\ RequestedPDU \in Int /\ RequestedPDU >= 240 /\ RequestedPDU <= 960
         /\ FrameLimit \in Int /\ RequestedPDU + 7 <= FrameLimit
    /\ pc \in {"confirm", "setup", "ready"} => tpdu \in Int
    /\ pc = "setup" => 
         /\ proposed \in Int /\ proposed >= 240 /\ proposed <= RequestedPDU
         /\ proposed + 3 <= tpdu
    /\ pc = "ready" =>
         pdu \in Int /\ pdu >= 240 /\ pdu <= 960 /\ pdu + 3 <= tpdu /\ pdu + 7 <= FrameLimit
    /\ pc \notin {"ready", "failed"} => answer = None
    /\ answer # None /\ error # "none" => answer > pdu

\* The smallest TPDU size named or offered so far.
TPDUInv ==
    /\ pc \in {"new", "idle"} => named = {}
    /\ pc \in {"confirm", "setup", "ready"} =>
         /\ named \cup {offered} \subseteq Int
         /\ tpdu \in named \cup {offered}
         /\ \A size \in named \cup {offered} : tpdu <= size

\* The handshake with a scripted PLC that offers at least the minimum PDU.
PLCInv ==
    peer # None /\ peer >= 240 =>
        /\ error \in {"none", "invalid"}
        /\ pc \in {"new", "idle"} => count = 0
        /\ pc \in {"confirm", "setup", "ready"} => offered = 1024 /\ tpdu = 1024
        /\ pc = "confirm" =>
             /\ count \in Nat
             /\ count >= 2 => source = remote
             /\ count >= 3 => destination = local
        /\ pc = "setup" => proposed = RequestedPDU
        /\ pc = "ready" => pdu = Smaller(RequestedPDU, peer)

\* The TSAPs are those of the configuration, and have been compared.
PeerInv ==
    /\ "addressing" \in DOMAIN config /\ config.addressing \in Addressings
    /\ pc \notin {"new", "failed"} => local \in Int /\ local # None
    /\ pc \in {"setup", "ready"} => TSAPsMatch

-----------------------------------------------------------------------------
\* tpduSizeFromCode returns a number for each code it accepts.
LEMMA TPDUSizeIsNumber == \A code \in 7..13 : 2^code \in Int
  OBVIOUS

\* TPDUSizeForS7PDU finds an offer for every PDU that normalizeConfig accepts.
LEMMA OfferExists ==
    ASSUME NEW bytes \in Int, bytes <= 960
    PROVE  Offers(bytes) # {} /\ Min(Offers(bytes)) = 1024
  <1>1. Offers(bytes) = {1024, 2048, 4096, 8192}
    BY DEF Offers, DataTPDUHeaderSize
  <1> QED
    BY <1>1 DEF Min

LEMMA SizesInit == Init => SizesInv
  <1> SUFFICES ASSUME Init PROVE SizesInv
    OBVIOUS
  <1>1. {"pdu", "frame"} \subseteq DOMAIN config
    BY HandshakeAssumption DEF Init
  <1>2. peer \in Int
    BY HandshakeAssumption DEF Init, None
  <1> QED
    BY <1>1, <1>2 DEF Init, SizesInv

\* A step that leaves the configuration alone leaves its two limits alone.
LEMMA LimitsKept ==
    ASSUME UNCHANGED config
    PROVE  RequestedPDU' = RequestedPDU /\ FrameLimit' = FrameLimit /\ DOMAIN config' = DOMAIN config
  BY DEF RequestedPDU, FrameLimit

LEMMA SizesStep == SizesInv /\ [Next]_vars => SizesInv'
  <1> SUFFICES ASSUME SizesInv, [Next]_vars PROVE SizesInv'
    OBVIOUS
  <1>1. CASE New
    <2> DEFINE c == WithDefaults(config)
    <2>1. DOMAIN config' = DOMAIN config
      BY <1>1 DEF New
    <2>2. RequestedPDU' = c.pdu
      BY <1>1 DEF New, SizesInv, RequestedPDU
    <2>3. FrameLimit' = c.frame
      BY <1>1 DEF New, SizesInv, FrameLimit
    <2>4. error' \in {"none", "invalid"} /\ pc' = (IF error' = "none" THEN "idle" ELSE "failed")
          /\ (error' = "none" => ConfigValid(c))
      BY <1>1 DEF New, Outcome
    <2>5. ConfigValid(c) => c.pdu \in Int /\ c.pdu >= 240 /\ c.pdu <= 960
      BY DEF ConfigValid, MinRequestedPDU, MaxRequestedPDU
    <2>6. ConfigValid(c) => c.frame \in Int /\ c.pdu + 7 <= c.frame
      BY DEF ConfigValid
    <2>7. pc = "new" /\ UNCHANGED <<peer, tpdu, proposed, pdu, answer>>
      BY <1>1 DEF New, confirmVars
    <2> HIDE DEF c
    <2> QED
      BY <2>1, <2>2, <2>3, <2>4, <2>5, <2>6, <2>7 DEF SizesInv
  <1>2. CASE ConnectionRequest
    <2>1. pc = "idle" /\ UNCHANGED <<config, peer, proposed, pdu, answer>>
      BY <1>2 DEF ConnectionRequest
    <2>2. Offers(config.pdu) # {} /\ Min(Offers(config.pdu)) = 1024
      BY <2>1, OfferExists DEF SizesInv, RequestedPDU
    <2>3. error' = "none" /\ pc' = "confirm" /\ tpdu' = 1024
      BY <1>2, <2>2 DEF ConnectionRequest, Outcome
    <2> QED
      BY <2>1, <2>3, LimitsKept DEF SizesInv
  <1>3. CASE Parameter
    <2>1. pc = "confirm" /\ UNCHANGED <<config, peer, proposed, pdu, answer>>
      BY <1>3 DEF Parameter
    <2>2. PICK p : /\ tpdu' = IF p[1] = "tpdu" /\ p[2] \in 7..13 THEN SmallerTPDU(2^p[2]) ELSE tpdu
                   /\ error' \in {"none", "protocol"}
                   /\ pc' = IF error' = "none" THEN "confirm" ELSE "failed"
      BY <1>3 DEF Parameter, Outcome
    <2>3. tpdu' \in Int
      BY <2>1, <2>2, TPDUSizeIsNumber DEF SmallerTPDU, SizesInv
    <2> QED
      BY <2>1, <2>2, <2>3, LimitsKept DEF SizesInv
  <1>4. CASE MalformedConfirm
    BY <1>4, LimitsKept DEF MalformedConfirm, Outcome, SizesInv, confirmVars
  <1>5. CASE SetupRequest
    <2>1. pc = "confirm" /\ UNCHANGED <<config, peer, tpdu, pdu, answer>>
      BY <1>5 DEF SetupRequest, confirmVars
    <2>2. proposed' = (IF RequestedPDU < tpdu - 3 THEN RequestedPDU ELSE tpdu - 3)
      BY <1>5 DEF SetupRequest, ProposedPDU, Smaller, DataTPDUHeaderSize, RequestedPDU
    <2>3. /\ error' = "none" => tpdu - 3 >= 240
          /\ error' = "invariant" => tpdu - 3 >= 240 /\ 21 > tpdu
          /\ pc' = IF error' = "none" THEN "setup" ELSE "failed"
      BY <1>5, <2>1
      DEF SetupRequest, Outcome, DataTPDUHeaderSize, MinRequestedPDU, SetupRequestSize, SizesInv
    <2> QED
      BY <2>1, <2>2, <2>3, LimitsKept DEF SizesInv
  <1>6. CASE SetupResponse
    <2>1. pc = "setup" /\ UNCHANGED <<config, peer, tpdu, proposed, answer>>
      BY <1>6 DEF SetupResponse, confirmVars
    <2>2. PICK r : /\ error' = SetupError(r)
                   /\ pc' = IF error' = "none" THEN "ready" ELSE "failed"
                   /\ pdu' = IF error' = "none" THEN r.pdu ELSE pdu
                   /\ r.pdu \in Int
      <3>1. CASE peer = None
        BY <1>6, <3>1, HandshakeAssumption DEF SetupResponse, Outcome
      <3>2. CASE peer # None
        BY <1>6, <2>1, <3>2 DEF SetupResponse, Outcome, PLCAnswer, Smaller, SizesInv
      <3> QED BY <3>1, <3>2
    <2>3. error' # "invariant"
      BY <2>2 DEF SetupError, ReceiveError
    <2>4. error' = "none" => LimitsValid(r)
      BY <2>2 DEF SetupError
    <2>5. LimitsValid(r) => /\ r.pdu >= 240 /\ r.pdu <= proposed
                            /\ r.pdu + 3 <= tpdu /\ r.pdu + 7 <= FrameLimit
      BY DEF LimitsValid, MinRequestedPDU, DataTPDUHeaderSize, DataHeaderSize, FrameLimit
    <2> QED
      BY <2>1, <2>2, <2>3, <2>4, <2>5, LimitsKept DEF SizesInv
  <1>7. CASE Exchange
    <2>1. pc = "ready" /\ UNCHANGED <<config, peer, tpdu, proposed, pdu>>
      BY <1>7 DEF Exchange, confirmVars
    <2>2. PICK request \in Payloads, size \in Payloads :
            /\ request <= pdu /\ answer' = size
            /\ Outcome(IF \/ request + DataHeaderSize > MaxTPKT
                          \/ request + DataTPDUHeaderSize > tpdu THEN "invariant"
                       ELSE ReceiveError(size, pdu), "ready")
      BY <1>7 DEF Exchange
    <2>3. request \in Int /\ size \in Int
      BY HandshakeAssumption
    <2>4. error' = ReceiveError(size, pdu) /\ pc' = IF error' = "none" THEN "ready" ELSE "failed"
      BY <2>1, <2>2, <2>3 DEF Outcome, SizesInv, DataHeaderSize, DataTPDUHeaderSize, MaxTPKT
    <2>5. ReceiveError(size, pdu) = IF size + 7 > FrameLimit THEN "transport"
                                    ELSE IF size + 3 > tpdu \/ size > pdu THEN "protocol"
                                    ELSE "none"
      BY DEF ReceiveError, DataHeaderSize, DataTPDUHeaderSize, FrameLimit
    <2>6. error' # "invariant" /\ (error' # "none" => size > pdu)
      BY <2>1, <2>3, <2>4, <2>5 DEF SizesInv
    <2> QED
      BY <2>1, <2>2, <2>4, <2>6, LimitsKept DEF SizesInv
  <1>8. CASE UNCHANGED vars
    BY <1>8, LimitsKept DEF vars, confirmVars, SizesInv
  <1> QED
    BY <1>1, <1>2, <1>3, <1>4, <1>5, <1>6, <1>7, <1>8 DEF Next

\* Whatever is configured and whatever the peer names: no size check of Connect
\* and exchange that guards against the client itself can fire, and no answer within
\* the negotiated PDU is refused.
THEOREM SizesFit == Spec => []NegotiatedPDUIsUsable
  <1>1. SizesInv => NegotiatedPDUIsUsable
    BY DEF SizesInv, NegotiatedPDUIsUsable
  <1> QED
    BY SizesInit, SizesStep, <1>1, PTL DEF Spec

-----------------------------------------------------------------------------
LEMMA TPDUStep == SizesInv /\ TPDUInv /\ [Next]_vars => TPDUInv'
  <1> SUFFICES ASSUME SizesInv, TPDUInv, [Next]_vars PROVE TPDUInv'
    OBVIOUS
  <1>1. CASE New
    BY <1>1 DEF New, Outcome, TPDUInv, confirmVars
  <1>2. CASE ConnectionRequest
    <2>1. Offers(config.pdu) # {} /\ Min(Offers(config.pdu)) = 1024
      BY <1>2, OfferExists DEF ConnectionRequest, SizesInv, RequestedPDU
    <2>2. offered' = 1024 /\ tpdu' = 1024 /\ named' = {} /\ pc' = "confirm"
      BY <1>2, <2>1 DEF ConnectionRequest, Outcome, TPDUInv
    <2> QED
      BY <2>2 DEF TPDUInv
  <1>3. CASE Parameter
    <2>1. PICK p :
            LET sized == p[1] = "tpdu" /\ p[2] \in 7..13
            IN /\ tpdu' = IF sized THEN SmallerTPDU(2^p[2]) ELSE tpdu
               /\ named' = IF sized THEN named \cup {2^p[2]} ELSE named
               /\ pc' \in {"confirm", "failed"}
      BY <1>3 DEF Parameter, Outcome
    <2> HIDE DEF TPDUInv
    <2>2. CASE p[1] = "tpdu" /\ p[2] \in 7..13
      <3> DEFINE size == 2^p[2]
      <3>1. size \in Int
        BY <2>2, TPDUSizeIsNumber
      <3>2. tpdu' = (IF size < tpdu THEN size ELSE tpdu) /\ named' = named \cup {size}
        BY <2>1, <2>2 DEF SmallerTPDU
      <3> HIDE DEF size
      <3>3. pc = "confirm" /\ offered' = offered
        BY <1>3 DEF Parameter
      <3>4. named \cup {offered} \subseteq Int /\ tpdu \in named \cup {offered}
            /\ tpdu \in Int /\ \A n \in named \cup {offered} : tpdu <= n
        BY <3>3 DEF TPDUInv
      <3>5. named' \cup {offered'} = (named \cup {offered}) \cup {size}
        BY <3>2, <3>3
      <3>6. tpdu' \in named' \cup {offered'}
        BY <3>2, <3>4, <3>5
      <3>7. \A n \in named' \cup {offered'} : tpdu' <= n
        BY <3>1, <3>2, <3>4, <3>5
      <3> QED
        BY <2>1, <3>1, <3>4, <3>5, <3>6, <3>7 DEF TPDUInv
    <2>3. CASE ~(p[1] = "tpdu" /\ p[2] \in 7..13)
      BY <1>3, <2>1, <2>3 DEF Parameter, TPDUInv
    <2> QED
      BY <2>2, <2>3
  <1>4. CASE MalformedConfirm
    BY <1>4 DEF MalformedConfirm, Outcome, TPDUInv, confirmVars
  <1>5. CASE SetupRequest
    BY <1>5 DEF SetupRequest, Outcome, TPDUInv, confirmVars
  <1>6. CASE SetupResponse
    BY <1>6 DEF SetupResponse, Outcome, TPDUInv, confirmVars
  <1>7. CASE Exchange
    BY <1>7 DEF Exchange, Outcome, TPDUInv, confirmVars
  <1>8. CASE UNCHANGED vars
    BY <1>8 DEF vars, confirmVars, TPDUInv
  <1> QED
    BY <1>1, <1>2, <1>3, <1>4, <1>5, <1>6, <1>7, <1>8 DEF Next

\* However often and in whatever order the peer names TPDU sizes, the smallest of
\* them and the offer is used.
THEOREM SmallestTPDU == Spec => []TPDUIsAgreed
  <1>1. Init => TPDUInv
    BY DEF Init, TPDUInv
  <1>2. TPDUInv => TPDUIsAgreed
    BY DEF TPDUInv, TPDUIsAgreed, Min
  <1> QED
    BY SizesInit, SizesStep, TPDUStep, <1>1, <1>2, PTL DEF Spec

-----------------------------------------------------------------------------
\* The code that buildConnectionConfirm echoes stands for the offer.
LEMMA EchoedOffer ==
    ASSUME offered = 1024
    PROVE  LET code == CHOOSE code \in 7..13 : 2^code = offered
           IN code \in 7..13 /\ 2^code = 1024
  <1>1. 10 \in 7..13 /\ 2^10 = 1024
    OBVIOUS
  <1>2. \E code \in 7..13 : 2^code = offered
    BY <1>1
  <1> QED
    BY <1>2

LEMMA PLCStep == SizesInv /\ PLCInv /\ [Next]_vars => PLCInv'
  <1> SUFFICES ASSUME SizesInv, PLCInv, [Next]_vars, peer' # None, peer' >= 240
               PROVE  PLCInv'
    BY DEF PLCInv
  <1>0. peer' = peer /\ peer # None /\ peer >= 240 /\ peer \in Int
    BY DEF Next, vars, New, ConnectionRequest, Parameter, MalformedConfirm, SetupRequest,
           SetupResponse, Exchange, SizesInv
  <1>1. CASE New
    <2>1. error' \in {"none", "invalid"} /\ pc' \in {"idle", "failed"}
      BY <1>1 DEF New, Outcome
    <2>2. pc = "new" /\ count' = count
      BY <1>1 DEF New, confirmVars
    <2> QED
      BY <1>0, <2>1, <2>2 DEF PLCInv
  <1>2. CASE ConnectionRequest
    <2>1. pc = "idle" /\ UNCHANGED <<config, count>>
      BY <1>2 DEF ConnectionRequest
    <2>2. Offers(config.pdu) # {} /\ Min(Offers(config.pdu)) = 1024
      BY <2>1, OfferExists DEF SizesInv, RequestedPDU
    <2>3. error' = "none" /\ pc' = "confirm" /\ tpdu' = 1024 /\ offered' = 1024
      BY <1>2, <2>2 DEF ConnectionRequest, Outcome
    <2> QED
      BY <1>0, <2>1, <2>3 DEF PLCInv
  <1>3. CASE Parameter
    <2> DEFINE code == CHOOSE code \in 7..13 : 2^code = offered
    <2>1. /\ pc = "confirm" /\ offered = 1024 /\ tpdu = 1024 /\ count \in Nat
          /\ count >= 2 => source = remote
      BY <1>0, <1>3 DEF Parameter, PLCInv
    <2>2. code \in 7..13 /\ 2^code = 1024
      BY <2>1, EchoedOffer
    <2>3. count < 3 /\ count' = count + 1 /\ UNCHANGED <<offered, local, remote>>
      BY <1>0, <1>3 DEF Parameter, PLCConfirm
    <2> DEFINE p == PLCConfirm[count + 1]
    <2>4. /\ Outcome(IF p[1] = "malformed" \/ (p[1] = "tpdu" /\ ~(p[2] \in 7..13))
                       THEN "protocol" ELSE "none", "confirm")
          /\ tpdu' = IF p[1] = "tpdu" /\ p[2] \in 7..13 THEN SmallerTPDU(2^p[2]) ELSE tpdu
          /\ source' = IF p[1] = "source" THEN p[2] ELSE source
          /\ destination' = IF p[1] = "destination" THEN p[2] ELSE destination
      BY <1>0, <1>3 DEF Parameter
    <2>5. /\ count = 0 => p = <<"tpdu", code>>
          /\ count = 1 => p = <<"source", remote>>
          /\ count = 2 => p = <<"destination", local>>
      BY DEF PLCConfirm
    <2> HIDE DEF code, p
    <2>6. CASE count = 0
      <3>1. error' = "none" /\ pc' = "confirm" /\ tpdu' = SmallerTPDU(1024)
        BY <2>2, <2>4, <2>5, <2>6 DEF Outcome
      <3> QED
        BY <1>0, <2>1, <2>3, <2>6, <3>1 DEF PLCInv, SmallerTPDU
    <2>7. CASE count = 1
      <3>1. error' = "none" /\ pc' = "confirm" /\ tpdu' = tpdu /\ source' = remote
        BY <2>4, <2>5, <2>7 DEF Outcome
      <3> QED
        BY <1>0, <2>1, <2>3, <2>7, <3>1 DEF PLCInv
    <2>8. CASE count = 2
      <3>1. /\ error' = "none" /\ pc' = "confirm" /\ tpdu' = tpdu
            /\ source' = source /\ destination' = local
        BY <2>4, <2>5, <2>8 DEF Outcome
      <3> QED
        BY <1>0, <2>1, <2>3, <2>8, <3>1 DEF PLCInv
    <2> QED
      BY <2>1, <2>3, <2>6, <2>7, <2>8
  <1>4. CASE MalformedConfirm
    BY <1>0, <1>4 DEF MalformedConfirm
  <1>5. CASE SetupRequest
    <2>1. pc = "confirm" /\ count = 3 /\ UNCHANGED <<config, tpdu, offered>>
      BY <1>0, <1>5 DEF SetupRequest, confirmVars, PLCConfirm
    <2>2. source = remote /\ destination = local /\ tpdu = 1024 /\ offered = 1024
      BY <1>0, <2>1 DEF PLCInv
    <2>3. TSAPsMatch
      BY <2>2 DEF TSAPsMatch
    <2>4. error' = "none" /\ pc' = "setup"
      BY <1>5, <2>2, <2>3
      DEF SetupRequest, Outcome, DataTPDUHeaderSize, MinRequestedPDU, SetupRequestSize
    <2>5. proposed' = (IF RequestedPDU < tpdu - 3 THEN RequestedPDU ELSE tpdu - 3)
      BY <1>5 DEF SetupRequest, ProposedPDU, Smaller, DataTPDUHeaderSize, RequestedPDU
    <2>6. proposed' = RequestedPDU
      BY <2>1, <2>2, <2>5 DEF SizesInv
    <2> QED
      BY <1>0, <2>1, <2>2, <2>4, <2>6, LimitsKept DEF PLCInv
  <1>6. CASE SetupResponse
    <2>1. pc = "setup" /\ UNCHANGED <<config, tpdu, offered>>
      BY <1>6 DEF SetupResponse, confirmVars
    <2>2. /\ Outcome(SetupError(PLCAnswer), "ready")
          /\ pdu' = IF SetupError(PLCAnswer) = "none" THEN PLCAnswer.pdu ELSE pdu
      BY <1>0, <1>6 DEF SetupResponse
    <2>3. PLCAnswer.pdu = Smaller(RequestedPDU, peer)
      BY <1>0, <2>1 DEF PLCInv, PLCAnswer
    <2>4. LimitsValid(PLCAnswer)
      <3>1. PLCAnswer.caller = 1 /\ PLCAnswer.callee = 1
        BY DEF PLCAnswer
      <3>2. proposed = RequestedPDU /\ tpdu = 1024
        BY <1>0, <2>1 DEF PLCInv
      <3>3. LET n == Smaller(RequestedPDU, peer)
            IN n >= 240 /\ n <= proposed /\ n + 3 <= tpdu /\ n + 7 <= FrameLimit
        BY <1>0, <2>1, <3>2 DEF SizesInv, Smaller
      <3> QED
        BY <2>3, <3>1, <3>3
        DEF LimitsValid, FrameLimit, MinRequestedPDU, DataTPDUHeaderSize, DataHeaderSize
    <2>5. ReceiveError(20, proposed) = "none"
      <3>1. 20 + 7 <= FrameLimit /\ 20 + 3 <= tpdu /\ 20 <= proposed
        BY <1>0, <2>1 DEF SizesInv, PLCInv
      <3> QED
        BY <2>1, <3>1 DEF ReceiveError, FrameLimit, DataHeaderSize, DataTPDUHeaderSize, SizesInv
    <2>6. SetupError(PLCAnswer) = "none"
      <3>1. PLCAnswer.size = 20 /\ PLCAnswer.wellFormed /\ PLCAnswer.global = 0
        BY DEF PLCAnswer
      <3> QED
        BY <2>4, <2>5, <3>1 DEF SetupError
    <2>7. error' = "none" /\ pc' = "ready" /\ pdu' = Smaller(RequestedPDU, peer)
      BY <2>2, <2>3, <2>6 DEF Outcome
    <2> QED
      BY <1>0, <2>1, <2>7, LimitsKept DEF PLCInv, Smaller
  <1>7. CASE Exchange
    <2>1. pc = "ready" /\ UNCHANGED <<config, tpdu, offered, pdu>>
      BY <1>7 DEF Exchange, confirmVars
    <2>2. PICK request \in Payloads, size \in Payloads :
            /\ request <= pdu /\ size <= pdu
            /\ Outcome(IF \/ request + DataHeaderSize > MaxTPKT
                          \/ request + DataTPDUHeaderSize > tpdu THEN "invariant"
                       ELSE ReceiveError(size, pdu), "ready")
      BY <1>0, <1>7 DEF Exchange
    <2>3. request \in Int /\ size \in Int
      BY HandshakeAssumption
    <2>4. error' = ReceiveError(size, pdu) /\ pc' = IF error' = "none" THEN "ready" ELSE "failed"
      BY <2>1, <2>2, <2>3 DEF Outcome, SizesInv, DataHeaderSize, DataTPDUHeaderSize, MaxTPKT
    <2>5. size + 7 <= FrameLimit /\ size + 3 <= tpdu
      BY <2>1, <2>2, <2>3 DEF SizesInv
    <2>6. ReceiveError(size, pdu) = "none"
      BY <2>1, <2>2, <2>3, <2>5
      DEF ReceiveError, DataHeaderSize, DataTPDUHeaderSize, FrameLimit, SizesInv
    <2> QED
      BY <1>0, <2>1, <2>4, <2>6, LimitsKept DEF PLCInv, Smaller
  <1>8. CASE UNCHANGED vars
    BY <1>0, <1>8, LimitsKept DEF vars, confirmVars, PLCInv, Smaller
  <1> QED
    BY <1>1, <1>2, <1>3, <1>4, <1>5, <1>6, <1>7, <1>8 DEF Next

\* Connect accepts from every peer what it has itself proposed, and reaches a
\* session of the smaller PDU with every scripted PLC of at least the minimum PDU.
THEOREM ConformingPeer == Spec => []ConformingPeerIsAccepted
  <1>1. Init => PLCInv
    BY DEF Init, PLCInv
  <1>2. SizesInv /\ PLCInv => ConformingPeerIsAccepted
    <2> SUFFICES ASSUME SizesInv, PLCInv PROVE ConformingPeerIsAccepted
      OBVIOUS
    <2>1. ASSUME pc = "setup"
          PROVE  LimitsValid([caller |-> 1, callee |-> 1, pdu |-> proposed])
      <3>1. /\ proposed >= 240 /\ proposed <= proposed
            /\ proposed + 3 <= tpdu /\ proposed + 7 <= FrameLimit
        BY <2>1 DEF SizesInv
      <3> QED
        BY <3>1
        DEF LimitsValid, FrameLimit, MinRequestedPDU, DataTPDUHeaderSize, DataHeaderSize
    <2>2. ASSUME peer # None, peer >= MinRequestedPDU
          PROVE  /\ error \in {"none", "invalid"}
                 /\ pc = "ready" => pdu = Smaller(config.pdu, peer)
      BY <2>2 DEF PLCInv, MinRequestedPDU, RequestedPDU
    <2> QED
      BY <2>1, <2>2 DEF ConformingPeerIsAccepted
  <1> QED
    BY SizesInit, SizesStep, PLCStep, <1>1, <1>2, PTL DEF Spec

-----------------------------------------------------------------------------
LEMMA PeerStep == PeerInv /\ [Next]_vars => PeerInv'
  <1> SUFFICES ASSUME PeerInv, [Next]_vars PROVE PeerInv'
    OBVIOUS
  <1>1. CASE New
    <2>1. config'.addressing = config.addressing /\ DOMAIN config' = DOMAIN config
      BY <1>1 DEF New, PeerInv
    <2>2. local' \in Int /\ local' # None
      BY <1>1, HandshakeAssumption DEF New, PeerInv, LocalTSAP, None
    <2>3. pc' \in {"idle", "failed"}
      BY <1>1 DEF New, Outcome
    <2> QED
      BY <2>1, <2>2, <2>3 DEF PeerInv
  <1>2. CASE ConnectionRequest
    BY <1>2 DEF ConnectionRequest, Outcome, PeerInv
  <1>3. CASE Parameter
    BY <1>3 DEF Parameter, Outcome, PeerInv
  <1>4. CASE MalformedConfirm
    BY <1>4 DEF MalformedConfirm, Outcome, PeerInv, confirmVars
  <1>5. CASE SetupRequest
    BY <1>5 DEF SetupRequest, Outcome, PeerInv, confirmVars, TSAPsMatch
  <1>6. CASE SetupResponse
    BY <1>6 DEF SetupResponse, Outcome, PeerInv, confirmVars, TSAPsMatch
  <1>7. CASE Exchange
    BY <1>7 DEF Exchange, Outcome, PeerInv, confirmVars, TSAPsMatch
  <1>8. CASE UNCHANGED vars
    BY <1>8 DEF vars, confirmVars, PeerInv, TSAPsMatch
  <1> QED
    BY <1>1, <1>2, <1>3, <1>4, <1>5, <1>6, <1>7, <1>8 DEF Next

\* A session becomes ready only with a peer that names no other TSAPs than the two
\* of the request, and not one of them for both sides.
THEOREM AddressedPeer == Spec => []PeerIsTheAddressedOne
  <1>1. Init => PeerInv
    BY DEF Init, PeerInv
  <1>2. PeerInv => PeerIsTheAddressedOne
    BY DEF PeerInv, PeerIsTheAddressedOne, TSAPsMatch
  <1> QED
    BY PeerStep, <1>1, <1>2, PTL DEF Spec
=============================================================================
