--------------------------- MODULE WriteBatchProofs ---------------------------
(***************************************************************************)
(* Write and WriteArea are correct for every batch and area, every PDU     *)
(* size and every limit of the configuration, whatever fails where.        *)
(***************************************************************************)
EXTENDS WriteBatch, PDUSizeProofs

\* The facts about the batch that the actions need.
LEMMA BatchFacts ==
    ASSUME WriteInv
    PROVE  /\ Batch \subseteq Index /\ Chosen \subseteq Index
           /\ pc \notin Holding => Batch = {}
           /\ \A i \in Batch : i \in Chosen /\ outcome[i] = "notAttempted"
  <1>1. Batch \subseteq Index /\ Chosen \subseteq Index
    BY DEF WriteInv, TypeInv, Batch, Chosen, Range
  <1>2. pc \notin Holding => Batch = {}
    BY DEF WriteInv, PlanInv, Batch, Range
  <1>3. ASSUME pc \in Holding, NEW k \in DOMAIN batch
        PROVE  batch[k] \in Chosen /\ outcome[batch[k]] = "notAttempted"
    <2> DEFINE j == at - 1 - Len(batch) + k
    <2>1. /\ Len(todo) \in Nat /\ DOMAIN todo = 1..Len(todo)
          /\ Len(batch) \in Nat /\ k \in 1..Len(batch) /\ at \in Nat
      <3>1. todo \in Seq(Index) /\ batch \in Seq(Index) /\ at \in Nat
        BY DEF WriteInv, TypeInv
      <3> HIDE DEF Index
      <3> QED BY <1>3, <3>1
    <2>2. at <= Len(todo) + 1 /\ Len(batch) < at /\ batch[k] = todo[j]
      BY <1>3 DEF WriteInv, PlanInv, Holding, Working
    <2>3. j \in DOMAIN todo /\ j >= at - Len(batch)
      BY <2>1, <2>2
    <2> QED BY <1>3, <2>2, <2>3 DEF WriteInv, ResultInv, Holding, Working, Chosen, Range
  <1> QED BY <1>1, <1>2, <1>3 DEF Batch, Range

\* writeLocked returns early with an error: every item of the call that was not
\* acknowledged has an Err, and the rest of the state is at rest.
LEMMA StopStep ==
    ASSUME WriteInv, pc \in Holding \cup {"begin"},
           NEW k, k # "none", NEW o \in {"notAttempted", "rejected", "unknown"},
           Stop(k, o), UNCHANGED <<callVars, at, sizeVars, confirmed, ctxDone>>
    PROVE  /\ outcome' = [i \in Index |-> IF i \in Batch THEN o ELSE outcome[i]]
           /\ outcome' \in [Index' -> Outcomes] /\ failed' \in [Index' -> BOOLEAN]
           /\ batch' = <<>> /\ pc' = "return" /\ fatal' = k
           /\ Index' = Index /\ Chosen' = Chosen /\ Batch' = {}
           /\ PlanInv' /\ SizeInv' /\ ResultInv' /\ AreaInv' /\ NoSilentFailure'
  <1>1. outcome' = [i \in Index |-> IF i \in Batch THEN o ELSE outcome[i]]
    BY DEF Stop
  <1>2. failed' = [i \in Index |-> failed[i] \/ i \in Batch
                                     \/ (i \in Chosen /\ outcome'[i] = "notAttempted")]
    BY <1>1 DEF Stop, MarkUnattempted
  <1>3. batch' = <<>> /\ pc' = "return" /\ fatal' = k
    BY DEF Stop
  <1>4. Index' = Index /\ Chosen' = Chosen /\ todo' = todo /\ items' = items /\ area' = area
    BY DEF callVars, Index, Chosen
  <1>5. Batch' = {}
    BY <1>3 DEF Batch, Range
  <1>6. outcome' \in [Index -> Outcomes] /\ failed' \in [Index -> BOOLEAN]
    BY <1>1, <1>2 DEF WriteInv, TypeInv, Outcomes
  <1>7. PlanInv' /\ SizeInv'
    BY <1>3, <1>4 DEF WriteInv, PlanInv, SizeInv, Holding, Working
  <1>8. \A i \in Chosen :
          /\ i \in Index
          /\ outcome[i] = "notAttempted" \/ outcome[i] = "acknowledged"
               \/ outcome[i] = "rejected"
          /\ failed[i] <=> outcome[i] = "rejected"
    <2>1. CASE pc = "begin"
      BY <2>1, BatchFacts DEF WriteInv, ResultInv
    <2>2. CASE pc \in Holding
      BY <2>2, BatchFacts DEF WriteInv, ResultInv, Chosen, Range, Holding, Working, TypeInv
    <2> QED BY <2>1, <2>2
  <1>9. NoSilentFailure'
    <2>1. \A i \in Chosen : failed'[i] <=> outcome'[i] # "acknowledged"
      BY <1>1, <1>2, <1>8, BatchFacts
    <2> QED BY <2>1, <1>3, <1>4 DEF NoSilentFailure
  <1>10. ASSUME area PROVE Len(todo) = 1 /\ todo[1] \in Chosen
                            /\ outcome'[todo[1]] # "acknowledged"
                            /\ outcome[todo[1]] = "notAttempted"
    <2>1. Len(todo) = 1 /\ 1 \in DOMAIN todo
      BY <1>10 DEF WriteInv, TypeInv, AreaInv
    <2>2. todo[1] \in Chosen
      BY <2>1 DEF Chosen, Range
    <2>3. outcome[todo[1]] = "notAttempted"
      <3>1. CASE pc = "begin"
        BY <2>2, <3>1 DEF WriteInv, ResultInv
      <3>2. CASE pc \in Holding
        <4>1. 1 >= at - Len(batch)
          BY <2>1, <3>2 DEF WriteInv, TypeInv, PlanInv, Holding, Working
        <4> QED BY <2>1, <3>2, <4>1 DEF WriteInv, ResultInv, Holding, Working
      <3> QED BY <3>1, <3>2
    <2> QED BY <1>1, <2>1, <2>2, <2>3, BatchFacts
  <1>11. ResultInv'
    BY <1>3, <1>4, <1>10 DEF ResultInv, Working
  <1>12. AreaInv'
    <2> SUFFICES ASSUME area PROVE AreaInv'
      BY <1>4 DEF AreaInv
    <2>1. pc # "done" /\ pc' # "done" /\ confirmed' = confirmed
      BY <1>3 DEF Holding
    <2>2. \A i \in Index : i # todo[1] => outcome'[i] = outcome[i] /\ failed'[i] = failed[i]
      <3>1. \A i \in Batch \cup Chosen : i = todo[1]
        BY <1>10, BatchFacts DEF Chosen, Range, WriteInv, TypeInv
      <3> QED BY <1>1, <1>2, <3>1 DEF WriteInv, TypeInv
    <2>3. todo[1] \in Int /\ \A i \in Index : i \in Int
      BY <1>10, BatchFacts, SMTT(30) DEF WriteInv, TypeInv, Index
    <2> QED BY <1>4, <1>10, <2>1, <2>2, <2>3 DEF WriteInv, AreaInv
  <1> QED BY <1>1, <1>3, <1>4, <1>5, <1>6, <1>7, <1>9, <1>11, <1>12

\* The types after such a return.
LEMMA StopType ==
    ASSUME TypeInv, UNCHANGED <<callVars, at, sizeVars, confirmed, ctxDone, generation>>,
           outcome' \in [Index' -> Outcomes], failed' \in [Index' -> BOOLEAN],
           batch' = <<>>, pc' = "return", session' \in {"ready", "broken"},
           net' \subseteq [session : Nat, items : SUBSET Index],
           reply' = reply \/ reply' = NoReply,
           issued' \in [Index -> Nat], applied' = applied
    PROVE  TypeInv'
  <1>1. /\ items' = items /\ area' = area /\ todo' = todo /\ at' = at
        /\ requestSize' = requestSize /\ responseSize' = responseSize
        /\ confirmed' = confirmed /\ ctxDone' = ctxDone /\ generation' = generation
    BY DEF callVars, sizeVars
  <1>2. Index' = Index
    BY <1>1 DEF Index
  <1>3. reply' \in [kind : {"none", "codes", "globalCode", "badFrame", "badPayload"},
                    refused : SUBSET Index]
    BY DEF TypeInv, NoReply
  <1>4. batch' \in Seq(Index)
    OBVIOUS
  <1> QED BY <1>1, <1>2, <1>3, <1>4 DEF TypeInv

-----------------------------------------------------------------------------
\* The steps of writeLocked that stop.  Nothing of the batch was sent, unless the
\* outcome is unknown or the PLC has answered.

\* The requests under way and the items' outcomes, when a batch that was not sent
\* is given up.
LEMMA UnsentStep ==
    ASSUME WriteInv, pc \in {"begin", "pack", "exchange"},
           outcome' = [i \in Index |-> IF i \in Batch THEN "notAttempted" ELSE outcome[i]],
           Index' = Index, pc' = "return", net' = net, applied' = applied, issued' = issued,
           generation' = generation, session' = session \/ session' = "broken",
           reply' = reply \/ reply' = NoReply
    PROVE  NetInv' /\ \A i \in Index' : ItemInv(i)'
  <1>1. NetInv'
    BY DEF WriteInv, NetInv, NoReply, Batch
  <1>2. outcome' = outcome
    BY BatchFacts DEF WriteInv, TypeInv
  <1>3. \A i \in Index : ItemInv(i)'
    BY <1>2 DEF WriteInv, ItemInv, Pending, InNet
  <1> QED BY <1>1, <1>3

LEMMA RefuseWrite == ASSUME WriteInv, Refuse PROVE WriteInv'
  <1>1. pc = "begin" /\ \E k \in {"notConnected", "canceled", "limit"} :
                            Stop(k, "notAttempted")
    BY DEF Refuse
  <1>2. PICK k \in {"notConnected", "canceled", "limit"} : Stop(k, "notAttempted")
    BY <1>1
  <1>3. UNCHANGED <<callVars, at, sizeVars, confirmed, ctxDone, sessionVars, plcVars,
                    reply, read, issued, calls>>
    BY DEF Refuse
  <1>4. /\ outcome' = [i \in Index |-> IF i \in Batch THEN "notAttempted" ELSE outcome[i]]
        /\ outcome' \in [Index' -> Outcomes] /\ failed' \in [Index' -> BOOLEAN]
        /\ batch' = <<>> /\ pc' = "return" /\ fatal' = k
        /\ Index' = Index /\ Chosen' = Chosen
        /\ PlanInv' /\ SizeInv' /\ ResultInv' /\ AreaInv' /\ NoSilentFailure'
    BY <1>1, <1>2, <1>3, StopStep
  <1>5. NetInv' /\ \A i \in Index' : ItemInv(i)'
    BY <1>1, <1>3, <1>4, UnsentStep DEF sessionVars, plcVars
  <1>6. LimitBeforeIO'
    BY <1>1, <1>3, <1>4, BatchFacts
    DEF WriteInv, LimitBeforeIO, ResultInv, ItemInv, Pending
  <1>7. TypeInv'
    BY <1>3, <1>4, StopType DEF WriteInv, TypeInv, sessionVars, plcVars
  <1> QED BY <1>4, <1>5, <1>6, <1>7 DEF WriteInv

LEMMA PlanStopsWrite == ASSUME WriteInv, PlanStops PROVE WriteInv'
  <1>1. pc = "pack" /\ ~Fits /\ (batch # <<>> => Stop("canceled", "notAttempted"))
        /\ UNCHANGED <<callVars, at, sizeVars, confirmed, ctxDone, sessionVars, plcVars,
                       reply, read, issued, calls>>
    BY DEF PlanStops
  <1>2. batch # <<>>
    <2> SUFFICES ASSUME batch = <<>> PROVE Fits
      BY <1>1
    <2>1. at <= Len(todo) /\ at \in DOMAIN todo
      BY <1>1 DEF WriteInv, TypeInv, PlanInv, Working
    <2>2. 28 + items[todo[at]] <= PDU /\ items[todo[at]] \in Int /\ PDU \in Nat /\ PDU >= 240
      BY <1>1, <2>1, WriteAssumption DEF WriteInv, TypeInv, SizeInv, Working, Index
    <2>3. requestSize = 12 /\ responseSize = 14 /\ Len(batch) = 0
      <3>1. LensOf(batch) = <<>>
        BY DEF LensOf
      <3> QED BY <1>1, <3>1, SizesOfNone
              DEF WriteInv, SizeInv, Holding, WriteResponseSize, AckHeaderSize
    <2> QED BY <2>1, <2>2, <2>3, WriteAssumption
            DEF Fits, CandidateRequest, CandidateResponse, Padding
  <1>3. Stop("canceled", "notAttempted")
    BY <1>1, <1>2
  <1>4. /\ outcome' = [i \in Index |-> IF i \in Batch THEN "notAttempted" ELSE outcome[i]]
        /\ outcome' \in [Index' -> Outcomes] /\ failed' \in [Index' -> BOOLEAN]
        /\ batch' = <<>> /\ pc' = "return" /\ fatal' = "canceled"
        /\ Index' = Index /\ Chosen' = Chosen
        /\ PlanInv' /\ SizeInv' /\ ResultInv' /\ AreaInv' /\ NoSilentFailure'
    BY <1>1, <1>3, StopStep DEF Holding
  <1>5. NetInv' /\ \A i \in Index' : ItemInv(i)'
    BY <1>1, <1>4, UnsentStep DEF sessionVars, plcVars
  <1>6. LimitBeforeIO'
    BY <1>4 DEF LimitBeforeIO
  <1>7. TypeInv'
    BY <1>1, <1>4, StopType DEF WriteInv, TypeInv, sessionVars, plcVars
  <1> QED BY <1>4, <1>5, <1>6, <1>7 DEF WriteInv

LEMMA UnsentWrite ==
    ASSUME WriteInv, ExchangeCanceled \/ WriteFailsUnsent
    PROVE  WriteInv'
  <1>1. pc = "exchange" /\ \E k \in {"canceled", "transport"} : Stop(k, "notAttempted")
    BY DEF ExchangeCanceled, WriteFailsUnsent, OutcomeOfFailure
  <1>2. PICK k \in {"canceled", "transport"} : Stop(k, "notAttempted")
    BY <1>1
  <1>3. /\ UNCHANGED <<callVars, at, sizeVars, confirmed, ctxDone, plcVars, issued,
                       generation>>
        /\ session' = session \/ session' = "broken"
        /\ reply' = reply \/ reply' = NoReply
    BY DEF ExchangeCanceled, WriteFailsUnsent, BreakSession, sessionVars
  <1>4. /\ outcome' = [i \in Index |-> IF i \in Batch THEN "notAttempted" ELSE outcome[i]]
        /\ outcome' \in [Index' -> Outcomes] /\ failed' \in [Index' -> BOOLEAN]
        /\ batch' = <<>> /\ pc' = "return" /\ fatal' = k
        /\ Index' = Index /\ Chosen' = Chosen
        /\ PlanInv' /\ SizeInv' /\ ResultInv' /\ AreaInv' /\ NoSilentFailure'
    BY <1>1, <1>2, <1>3, StopStep DEF Holding
  <1>5. NetInv' /\ \A i \in Index' : ItemInv(i)'
    BY <1>1, <1>3, <1>4, UnsentStep DEF plcVars
  <1>6. LimitBeforeIO'
    BY <1>4 DEF LimitBeforeIO
  <1>7. TypeInv'
    BY <1>3, <1>4, StopType DEF WriteInv, TypeInv, plcVars
  <1> QED BY <1>4, <1>5, <1>6, <1>7 DEF WriteInv

\* A batch that may have reached the PLC is unknown, and its session is gone.
LEMMA SentWrite ==
    ASSUME WriteInv, WriteFailsPartial \/ ReadFails \/ ReadMalformed
    PROVE  WriteInv'
  <1>1. /\ pc \in {"exchange", "await"}
        /\ \E k \in {"transport", "protocol"} : Stop(k, "unknown")
        /\ UNCHANGED <<callVars, at, sizeVars, confirmed, ctxDone, applied, generation>>
        /\ session' = "broken" /\ reply' = NoReply
    BY DEF WriteFailsPartial, ReadFails, ReadMalformed, OutcomeOfFailure, BreakSession, plcVars
  <1>2. PICK k \in {"transport", "protocol"} : Stop(k, "unknown")
    BY <1>1
  <1>3. \/ net' = net /\ issued' = issued
        \/ /\ pc = "exchange" /\ net' \in {net, net \cup {Request}}
           /\ issued' = [i \in Index |-> IF i \in Batch THEN issued[i] + 1 ELSE issued[i]]
    BY DEF WriteFailsPartial, ReadFails, ReadMalformed, plcVars, Issue
  <1>4. /\ outcome' = [i \in Index |-> IF i \in Batch THEN "unknown" ELSE outcome[i]]
        /\ outcome' \in [Index' -> Outcomes] /\ failed' \in [Index' -> BOOLEAN]
        /\ batch' = <<>> /\ pc' = "return" /\ fatal' = k /\ Batch' = {}
        /\ Index' = Index /\ Chosen' = Chosen
        /\ PlanInv' /\ SizeInv' /\ ResultInv' /\ AreaInv' /\ NoSilentFailure'
    BY <1>1, <1>2, StopStep DEF Holding
  <1>5. Request = [session |-> generation, items |-> Batch] /\ Batch \subseteq Index
    BY BatchFacts DEF Request
  <1>6. pc = "exchange" => \A i \in Batch : applied[i] = 0 /\ ~InNet(i)
    BY BatchFacts DEF WriteInv, ItemInv, Pending
  <1>7. NetInv'
    <2>1. \A r \in net' : r.session <= generation
      BY <1>3, <1>5 DEF WriteInv, NetInv, TypeInv
    <2>2. \A r, s \in net' : r.items \cap s.items # {} => r = s
      BY <1>3, <1>5, <1>6 DEF WriteInv, NetInv, InNet
    <2> QED BY <1>1, <1>4, <2>1, <2>2 DEF NetInv, NoReply
  <1>8. \A i \in Index : ItemInv(i)'
    <2> SUFFICES ASSUME NEW i \in Index PROVE ItemInv(i)'
      OBVIOUS
    <2>1. ItemInv(i) /\ ~Pending(i)' /\ applied'[i] = applied[i]
      BY <1>1, <1>4 DEF WriteInv, Pending
    <2>2. CASE i \in Batch
      <3>1. outcome'[i] = "unknown"
        BY <1>4, <2>2
      <3>2. applied[i] = 0 \/ (applied[i] = 1 /\ ~InNet(i)')
        BY <1>3, <1>6, <2>1, <2>2 DEF ItemInv, InNet
      <3> QED BY <2>1, <3>1, <3>2 DEF ItemInv
    <2>3. CASE i \notin Batch
      <3>1. outcome'[i] = outcome[i] /\ issued'[i] = issued[i] /\ ~Pending(i)
        BY <1>3, <1>4, <2>3 DEF Pending
      <3>2. InNet(i)' <=> InNet(i)
        BY <1>3, <1>5, <2>3 DEF InNet
      <3> QED BY <2>1, <3>1, <3>2 DEF ItemInv
    <2> QED BY <2>2, <2>3
  <1>9. LimitBeforeIO'
    BY <1>4 DEF LimitBeforeIO
  <1>10. TypeInv'
    <2>1. net' \subseteq [session : Nat, items : SUBSET Index]
      <3>1. generation \in Nat /\ net \subseteq [session : Nat, items : SUBSET Index]
        BY DEF WriteInv, TypeInv
      <3>2. Request \in [session : Nat, items : SUBSET Index]
        BY <1>5, <3>1
      <3> QED BY <1>3, <3>1, <3>2
    <2>2. issued' \in [Index -> Nat]
      <3>1. issued \in [Index -> Nat]
        BY DEF WriteInv, TypeInv
      <3> QED BY <1>3, <3>1
    <2> QED BY <1>1, <1>4, <2>1, <2>2, StopType DEF WriteInv
  <1> QED BY <1>4, <1>7, <1>8, <1>9, <1>10 DEF WriteInv

\* A global return code refuses the whole batch; the session stays.
LEMMA GlobalCodeWrite == ASSUME WriteInv, ReadGlobalCode PROVE WriteInv'
  <1>1. /\ pc = "await" /\ reply.kind = "globalCode" /\ Stop("plc", "rejected")
        /\ UNCHANGED <<callVars, at, sizeVars, confirmed, ctxDone>>
        /\ session' = session /\ generation' = generation /\ net' = net
        /\ applied' = applied /\ reply' = NoReply /\ issued' = issued
    BY DEF ReadGlobalCode, sessionVars, plcVars
  <1>2. /\ outcome' = [i \in Index |-> IF i \in Batch THEN "rejected" ELSE outcome[i]]
        /\ outcome' \in [Index' -> Outcomes] /\ failed' \in [Index' -> BOOLEAN]
        /\ batch' = <<>> /\ pc' = "return" /\ fatal' = "plc" /\ Batch' = {}
        /\ Index' = Index /\ Chosen' = Chosen
        /\ PlanInv' /\ SizeInv' /\ ResultInv' /\ AreaInv' /\ NoSilentFailure'
    BY <1>1, StopStep DEF Holding
  <1>3. NetInv'
    BY <1>1, <1>2 DEF WriteInv, NetInv, NoReply
  <1>4. \A i \in Index : ItemInv(i)'
    <2> SUFFICES ASSUME NEW i \in Index PROVE ItemInv(i)'
      OBVIOUS
    <2>1. ItemInv(i) /\ ~Pending(i)' /\ (InNet(i)' <=> InNet(i))
      BY <1>1, <1>2 DEF WriteInv, Pending, InNet
    <2>2. CASE i \in Batch
      BY <1>1, <1>2, <2>1, <2>2 DEF ItemInv, Pending
    <2>3. CASE i \notin Batch
      BY <1>1, <1>2, <2>1, <2>3 DEF ItemInv, Pending
    <2> QED BY <2>2, <2>3
  <1>5. LimitBeforeIO'
    BY <1>2 DEF LimitBeforeIO
  <1>6. TypeInv'
    BY <1>1, <1>2, StopType DEF WriteInv, TypeInv
  <1> QED BY <1>2, <1>3, <1>4, <1>5, <1>6 DEF WriteInv

-----------------------------------------------------------------------------
\* Planning

\* Steps of the client that send and read nothing.
LEMMA QuietStep ==
    ASSUME WriteInv, pc # "await", pc' # "await", Index' = Index,
           UNCHANGED <<outcome, issued, applied, net, session, generation, reply>>
    PROVE  NetInv' /\ \A i \in Index' : ItemInv(i)'
  <1>1. NetInv'
    BY DEF WriteInv, NetInv
  <1>2. \A i \in Index : ItemInv(i)'
    BY DEF WriteInv, ItemInv, Pending, InNet
  <1> QED BY <1>1, <1>2

LEMMA BeginWrite == ASSUME WriteInv, Begin PROVE WriteInv'
  <1> USE DEF callVars, sizeVars, resultVars, sessionVars, plcVars
  <1>1. /\ pc = "begin" /\ pc' = "plan" /\ at' = 1 /\ session = "ready"
        /\ Preflight(LensOf(todo))
        /\ UNCHANGED <<items, area, todo, batch, requestSize, responseSize, outcome, failed,
                       fatal, confirmed, ctxDone, session, generation, net, applied, reply,
                       issued>>
    BY DEF Begin
  <1>2. batch = <<>> /\ Len(todo) \in Nat /\ Len(todo) > 0
    BY <1>1 DEF WriteInv, TypeInv, PlanInv, Holding
  <1>3. TypeInv'
    BY <1>1 DEF WriteInv, TypeInv, Index, Working
  <1>4. PlanInv'
    BY <1>1, <1>2 DEF WriteInv, PlanInv, Holding, Working
  <1>5. SizeInv'
    <2>1. ASSUME NEW k \in DOMAIN todo PROVE 28 + items[todo[k]] <= PDU
      <3>1. items[todo[k]] \in Int
        BY DEF WriteInv, TypeInv, Index
      <3>2. WriteRequestSize(<<items[todo[k]]>>) <= PDU
        BY <1>1 DEF Preflight, LensOf
      <3> QED BY <3>1, <3>2, SizeOfOne
    <2> QED BY <1>1, <2>1 DEF SizeInv, Holding
  <1>6. ResultInv'
    BY <1>1, <1>2 DEF WriteInv, ResultInv, Working, Chosen, Range
  <1>7. AreaInv'
    BY <1>1 DEF WriteInv, AreaInv, Index
  <1>8. NetInv' /\ \A i \in Index' : ItemInv(i)'
    BY <1>1, QuietStep DEF Index
  <1>9. NoSilentFailure' /\ LimitBeforeIO'
    BY <1>1, <1>6 DEF NoSilentFailure, LimitBeforeIO, ResultInv, Working
  <1> QED BY <1>3, <1>4, <1>5, <1>6, <1>7, <1>8, <1>9 DEF WriteInv

LEMMA NextWriteBatchWrite == ASSUME WriteInv, NextWriteBatch PROVE WriteInv'
  <1> USE DEF callVars, sizeVars, resultVars, sessionVars, plcVars
  <1>1. /\ pc = "plan" /\ pc' = "pack" /\ at <= Len(todo)
        /\ batch' = <<>> /\ requestSize' = 12 /\ responseSize' = 14
        /\ UNCHANGED <<items, area, todo, at, outcome, failed, fatal, confirmed, ctxDone,
                       session, generation, net, applied, reply, issued>>
    BY DEF NextWriteBatch
  <1>2. batch = <<>>
    BY <1>1 DEF WriteInv, PlanInv, Holding
  <1>3. TypeInv'
    <2>1. Index' = Index /\ batch' \in Seq(Index)
      BY <1>1 DEF Index
    <2>2. pc' \in Working /\ {requestSize', responseSize', confirmed} \subseteq Int
      BY <1>1 DEF WriteInv, TypeInv, Working
    <2> QED BY <1>1, <2>1, <2>2 DEF WriteInv, TypeInv
  <1>4. PlanInv'
    BY <1>1, <1>2 DEF WriteInv, PlanInv, Holding, Working
  <1>5. SizeInv'
    <2>1. LensOf(batch)' = <<>> /\ Len(batch') = 0
      BY <1>1 DEF LensOf
    <2>2. MaxItemsPerPDU \in Nat
      BY WriteAssumption
    <2> QED BY <1>1, <2>1, <2>2, SizesOfNone
            DEF WriteInv, SizeInv, Working, WriteResponseSize, AckHeaderSize
  <1>6. ResultInv'
    BY <1>1, <1>2 DEF WriteInv, ResultInv, Working
  <1>7. AreaInv'
    BY <1>1 DEF WriteInv, AreaInv, Index
  <1>8. NetInv' /\ \A i \in Index' : ItemInv(i)'
    BY <1>1, QuietStep DEF Index
  <1>9. NoSilentFailure' /\ LimitBeforeIO'
    BY <1>1, <1>6 DEF NoSilentFailure, LimitBeforeIO, ResultInv, Working
  <1> QED BY <1>3, <1>4, <1>5, <1>6, <1>7, <1>8, <1>9 DEF WriteInv

LEMMA PackWrite == ASSUME WriteInv, Pack PROVE WriteInv'
  <1> USE DEF callVars, sizeVars, resultVars, sessionVars, plcVars
  <1>1. /\ pc = "pack" /\ pc' = pc /\ Fits /\ batch' = Append(batch, todo[at])
        /\ requestSize' = CandidateRequest /\ responseSize' = CandidateResponse
        /\ at' = at + 1
        /\ UNCHANGED <<items, area, todo, outcome, failed, fatal, confirmed, ctxDone,
                       session, generation, net, applied, reply, issued>>
    BY DEF Pack
  <1>2. /\ batch \in Seq(Index) /\ todo \in Seq(Index) /\ items \in Seq(Int) /\ at \in Nat
        /\ at <= Len(todo) /\ Len(batch) < at /\ requestSize \in Int /\ responseSize \in Int
    BY <1>1 DEF WriteInv, TypeInv, PlanInv, Working, Fits
  <1>3. /\ at \in DOMAIN todo /\ todo[at] \in Index /\ items[todo[at]] \in Int
        /\ Len(batch) \in Nat
    BY <1>2 DEF Index
  <1>4. /\ batch' \in Seq(Index) /\ Len(batch') = Len(batch) + 1 /\ batch' # <<>>
        /\ \A k \in 1..Len(batch) : batch'[k] = batch[k]
        /\ batch'[Len(batch) + 1] = todo[at]
    BY <1>1, <1>2, <1>3
  <1>5. LensOf(batch) \in Seq(Int) /\ LensOf(batch)' = Append(LensOf(batch), items[todo[at]])
    <2>1. /\ DOMAIN batch = 1..Len(batch) /\ DOMAIN batch' = 1..(Len(batch) + 1)
          /\ \A k \in DOMAIN batch : items[batch[k]] \in Int
      BY <1>2, <1>3, <1>4 DEF Index
    <2>2. LensOf(batch) \in Seq(Int) /\ Len(LensOf(batch)) = Len(batch)
      BY <1>3, <2>1 DEF LensOf
    <2>3. LensOf(batch)' = [k \in 1..(Len(batch) + 1) |-> items[batch'[k]]]
      BY <1>1, <2>1 DEF LensOf
    <2>4. \A k \in 1..(Len(batch) + 1) :
            items[batch'[k]] = IF k <= Len(batch) THEN LensOf(batch)[k] ELSE items[todo[at]]
      BY <1>3, <1>4, <2>1 DEF LensOf
    <2> QED BY <1>3, <2>2, <2>3, <2>4
  <1>6. Padding = LastPadding(LensOf(batch)) /\ Padding \in Int
    <2>1. Len(LensOf(batch)) = Len(batch)
          /\ \A k \in 1..Len(batch) : LensOf(batch)[k] = items[batch[k]]
      BY <1>2 DEF LensOf
    <2>2. CASE batch = <<>>
      BY <2>1, <2>2 DEF Padding, LastPadding
    <2>3. CASE batch # <<>>
      <3>1. Len(batch) \in 1..Len(batch) /\ LensOf(batch) # <<>>
        BY <1>2, <2>1, <2>3
      <3> QED BY <2>1, <2>3, <3>1 DEF Padding, LastPadding
    <2> QED BY <2>2, <2>3
  <1>7. TypeInv'
    <2>1. {requestSize', responseSize', confirmed} \subseteq Int
      BY <1>1, <1>2, <1>3, <1>6 DEF CandidateRequest, CandidateResponse, WriteInv, TypeInv
    <2>2. Index' = Index /\ at' \in Nat
      BY <1>1, <1>2 DEF Index
    <2> QED BY <1>1, <1>4, <2>1, <2>2 DEF WriteInv, TypeInv
  <1>8. PlanInv'
    <2>1. \A k \in DOMAIN batch' : batch'[k] = todo[at' - 1 - Len(batch') + k]
      <3> SUFFICES ASSUME NEW k \in 1..(Len(batch) + 1)
                   PROVE  batch'[k] = todo[at' - 1 - Len(batch') + k]
        BY <1>4
      <3>1. at' - 1 - Len(batch') + k = at - 1 - Len(batch) + k
        BY <1>1, <1>2, <1>3, <1>4
      <3>2. CASE k = Len(batch) + 1
        <4>1. at - 1 - Len(batch) + k = at
          BY <1>2, <1>3, <3>2
        <4> QED BY <1>4, <3>1, <3>2, <4>1
      <3>3. CASE k \in 1..Len(batch)
        <4>1. k \in DOMAIN batch
          BY <1>2, <3>3
        <4>2. batch[k] = todo[at - 1 - Len(batch) + k]
          BY <1>1, <4>1 DEF WriteInv, PlanInv, Working
        <4> QED BY <1>4, <3>1, <3>3, <4>2
      <3> QED BY <1>3, <3>2, <3>3
    <2>2. at' <= Len(todo) + 1 /\ Len(batch') < at'
      BY <1>1, <1>2, <1>3, <1>4
    <2> QED BY <1>1, <1>4, <2>1, <2>2 DEF WriteInv, PlanInv, Holding, Working
  <1>9. SizeInv'
    <2>1. requestSize = WriteRequestSize(LensOf(batch)) /\ responseSize = 14 + Len(batch)
          /\ Len(batch) <= MaxItemsPerPDU
      BY <1>1 DEF WriteInv, SizeInv, Holding, WriteResponseSize, AckHeaderSize
    <2>2. requestSize' = WriteRequestSize(LensOf(batch))'
      <3>1. WriteRequestSize(Append(LensOf(batch), items[todo[at]])) =
              WriteRequestSize(LensOf(batch)) + 12 + 4 + items[todo[at]]
                + LastPadding(LensOf(batch))
        BY <1>3, <1>5, WriteSizeGrows
      <3> QED BY <1>1, <1>5, <1>6, <2>1, <3>1 DEF CandidateRequest
    <2>3. responseSize' = WriteResponseSize(Len(batch))'
      BY <1>1, <1>3, <1>4, <2>1 DEF CandidateResponse, WriteResponseSize, AckHeaderSize
    <2>4. Len(batch') <= MaxItemsPerPDU
      BY <1>1, <1>3, <1>4, <2>1, WriteAssumption DEF Fits
    <2>5. requestSize' <= PDU /\ responseSize' <= PDU
      BY <1>1 DEF Fits
    <2> QED BY <1>1, <2>2, <2>3, <2>4, <2>5 DEF WriteInv, SizeInv, Working
  <1>10. ResultInv'
    <2>1. at' - Len(batch') = at - Len(batch)
      BY <1>1, <1>2, <1>3, <1>4
    <2> QED BY <1>1, <2>1 DEF WriteInv, ResultInv, Working
  <1>11. AreaInv'
    BY <1>1 DEF WriteInv, AreaInv, Index
  <1>12. NetInv' /\ \A i \in Index' : ItemInv(i)'
    BY <1>1, QuietStep DEF Index
  <1>13. NoSilentFailure' /\ LimitBeforeIO'
    BY <1>1, <1>10 DEF NoSilentFailure, LimitBeforeIO, ResultInv, Working
  <1> QED BY <1>7, <1>8, <1>9, <1>10, <1>11, <1>12, <1>13 DEF WriteInv

LEMMA PlanWrite == ASSUME WriteInv, Plan PROVE WriteInv'
  <1> USE DEF callVars, sizeVars, planVars, resultVars, sessionVars, plcVars
  <1>1. /\ pc = "pack" /\ pc' = "exchange" /\ batch # <<>>
        /\ UNCHANGED <<items, area, todo, at, batch, requestSize, responseSize, outcome,
                       failed, fatal, confirmed, ctxDone, session, generation, net, applied,
                       reply, issued>>
    BY DEF Plan
  <1>2. TypeInv'
    BY <1>1 DEF WriteInv, TypeInv, Index, Working
  <1>3. PlanInv'
    BY <1>1 DEF WriteInv, PlanInv, Holding, Working
  <1>4. SizeInv'
    BY <1>1 DEF WriteInv, SizeInv, Holding, Working, LensOf
  <1>5. ResultInv'
    BY <1>1 DEF WriteInv, ResultInv, Working
  <1>6. AreaInv'
    BY <1>1 DEF WriteInv, AreaInv, Index
  <1>7. NetInv' /\ \A i \in Index' : ItemInv(i)'
    BY <1>1, QuietStep DEF Index
  <1>8. NoSilentFailure' /\ LimitBeforeIO'
    BY <1>1, <1>5 DEF NoSilentFailure, LimitBeforeIO, ResultInv, Working
  <1> QED BY <1>2, <1>3, <1>4, <1>5, <1>6, <1>7, <1>8 DEF WriteInv

\* Every item of the call has its answer.
LEMMA FinishWrite == ASSUME WriteInv, Finish PROVE WriteInv'
  <1> USE DEF callVars, sizeVars, planVars, resultVars, sessionVars, plcVars
  <1>1. /\ pc = "plan" /\ pc' = "return" /\ at > Len(todo) /\ fatal' = "none"
        /\ UNCHANGED <<items, area, todo, at, batch, requestSize, responseSize, outcome,
                       failed, confirmed, ctxDone, session, generation, net, applied,
                       reply, issued>>
    BY DEF Finish
  <1>2. TypeInv'
    BY <1>1 DEF WriteInv, TypeInv, Index, Working
  <1>3. PlanInv'
    BY <1>1 DEF WriteInv, PlanInv, Holding, Working
  <1>4. SizeInv'
    BY <1>1 DEF SizeInv, Holding, Working
  <1>5. ResultInv'
    BY <1>1 DEF ResultInv, Working
  <1>6. AreaInv'
    BY <1>1 DEF WriteInv, AreaInv, Index
  <1>7. NetInv' /\ \A i \in Index' : ItemInv(i)'
    BY <1>1, QuietStep DEF Index
  <1>8. NoSilentFailure'
    <2>1. batch = <<>> /\ Len(batch) = 0
      BY <1>1 DEF WriteInv, PlanInv, Holding
    <2>2. \A k \in DOMAIN todo : k < at - Len(batch)
      BY <1>1, <2>1 DEF WriteInv, TypeInv
    <2>3. \A k \in DOMAIN todo : /\ outcome[todo[k]] \in {"acknowledged", "rejected"}
                                 /\ failed[todo[k]] <=> outcome[todo[k]] = "rejected"
      BY <1>1, <2>2 DEF WriteInv, ResultInv, Working
    <2> QED BY <1>1, <2>3 DEF NoSilentFailure, Chosen, Range
  <1>9. LimitBeforeIO'
    BY <1>1 DEF LimitBeforeIO
  <1> QED BY <1>2, <1>3, <1>4, <1>5, <1>6, <1>7, <1>8, <1>9 DEF WriteInv

-----------------------------------------------------------------------------
\* The exchange

\* A whole request is on its way: its items wait for the answer.
LEMMA RequestWrite == ASSUME WriteInv, WriteRequest PROVE WriteInv'
  <1> USE DEF callVars, sizeVars, planVars, resultVars, sessionVars, plcVars
  <1>1. /\ pc = "exchange" /\ pc' = "await" /\ net' = net \cup {Request}
        /\ issued' = [i \in Index |-> IF i \in Batch THEN issued[i] + 1 ELSE issued[i]]
        /\ UNCHANGED <<items, area, todo, at, batch, requestSize, responseSize, outcome,
                       failed, fatal, confirmed, ctxDone, session, generation, applied,
                       reply>>
    BY DEF WriteRequest, Issue
  <1>2. Index' = Index /\ Chosen' = Chosen /\ Batch' = Batch
    BY <1>1 DEF Index, Chosen, Batch
  <1>3. Request = [session |-> generation, items |-> Batch] /\ Batch \subseteq Index
    BY BatchFacts DEF Request
  <1>4. \A i \in Batch : applied[i] = 0 /\ ~InNet(i)
    BY <1>1, BatchFacts DEF WriteInv, ItemInv, Pending
  <1>5. reply.kind = "none" /\ session = "ready" /\ \A r \in net : r.session # generation
    BY <1>1 DEF WriteInv, NetInv, PlanInv, Working
  <1>6. TypeInv'
    <2>1. generation \in Nat /\ net \subseteq [session : Nat, items : SUBSET Index]
          /\ issued \in [Index -> Nat]
      BY DEF WriteInv, TypeInv
    <2>2. Request \in [session : Nat, items : SUBSET Index]
      BY <1>3, <2>1
    <2>3. net' \subseteq [session : Nat, items : SUBSET Index] /\ issued' \in [Index -> Nat]
      BY <1>1, <2>1, <2>2
    <2> QED BY <1>1, <1>2, <2>3 DEF WriteInv, TypeInv, Working
  <1>7. PlanInv'
    BY <1>1 DEF WriteInv, PlanInv, Holding, Working
  <1>8. SizeInv'
    BY <1>1 DEF WriteInv, SizeInv, Holding, Working, LensOf
  <1>9. ResultInv'
    BY <1>1 DEF WriteInv, ResultInv, Working
  <1>10. AreaInv'
    BY <1>1, <1>2 DEF WriteInv, AreaInv
  <1>11. NetInv'
    <2>1. \A r \in net' : r.session <= generation
      BY <1>1, <1>3 DEF WriteInv, NetInv, TypeInv
    <2>2. \A r, s \in net' : r.items \cap s.items # {} => r = s
      BY <1>1, <1>3, <1>4 DEF WriteInv, NetInv, InNet
    <2>3. \A r \in net' : r.session = generation => r.items = Batch
      BY <1>1, <1>3, <1>5
    <2> QED BY <1>1, <1>2, <1>5, <2>1, <2>2, <2>3 DEF NetInv
  <1>12. \A i \in Index : ItemInv(i)'
    <2> SUFFICES ASSUME NEW i \in Index PROVE ItemInv(i)'
      OBVIOUS
    <2>1. ItemInv(i)
      BY DEF WriteInv
    <2>2. CASE i \in Batch
      <3>1. outcome'[i] = "notAttempted" /\ Pending(i)' /\ applied'[i] = 0
            /\ reply'.kind = "none"
        BY <1>1, <1>2, <1>4, <1>5, <2>2, BatchFacts DEF Pending
      <3> QED BY <3>1 DEF ItemInv
    <2>3. CASE i \notin Batch
      <3>1. ~Pending(i) /\ ~Pending(i)' /\ issued'[i] = issued[i]
        BY <1>1, <1>2, <2>3 DEF Pending
      <3>2. InNet(i)' <=> InNet(i)
        BY <1>1, <1>3, <2>3 DEF InNet
      <3> QED BY <1>1, <2>1, <3>1, <3>2 DEF ItemInv
    <2> QED BY <2>2, <2>3
  <1>13. NoSilentFailure' /\ LimitBeforeIO'
    BY <1>1, <1>9 DEF NoSilentFailure, LimitBeforeIO, ResultInv, Working
  <1> QED BY <1>2, <1>6, <1>7, <1>8, <1>9, <1>10, <1>11, <1>12, <1>13 DEF WriteInv

\* Which positions of todo are in the batch.
LEMMA Positions ==
    ASSUME WriteInv, pc \in Working, NEW k \in DOMAIN todo
    PROVE  k >= at - Len(batch) /\ k < at <=> todo[k] \in Batch
  <1>1. /\ at \in Nat /\ Len(batch) \in Nat /\ DOMAIN batch = 1..Len(batch)
        /\ DOMAIN todo = 1..Len(todo) /\ Len(todo) \in Nat
    <2>1. todo \in Seq(Index) /\ batch \in Seq(Index) /\ at \in Nat
      BY DEF WriteInv, TypeInv
    <2> QED BY <2>1
  <1>2. /\ at <= Len(todo) + 1 /\ Len(batch) < at
        /\ \A j \in DOMAIN batch : batch[j] = todo[at - 1 - Len(batch) + j]
        /\ \A i, j \in DOMAIN todo : todo[i] = todo[j] => i = j
    BY DEF WriteInv, PlanInv
  <1>3. ASSUME k >= at - Len(batch), k < at PROVE todo[k] \in Batch
    <2> DEFINE j == k - (at - 1 - Len(batch))
    <2>1. j \in DOMAIN batch /\ at - 1 - Len(batch) + j = k
      BY <1>1, <1>2, <1>3
    <2> QED BY <1>2, <2>1 DEF Batch, Range
  <1>4. ASSUME todo[k] \in Batch PROVE k >= at - Len(batch) /\ k < at
    <2>1. PICK j \in DOMAIN batch : todo[k] = batch[j]
      BY <1>4 DEF Batch, Range
    <2> DEFINE m == at - 1 - Len(batch) + j
    <2>2. m \in DOMAIN todo /\ m >= at - Len(batch) /\ m < at
      BY <1>1, <1>2
    <2>3. todo[k] = todo[m]
      BY <1>2, <2>1
    <2>4. k = m
      BY <1>2, <2>2, <2>3
    <2> QED BY <2>2, <2>4
  <1> QED BY <1>3, <1>4

\* The return codes settle the items of the batch and of no other.
LEMMA CodesWrite == ASSUME WriteInv, ReadCodes PROVE WriteInv'
  <1> USE DEF callVars, sizeVars, sessionVars, plcVars
  <1> DEFINE refused == reply.refused
  <1>1. /\ pc = "await" /\ reply.kind = "codes" /\ reply' = NoReply /\ batch' = <<>>
        /\ outcome' = [i \in Index |-> IF i \in Batch
                         THEN IF i \in refused THEN "rejected" ELSE "acknowledged"
                         ELSE outcome[i]]
        /\ failed' = [i \in Index |-> failed[i] \/ i \in Batch \cap refused]
        /\ \/ area /\ refused # {} /\ fatal' = "plc" /\ pc' = "return"
           \/ ~(area /\ refused # {}) /\ fatal' = fatal /\ pc' = "plan"
        /\ UNCHANGED <<items, area, todo, at, requestSize, responseSize, confirmed, ctxDone,
                       session, generation, net, applied, issued>>
    BY DEF ReadCodes, Results
  <1>2. Index' = Index /\ Chosen' = Chosen /\ Batch' = {}
    BY <1>1 DEF Index, Chosen, Batch, Range
  <1>3. refused \subseteq Batch
    BY <1>1 DEF WriteInv, NetInv
  <1> HIDE DEF refused
  <1>4. TypeInv'
    <2>1. outcome' \in [Index -> Outcomes] /\ failed' \in [Index -> BOOLEAN]
      BY <1>1 DEF WriteInv, TypeInv, Outcomes
    <2>2. NoReply \in [kind : {"none", "codes", "globalCode", "badFrame", "badPayload"},
                       refused : SUBSET Index]
      BY DEF NoReply
    <2>3. batch' \in Seq(Index) /\ pc' \in Working \cup {"return"}
      BY <1>1 DEF Working
    <2> QED BY <1>1, <1>2, <2>1, <2>2, <2>3 DEF WriteInv, TypeInv
  <1>5. PlanInv'
    <2>1. Len(batch') = 0 /\ Len(batch) \in Nat /\ at \in Nat
      BY <1>1 DEF WriteInv, TypeInv
    <2> QED BY <1>1, <2>1 DEF WriteInv, PlanInv, Holding, Working
  <1>6. SizeInv'
    BY <1>1 DEF WriteInv, SizeInv, Holding, Working
  <1>7. \A k \in DOMAIN todo :
          /\ todo[k] \in Index
          /\ todo[k] \in Batch <=> k >= at - Len(batch) /\ k < at
          /\ k < at - Len(batch) => outcome[todo[k]] \in {"acknowledged", "rejected"}
          /\ k >= at - Len(batch) => outcome[todo[k]] = "notAttempted"
          /\ failed[todo[k]] <=> outcome[todo[k]] = "rejected"
    BY <1>1, Positions, SMTT(30) DEF WriteInv, TypeInv, ResultInv, Working
  <1>8. \A k \in DOMAIN todo :
          /\ k < at => outcome'[todo[k]] \in {"acknowledged", "rejected"}
          /\ k >= at => outcome'[todo[k]] = "notAttempted"
          /\ failed'[todo[k]] <=> outcome'[todo[k]] = "rejected"
    <2> SUFFICES ASSUME NEW k \in DOMAIN todo
                 PROVE  /\ k < at => outcome'[todo[k]] \in {"acknowledged", "rejected"}
                        /\ k >= at => outcome'[todo[k]] = "notAttempted"
                        /\ failed'[todo[k]] <=> outcome'[todo[k]] = "rejected"
      OBVIOUS
    <2>1. at \in Nat /\ Len(batch) \in Nat /\ k \in Nat
      BY DEF WriteInv, TypeInv
    <2>2. failed'[todo[k]] <=> failed[todo[k]] \/ todo[k] \in Batch \cap refused
      BY <1>1, <1>7
    <2>3. CASE todo[k] \in Batch
      <3>1. k < at /\ k >= at - Len(batch) /\ ~failed[todo[k]]
        BY <1>7, <2>3
      <3>2. outcome'[todo[k]] = IF todo[k] \in refused THEN "rejected" ELSE "acknowledged"
        BY <1>1, <1>7, <2>3
      <3> QED BY <2>1, <2>2, <2>3, <3>1, <3>2
    <2>4. CASE todo[k] \notin Batch
      <3>1. outcome'[todo[k]] = outcome[todo[k]]
        BY <1>1, <1>7, <2>4
      <3>2. k < at => k < at - Len(batch)
        BY <1>7, <2>1, <2>4
      <3>3. k >= at => k >= at - Len(batch)
        BY <2>1
      <3> QED BY <1>7, <2>2, <2>4, <3>1, <3>2, <3>3
    <2> QED BY <2>3, <2>4
  <1>9. ASSUME area
        PROVE  Len(todo) = 1 /\ Batch = {todo[1]} /\ 1 \in DOMAIN todo
    <2>1. Len(todo) = 1 /\ DOMAIN todo = 1..1
      BY <1>9 DEF WriteInv, TypeInv, AreaInv
    <2>2. Chosen = {todo[1]}
      BY <2>1 DEF Chosen, Range
    <2>3. batch # <<>> /\ batch \in Seq(Index)
      BY <1>1 DEF WriteInv, TypeInv, PlanInv
    <2>4. Batch # {}
      BY <2>3 DEF Batch, Range
    <2> QED BY <2>1, <2>2, <2>4, BatchFacts
  <1>10. ResultInv'
    <2>1. fatal = "none"
      BY <1>1 DEF WriteInv, ResultInv, Working
    <2>2. CASE pc' = "plan"
      <3>1. Len(batch') = 0 /\ at' - Len(batch') = at
        BY <1>1 DEF WriteInv, TypeInv
      <3> QED BY <1>1, <1>8, <2>1, <2>2, <3>1 DEF ResultInv, Working
    <2>3. CASE pc' = "return"
      <3>1. area /\ refused = {todo[1]}
        BY <1>1, <1>3, <1>9, <2>3
      <3>2. outcome'[todo[1]] = "rejected"
        BY <1>1, <1>7, <1>9, <3>1
      <3> QED BY <1>1, <2>3, <3>2 DEF ResultInv, Working
    <2> QED BY <1>1, <2>2, <2>3
  <1>11. AreaInv'
    <2> SUFFICES ASSUME area PROVE AreaInv'
      BY <1>1 DEF AreaInv
    <2>1. \A i \in Index : i # todo[1] => outcome'[i] = outcome[i] /\ failed'[i] = failed[i]
      BY <1>1, <1>9 DEF WriteInv, TypeInv
    <2>2. todo[1] \in Int /\ \A i \in Index : i \in Int
      <3>1. items \in Seq(Int)
        BY DEF WriteInv, TypeInv
      <3>2. \A i \in Index : i \in Int
        BY <3>1 DEF Index
      <3> QED BY <1>7, <1>9, <3>2
    <2>3. pc' # "done"
      BY <1>1
    <2> QED BY <1>1, <1>2, <2>1, <2>2, <2>3 DEF WriteInv, AreaInv
  <1>12. NetInv'
    BY <1>1, <1>2 DEF WriteInv, NetInv, NoReply
  <1>13. \A i \in Index : ItemInv(i)'
    <2> SUFFICES ASSUME NEW i \in Index PROVE ItemInv(i)'
      OBVIOUS
    <2>1. ItemInv(i) /\ ~Pending(i)' /\ (InNet(i)' <=> InNet(i))
      BY <1>1, <1>2 DEF WriteInv, Pending, InNet
    <2>2. CASE i \in Batch
      <3>1. ~InNet(i) /\ applied[i] = IF i \in refused THEN 0 ELSE 1
        BY <1>1, <2>1, <2>2 DEF ItemInv, Pending, refused
      <3>2. outcome'[i] = IF i \in refused THEN "rejected" ELSE "acknowledged"
        BY <1>1, <2>2
      <3> QED BY <1>1, <2>1, <3>1, <3>2 DEF ItemInv
    <2>3. CASE i \notin Batch
      BY <1>1, <2>1, <2>3 DEF ItemInv, Pending
    <2> QED BY <2>2, <2>3
  <1>14. NoSilentFailure'
    <2> SUFFICES ASSUME pc' = "return" PROVE NoSilentFailure'
      BY DEF NoSilentFailure
    <2>1. area /\ fatal' = "plc"
      BY <1>1
    <2>2. Chosen = {todo[1]}
      BY <1>9, <2>1 DEF Chosen, Range, WriteInv, TypeInv
    <2>3. todo[1] \in Batch /\ todo[1] \in refused
      BY <1>1, <1>3, <1>9, <2>1
    <2>4. failed'[todo[1]] /\ outcome'[todo[1]] = "rejected"
      BY <1>1, <1>7, <1>9, <2>1, <2>3
    <2> QED BY <1>2, <2>1, <2>2, <2>4 DEF NoSilentFailure
  <1>15. LimitBeforeIO'
    BY <1>1 DEF WriteInv, LimitBeforeIO, ResultInv, Working
  <1> QED BY <1>2, <1>4, <1>5, <1>6, <1>10, <1>11, <1>12, <1>13, <1>14, <1>15 DEF WriteInv

-----------------------------------------------------------------------------
\* WriteArea's loop, the application and the PLC

\* The next chunk is begun only when the one before it is acknowledged.
LEMMA AreaNextWrite == ASSUME WriteInv, AreaNext PROVE WriteInv'
  <1> USE DEF callVars, sizeVars, planVars, resultVars, sessionVars, plcVars
  <1> DEFINE x == todo[1]
  <1>1. /\ pc = "return" /\ area
        /\ UNCHANGED <<items, area, at, batch, requestSize, responseSize, outcome, failed,
                       fatal, ctxDone, session, generation, net, applied, reply, issued>>
        /\ \/ outcome[x] # "acknowledged" /\ pc' = "done" /\ todo' = todo
                /\ confirmed' = confirmed
           \/ outcome[x] = "acknowledged" /\ pc' = "done" /\ todo' = todo
                /\ confirmed' = confirmed + items[x]
           \/ outcome[x] = "acknowledged" /\ x # Len(items) /\ pc' = "begin"
                /\ todo' = <<x + 1>> /\ confirmed' = confirmed + items[x]
    BY DEF AreaNext
  <1>2. /\ Len(todo) = 1 /\ todo \in Seq(Index) /\ items \in Seq(Int)
        /\ confirmed = Total(items, x - 1) /\ confirmed \in Int
        /\ batch = <<>>
    BY <1>1 DEF WriteInv, TypeInv, PlanInv, AreaInv, Holding
  <1>3. x \in 1..Len(items) /\ Len(items) \in Nat /\ Index = 1..Len(items)
        /\ Chosen = {x}
    BY <1>2, SMTT(30) DEF Index, Chosen, Range
  <1>4. Total(items, x) = Total(items, x - 1) + items[x] /\ items[x] \in Int
    <2> DEFINE n == x - 1
    <2>1. n \in Nat /\ n + 1 = x /\ Numbers(items, n + 1)
      BY <1>2, <1>3 DEF Numbers
    <2> HIDE DEF n
    <2>2. Total(items, n + 1) = Total(items, n) + items[n + 1]
      BY <2>1, TotalStep
    <2> QED BY <1>2, <1>3, <2>1, <2>2 DEF n
  <1> HIDE DEF x
  <1>5. Index' = Index
    BY <1>1 DEF Index
  <1>6. /\ todo' \in Seq(Index) /\ todo' # <<>> /\ Len(todo') = 1
        /\ todo'[1] = IF pc' = "begin" THEN x + 1 ELSE x
    <2>1. CASE todo' = todo /\ pc' = "done"
      <3>1. Len(todo) = 1 => todo # <<>>
        OBVIOUS
      <3>2. todo' \in Seq(Index) /\ Len(todo') = 1 /\ todo' # <<>>
        BY <1>2, <2>1, <3>1
      <3>3. todo'[1] = x
        BY <2>1 DEF x
      <3> QED BY <2>1, <3>2, <3>3
    <2>2. CASE todo' = <<x + 1>> /\ pc' = "begin" /\ x # Len(items)
      <3>1. x + 1 \in Index
        BY <1>3, <2>2
      <3> QED BY <2>2, <3>1
    <2> QED BY <1>1, <2>1, <2>2
  <1>7. TypeInv'
    <2>1. confirmed' \in Int
      BY <1>1, <1>2, <1>4
    <2> QED BY <1>1, <1>5, <1>6, <2>1 DEF WriteInv, TypeInv
  <1>8. PlanInv'
    BY <1>1, <1>2, <1>6 DEF WriteInv, PlanInv, Holding, Working
  <1>9. SizeInv'
    BY <1>1 DEF SizeInv, Holding, Working
  <1>10. outcome[x] = "acknowledged" => fatal = "none"
    BY <1>1 DEF WriteInv, ResultInv, x
  <1>11. pc' = "begin" => Chosen' = {x + 1} /\ x + 1 \in Index
                          /\ outcome[x + 1] = "notAttempted" /\ ~failed[x + 1]
    <2> SUFFICES ASSUME pc' = "begin"
                 PROVE  Chosen' = {x + 1} /\ x + 1 \in Index
                        /\ outcome[x + 1] = "notAttempted" /\ ~failed[x + 1]
      OBVIOUS
    <2>1. Chosen' = {x + 1}
      BY <1>1 DEF Chosen, Range
    <2>2. x + 1 \in Index /\ x + 1 > x
      BY <1>1, <1>3
    <2> QED BY <1>1, <2>1, <2>2 DEF WriteInv, AreaInv, x
  <1>12. ResultInv'
    BY <1>1, <1>10, <1>11 DEF ResultInv, Working
  <1>13. AreaInv'
    <2>1. /\ \A i \in Index : i < x => outcome[i] = "acknowledged"
          /\ \A i \in Index : i > x => outcome[i] = "notAttempted" /\ (failed[i] => pc = "done")
      BY <1>1 DEF WriteInv, AreaInv, x
    <2>2. CASE pc' = "done"
      <3>1. todo' = todo /\ todo'[1] = x
        BY <1>1, <1>6, <2>2
      <3>2. confirmed' = Total(items, IF outcome[x] = "acknowledged" THEN x ELSE x - 1)
        BY <1>1, <1>2, <1>4, <2>2 DEF x
      <3> QED BY <1>1, <1>5, <1>6, <2>1, <2>2, <3>1, <3>2 DEF AreaInv
    <2>3. CASE pc' = "begin"
      <3>1. todo'[1] = x + 1 /\ (x + 1) - 1 = x /\ outcome[x] = "acknowledged"
            /\ confirmed' = Total(items, x)
        BY <1>1, <1>2, <1>3, <1>4, <1>6, <2>3 DEF x
      <3>2. \A i \in Index : i < x + 1 => outcome[i] = "acknowledged"
        BY <1>3, <2>1, <3>1
      <3>3. \A i \in Index : i > x + 1 => outcome[i] = "notAttempted" /\ ~failed[i]
        BY <1>1, <1>3, <2>1
      <3> QED BY <1>1, <1>5, <1>6, <2>3, <3>1, <3>2, <3>3 DEF AreaInv
    <2> QED BY <1>1, <2>2, <2>3
  <1>14. NetInv' /\ \A i \in Index' : ItemInv(i)'
    BY <1>1, <1>5, QuietStep
  <1>15. NoSilentFailure'
    BY <1>1 DEF NoSilentFailure
  <1>16. LimitBeforeIO'
    <2>1. CASE pc' = "begin"
      BY <1>1, <1>10, <2>1 DEF LimitBeforeIO
    <2>2. CASE pc' = "done"
      BY <1>1, <2>2 DEF WriteInv, LimitBeforeIO, Chosen
    <2> QED BY <1>1, <2>1, <2>2
  <1> QED BY <1>7, <1>8, <1>9, <1>12, <1>13, <1>14, <1>15, <1>16 DEF WriteInv

LEMMA WriteReturnsWrite == ASSUME WriteInv, WriteReturns PROVE WriteInv'
  <1> USE DEF callVars, sizeVars, planVars, resultVars, sessionVars, plcVars
  <1>1. /\ pc = "return" /\ pc' = "done" /\ ~area
        /\ UNCHANGED <<items, area, todo, at, batch, requestSize, responseSize, outcome,
                       failed, fatal, confirmed, ctxDone, session, generation, net, applied,
                       reply, issued>>
    BY DEF WriteReturns
  <1>2. TypeInv'
    BY <1>1 DEF WriteInv, TypeInv, Index
  <1>3. PlanInv' /\ SizeInv' /\ ResultInv'
    BY <1>1 DEF WriteInv, PlanInv, SizeInv, ResultInv, Holding, Working
  <1>4. NetInv' /\ \A i \in Index' : ItemInv(i)'
    BY <1>1, QuietStep DEF Index
  <1>5. NoSilentFailure' /\ LimitBeforeIO' /\ AreaInv'
    BY <1>1 DEF WriteInv, NoSilentFailure, LimitBeforeIO, Chosen, AreaInv
  <1> QED BY <1>2, <1>3, <1>4, <1>5 DEF WriteInv

LEMMA CtxDoneWrite == ASSUME WriteInv, CtxDone PROVE WriteInv'
  <1>1. ctxDone' = TRUE
        /\ UNCHANGED <<items, area, todo, pc, at, batch, requestSize, responseSize, outcome,
                       failed, fatal, confirmed, session, generation, net, applied,
                       reply, issued>>
    BY DEF CtxDone, callVars, sizeVars, planVars, resultVars, sessionVars, plcVars
  <1>2. TypeInv'
    BY <1>1 DEF WriteInv, TypeInv, Index
  <1>3. PlanInv' /\ SizeInv' /\ ResultInv' /\ AreaInv'
    BY <1>1 DEF WriteInv, PlanInv, SizeInv, ResultInv, AreaInv, LensOf, Chosen, Index
  <1>4. NetInv' /\ \A i \in Index' : ItemInv(i)'
    BY <1>1 DEF WriteInv, NetInv, ItemInv, Pending, InNet, Batch, Index
  <1>5. NoSilentFailure' /\ LimitBeforeIO'
    BY <1>1 DEF WriteInv, NoSilentFailure, LimitBeforeIO, Chosen
  <1> QED BY <1>2, <1>3, <1>4, <1>5 DEF WriteInv

\* The application submits again only what was not attempted, each item once.
LEMMA SubmitAgainWrite == ASSUME WriteInv, SubmitAgain PROVE WriteInv'
  <1> USE DEF callVars, sizeVars, planVars, resultVars, sessionVars, plcVars
  <1>1. /\ pc = "done" /\ pc' = "begin" /\ ~area /\ Unattempted # {} /\ fatal' = "none"
        /\ todo' \in SetToSeqs(Unattempted) /\ ctxDone' = FALSE
        /\ failed' = [i \in Index |-> failed[i] /\ i \notin Unattempted]
        /\ UNCHANGED <<items, area, at, batch, requestSize, responseSize, outcome, confirmed,
                       session, generation, net, applied, reply, issued>>
    BY DEF SubmitAgain
  <1>2. Index' = Index /\ Unattempted \subseteq Index /\ batch = <<>>
    BY <1>1 DEF WriteInv, PlanInv, Holding, Index, Unattempted
  <1>3. Cardinality(Unattempted) \in Nat /\ Cardinality(Unattempted) # 0
    <2>1. items \in Seq(Int)
      BY DEF WriteInv, TypeInv
    <2>2. Index = 1..Len(items) /\ Len(items) \in Nat
      BY <2>1 DEF Index
    <2>3. IsFiniteSet(Index)
      BY <2>2, FS_Interval
    <2>4. IsFiniteSet(Unattempted)
      BY <1>2, <2>3, FS_Subset
    <2> QED BY <1>1, <2>4, FS_CardinalityType, FS_EmptySet
  <1>4. /\ todo' \in [1..Cardinality(Unattempted) -> Unattempted]
        /\ \A j, k \in 1..Cardinality(Unattempted) : j # k => todo'[j] # todo'[k]
    BY <1>1 DEF SetToSeqs
  <1>5. /\ todo' \in Seq(Index) /\ todo' # <<>>
        /\ DOMAIN todo' = 1..Cardinality(Unattempted)
    BY <1>2, <1>3, <1>4
  <1>6. TypeInv'
    <2>1. failed' \in [Index -> BOOLEAN]
      BY <1>1
    <2> QED BY <1>1, <1>2, <1>5, <2>1 DEF WriteInv, TypeInv
  <1>7. PlanInv'
    BY <1>1, <1>2, <1>4, <1>5 DEF PlanInv, Holding, Working
  <1>8. SizeInv'
    BY <1>1 DEF SizeInv, Holding, Working
  <1>9. ResultInv'
    <2>1. Chosen' \subseteq Unattempted
      BY <1>4, <1>5 DEF Chosen, Range
    <2>2. \A i \in Unattempted : outcome'[i] = "notAttempted" /\ ~failed'[i]
      BY <1>1, <1>2 DEF Unattempted
    <2> QED BY <1>1, <2>1, <2>2 DEF ResultInv, Working
  <1>10. NetInv' /\ \A i \in Index' : ItemInv(i)'
    BY <1>1, <1>2, QuietStep
  <1>11. NoSilentFailure' /\ LimitBeforeIO' /\ AreaInv'
    BY <1>1 DEF NoSilentFailure, LimitBeforeIO, AreaInv
  <1> QED BY <1>6, <1>7, <1>8, <1>9, <1>10, <1>11 DEF WriteInv

\* A new session has a new generation: no old request answers it.
LEMMA ReconnectWrite == ASSUME WriteInv, Reconnect PROVE WriteInv'
  <1>1. /\ pc = "done" /\ session = "broken" /\ session' = "ready"
        /\ generation' = generation + 1
        /\ UNCHANGED <<items, area, todo, pc, at, batch, requestSize, responseSize, outcome,
                       failed, fatal, confirmed, ctxDone, net, applied, reply, issued>>
    BY DEF Reconnect, callVars, sizeVars, planVars, resultVars, plcVars
  <1>2. TypeInv'
    BY <1>1, SMTT(30) DEF WriteInv, TypeInv, Index
  <1>3. PlanInv' /\ SizeInv' /\ ResultInv' /\ AreaInv'
    BY <1>1 DEF WriteInv, PlanInv, SizeInv, ResultInv, AreaInv, Holding, Working, Index
  <1>4. NetInv'
    <2>1. \A r \in net : r.session \in Nat /\ r.session <= generation /\ generation \in Nat
      BY DEF WriteInv, NetInv, TypeInv
    <2>2. \A r \in net : r.session <= generation + 1 /\ r.session # generation + 1
      BY <2>1
    <2> QED BY <1>1, <2>2 DEF WriteInv, NetInv, Batch
  <1>5. \A i \in Index' : ItemInv(i)'
    BY <1>1 DEF WriteInv, ItemInv, Pending, InNet, Batch, Index
  <1>6. NoSilentFailure' /\ LimitBeforeIO'
    BY <1>1 DEF WriteInv, NoSilentFailure, LimitBeforeIO, Chosen
  <1> QED BY <1>2, <1>3, <1>4, <1>5, <1>6 DEF WriteInv

\* The PLC takes one request, executes the items that it does not refuse, and its
\* answer reaches the session that asked or nobody.
LEMMA PLCStep ==
    ASSUME WriteInv, NEW r \in net, NEW refused \in SUBSET r.items,
           NEW kind \in {"codes", "globalCode", "badFrame", "badPayload"},
           kind = "globalCode" => refused = r.items,
           applied' = [i \in Index |->
             IF i \in r.items \ refused THEN applied[i] + 1 ELSE applied[i]],
           net' = net \ {r},
           \/ reply' = reply
           \/ /\ session = "ready" /\ r.session = generation
              /\ reply' = [kind |-> kind, refused |-> refused],
           UNCHANGED <<items, area, todo, pc, at, batch, requestSize, responseSize, outcome,
                       failed, fatal, confirmed, ctxDone, session, generation, issued>>
    PROVE  WriteInv'
  <1>1. Index' = Index /\ Batch' = Batch /\ Chosen' = Chosen /\ r.items \subseteq Index
    BY DEF Index, Batch, Chosen, WriteInv, TypeInv
  <1>2. reply' # reply => pc = "await" /\ r.items = Batch /\ reply.kind = "none"
                          /\ reply' = [kind |-> kind, refused |-> refused]
    BY DEF WriteInv, NetInv
  <1>3. \A i \in r.items : InNet(i) /\ ~InNet(i)'
    BY DEF WriteInv, NetInv, InNet
  <1>4. \A i \in Index : i \notin r.items => (InNet(i)' <=> InNet(i))
    BY DEF InNet
  <1>5. TypeInv'
    <2>1. applied' \in [Index -> Nat]
      <3>1. applied \in [Index -> Nat]
        BY DEF WriteInv, TypeInv
      <3> QED BY <3>1
    <2>2. net' \subseteq [session : Nat, items : SUBSET Index]
      BY DEF WriteInv, TypeInv
    <2>3. reply' \in [kind : {"none", "codes", "globalCode", "badFrame", "badPayload"},
                      refused : SUBSET Index]
      BY <1>1 DEF WriteInv, TypeInv
    <2> QED BY <1>1, <2>1, <2>2, <2>3 DEF WriteInv, TypeInv
  <1>6. PlanInv' /\ SizeInv' /\ ResultInv' /\ AreaInv'
    BY <1>1 DEF WriteInv, PlanInv, SizeInv, ResultInv, AreaInv, LensOf
  <1>7. NetInv'
    <2>1. CASE reply' = reply
      BY <1>1, <2>1 DEF WriteInv, NetInv
    <2>2. CASE reply' # reply
      <3>1. Batch # {}
        <4>1. batch # <<>> /\ batch \in Seq(Index)
          BY <1>2, <2>2 DEF WriteInv, TypeInv, PlanInv
        <4>2. Len(batch) \in Nat /\ Len(batch) # 0 /\ DOMAIN batch = 1..Len(batch)
          <5> HIDE DEF Index
          <5> QED BY <4>1
        <4>3. 1 \in DOMAIN batch
          BY <4>2
        <4> QED BY <4>3 DEF Batch, Range
      <3>2. ASSUME NEW s \in net', session = "ready", s.session = generation PROVE FALSE
        <4>1. s \in net /\ s # r /\ s.items = Batch
          BY <3>2 DEF WriteInv, NetInv
        <4> QED BY <1>2, <2>2, <3>1, <4>1 DEF WriteInv, NetInv
      <3>3. \A s, u \in net' : s.items \cap u.items # {} => s = u
        BY DEF WriteInv, NetInv
      <3>4. \A s \in net' : s.session <= generation
        BY DEF WriteInv, NetInv
      <3>5. pc = "await" /\ reply'.refused \subseteq Batch
        BY <1>2, <2>2
      <3>6. \A s \in net' : session = "ready" => s.session # generation
        BY <3>2
      <3>7. session' = session /\ generation' = generation /\ pc' = pc /\ Batch' = Batch
        BY <1>1
      <3> HIDE DEF Batch
      <3> QED BY <3>3, <3>4, <3>5, <3>6, <3>7 DEF NetInv
    <2> QED BY <2>1, <2>2
  <1>8. \A i \in Index : ItemInv(i)'
    <2> SUFFICES ASSUME NEW i \in Index PROVE ItemInv(i)'
      OBVIOUS
    <2>1. ItemInv(i) /\ (Pending(i)' <=> Pending(i)) /\ outcome'[i] = outcome[i]
          /\ issued'[i] = issued[i]
      BY <1>1 DEF WriteInv, Pending
    <2>2. CASE i \in r.items
      <3>1. /\ InNet(i) /\ ~InNet(i)' /\ applied[i] = 0
            /\ applied'[i] = IF i \in refused THEN 0 ELSE 1
        BY <1>3, <2>1, <2>2 DEF ItemInv
      <3>2. reply' = reply => ~(Pending(i) /\ reply.kind \in {"codes", "globalCode"})
        BY <2>1, <3>1 DEF ItemInv
      <3>3. reply' # reply => reply'.kind = kind /\ reply'.refused = refused
        BY <1>2
      <3> QED BY <2>1, <2>2, <3>1, <3>2, <3>3 DEF ItemInv
    <2>3. CASE i \notin r.items
      <3>1. (InNet(i)' <=> InNet(i)) /\ applied'[i] = applied[i]
        BY <1>4, <2>3
      <3>2. reply' # reply => ~Pending(i)
        BY <1>2, <2>3 DEF Pending
      <3> QED BY <2>1, <3>1, <3>2 DEF ItemInv
    <2> QED BY <2>2, <2>3
  <1>9. NoSilentFailure' /\ LimitBeforeIO'
    BY <1>1 DEF WriteInv, NoSilentFailure, LimitBeforeIO
  <1> QED BY <1>1, <1>5, <1>6, <1>7, <1>8, <1>9 DEF WriteInv

LEMMA PLCWrite ==
    ASSUME WriteInv, NEW r \in net, PLCExecutes(r) \/ PLCRejectsRequest(r)
    PROVE  WriteInv'
  <1> USE DEF callVars, sizeVars, planVars, resultVars, sessionVars
  <1>1. CASE PLCExecutes(r)
    <2>1. PICK refused \in SUBSET r.items :
            /\ applied' = [i \in Index |->
                 IF i \in r.items \ refused THEN applied[i] + 1 ELSE applied[i]]
            /\ \/ \E k \in {"codes", "badFrame", "badPayload"} : Answer(r, k, refused)
               \/ reply' = reply
      BY <1>1 DEF PLCExecutes
    <2>2. PICK k \in {"codes", "badFrame", "badPayload"} :
            Answer(r, k, refused) \/ reply' = reply
      BY <2>1
    <2>3. net' = net \ {r}
          /\ UNCHANGED <<items, area, todo, pc, at, batch, requestSize, responseSize, outcome,
                         failed, fatal, confirmed, ctxDone, session, generation, issued>>
      BY <1>1 DEF PLCExecutes
    <2> QED BY <2>1, <2>2, <2>3, PLCStep DEF Answer
  <1>2. CASE PLCRejectsRequest(r)
    <2>1. net' = net \ {r} /\ Answer(r, "globalCode", r.items) /\ applied' = applied
          /\ UNCHANGED <<items, area, todo, pc, at, batch, requestSize, responseSize, outcome,
                         failed, fatal, confirmed, ctxDone, session, generation, issued>>
      BY <1>2 DEF PLCRejectsRequest
    <2>2. applied' = [i \in Index |->
            IF i \in r.items \ r.items THEN applied[i] + 1 ELSE applied[i]]
      BY <2>1 DEF WriteInv, TypeInv
    <2>3. reply' = reply \/ (/\ session = "ready" /\ r.session = generation
                             /\ reply' = [kind |-> "globalCode", refused |-> r.items])
      BY <2>1 DEF Answer
    <2>4. r.items \in SUBSET r.items
      OBVIOUS
    <2> QED BY <2>1, <2>2, <2>3, <2>4, PLCStep
  <1> QED BY <1>1, <1>2

-----------------------------------------------------------------------------
\* The initial states

LEMMA MinOf ==
    ASSUME NEW S \in SUBSET Int, NEW x \in S, \A y \in S : x <= y
    PROVE  Min(S) \in S /\ \A y \in S : Min(S) <= y
  BY DEF Min

\* A chunk of an area has at least one byte, and every area has a chunk.
LEMMA MaxChunkIsPositive == MaxChunk \in Nat \ {0}
  <1> DEFINE a == PDU - 28
             b == 65535 \div 8
             c == MaxItemBytes
  <1>1. a \in Nat \ {0} /\ b \in Nat \ {0} /\ c \in Nat \ {0}
    <2>1. 65535 \div 8 = 8191
      OBVIOUS
    <2> QED BY <2>1, WriteAssumption
  <1>2. MaxChunk = Min({a, b, c})
    BY DEF MaxChunk
  <1> HIDE DEF a, b, c
  <1>3. \E x \in {a, b, c} : \A y \in {a, b, c} : x <= y
    <2>1. CASE a <= b /\ a <= c
      BY <1>1, <2>1
    <2>2. CASE b <= a /\ b <= c
      BY <1>1, <2>2
    <2>3. CASE c <= a /\ c <= b
      BY <1>1, <2>3
    <2> QED BY <1>1, <2>1, <2>2, <2>3
  <1>4. {a, b, c} \in SUBSET Int
    BY <1>1
  <1> QED BY <1>1, <1>2, <1>3, <1>4, MinOf

LEMMA ChunksAreNumbers ==
    ASSUME NEW n \in Nat \ {0}
    PROVE  Chunks(n) \in Seq(Int) /\ Chunks(n) # <<>>
  <1> DEFINE m == MaxChunk
             q == ChunkCount(n)
  <1>1. m \in Nat \ {0}
    BY MaxChunkIsPositive
  <1>2. q \in Nat \ {0}
    <2>1. q = (n + m - 1) \div m
      BY DEF ChunkCount
    <2> HIDE DEF m, q
    <2>2. n + m - 1 \in Int /\ n + m - 1 >= m
      BY <1>1
    <2>3. \A d \in Int : d >= m => d \div m \in Int /\ d \div m >= 1
      BY <1>1
    <2> QED BY <2>1, <2>2, <2>3
  <1>3. Chunks(n) = [k \in 1..q |-> Min({m, n - (k - 1) * m})]
    BY DEF Chunks
  <1> HIDE DEF m, q
  <1>4. ASSUME NEW k \in 1..q PROVE Min({m, n - (k - 1) * m}) \in Int
    <2> DEFINE y == n - (k - 1) * m
    <2>1. y \in Int
      BY <1>1, <1>2
    <2> HIDE DEF y
    <2>2. {m, y} \in SUBSET Int /\ (m <= y \/ y <= m) /\ m <= m /\ y <= y
      BY <1>1, <2>1
    <2>3. Min({m, y}) \in {m, y}
      BY <2>2, MinOf
    <2> QED BY <2>2, <2>3 DEF y
  <1>5. [k \in 1..q |-> Min({m, n - (k - 1) * m})] \in Seq(Int)
    BY <1>2, <1>4
  <1>6. Len(Chunks(n)) = q
    BY <1>2, <1>3
  <1> QED BY <1>2, <1>3, <1>5, <1>6

LEMMA InitWrite == Init => WriteInv
  <1> SUFFICES ASSUME Init PROVE WriteInv
    OBVIOUS
  <1> DEFINE N == Len(items)
  <1>1. items \in Seq(Int) /\ items # <<>> /\ area \in BOOLEAN
    <2>1. CASE items \in Batches /\ area = FALSE
      <3>1. items \in Seq(Nat \ {0}) /\ items # <<>>
        BY <2>1, WriteAssumption
      <3>2. Len(items) \in Nat /\ items \in [1..Len(items) -> Nat \ {0}]
        BY <3>1
      <3>3. items \in [1..Len(items) -> Int]
        BY <3>2
      <3>4. items \in Seq(Int)
        BY <3>2, <3>3
      <3> QED BY <2>1, <3>1, <3>4
    <2>2. CASE \E n \in Areas : items = Chunks(n) /\ area = TRUE
      <3>1. PICK n \in Areas : items = Chunks(n) /\ area = TRUE
        BY <2>2
      <3>2. n \in Nat \ {0}
        BY WriteAssumption
      <3> QED BY <3>1, <3>2, ChunksAreNumbers
    <2> QED BY <2>1, <2>2 DEF Init
  <1>2. N \in Nat \ {0} /\ Index = 1..N
    BY <1>1 DEF Index
  <1>3. /\ todo = IF area THEN <<1>> ELSE [k \in Index |-> k]
        /\ at = 1 /\ batch = <<>> /\ requestSize = 12 /\ responseSize = 14
        /\ outcome = [i \in Index |-> "notAttempted"]
        /\ failed = [i \in Index |-> pc = "done"]
        /\ confirmed = 0 /\ ctxDone = FALSE
        /\ session = "ready" /\ generation = 1 /\ net = {} /\ reply = NoReply
        /\ issued = [i \in Index |-> 0] /\ applied = [i \in Index |-> 0]
    BY DEF Init, Index
  <1>4. pc \in {"begin", "done"} /\ (pc = "begin" => fatal = "none")
    BY DEF Init
  <1>5. /\ todo \in Seq(Index) /\ todo # <<>>
        /\ \A j, k \in DOMAIN todo : todo[j] = todo[k] => j = k
        /\ area => Len(todo) = 1 /\ todo[1] = 1
    <2>1. CASE area
      <3>1. todo = <<1>> /\ 1 \in Index
        BY <1>2, <1>3, <2>1
      <3> QED BY <3>1
    <2>2. CASE ~area
      <3>1. todo = [k \in 1..N |-> k]
        BY <1>2, <1>3, <2>2
      <3> HIDE DEF N
      <3>2. todo \in Seq(1..N)
        BY <1>2, <3>1
      <3>3. Len(todo) = N
        BY <1>2, <3>1
      <3>4. todo # <<>>
        BY <1>2, <3>3
      <3> QED BY <1>2, <2>2, <3>1, <3>2, <3>4
    <2> QED BY <2>1, <2>2
  <1> HIDE DEF N
  <1>6. TypeInv
    <2>1. outcome \in [Index -> Outcomes] /\ failed \in [Index -> BOOLEAN]
      BY <1>3 DEF Outcomes
    <2>2. issued \in [Index -> Nat] /\ applied \in [Index -> Nat]
      BY <1>3
    <2>3. batch \in Seq(Index) /\ net \subseteq [session : Nat, items : SUBSET Index]
      BY <1>3
    <2>4. reply \in [kind : {"none", "codes", "globalCode", "badFrame", "badPayload"},
                     refused : SUBSET Index]
      BY <1>3 DEF NoReply
    <2>5. {area, ctxDone} \subseteq BOOLEAN /\ at \in Nat /\ generation \in Nat
          /\ {requestSize, responseSize, confirmed} \subseteq Int
          /\ session \in {"ready", "broken"}
      <3>1. area \in BOOLEAN /\ ctxDone \in BOOLEAN /\ session \in {"ready", "broken"}
        BY <1>1, <1>3
      <3>2. at \in Nat /\ generation \in Nat /\ requestSize \in Int /\ responseSize \in Int
            /\ confirmed \in Int
        BY <1>3
      <3> QED BY <3>1, <3>2
    <2>6. pc \in Working \cup {"begin", "return", "done"}
      BY <1>4
    <2> QED BY <1>1, <1>5, <2>1, <2>2, <2>3, <2>4, <2>5, <2>6 DEF TypeInv
  <1>7. PlanInv /\ SizeInv
    BY <1>3, <1>4, <1>5 DEF PlanInv, SizeInv, Holding, Working
  <1>8. Chosen \subseteq Index
    BY <1>5 DEF Chosen, Range
  <1>9. ResultInv
    BY <1>3, <1>4, <1>8 DEF ResultInv, Working
  <1>10. NetInv
    BY <1>3 DEF NetInv, NoReply
  <1>11. \A i \in Index : ItemInv(i)
    BY <1>3 DEF ItemInv, Pending, InNet, NoReply
  <1>12. AreaInv
    <2> SUFFICES ASSUME area PROVE AreaInv
      BY DEF AreaInv
    <2>1. Len(todo) = 1 /\ todo[1] = 1 /\ outcome[1] = "notAttempted"
      BY <1>2, <1>3, <1>5
    <2>2. \A i \in Index : ~(i < 1) /\ outcome[i] = "notAttempted"
                            /\ (failed[i] => pc = "done")
      <3>1. \A i \in Index : ~(i < 1)
        BY <1>2
      <3>2. \A i \in Index : outcome[i] = "notAttempted"
        BY <1>3
      <3>3. \A i \in Index : failed[i] => pc = "done"
        BY <1>3
      <3> QED BY <3>1, <3>2, <3>3
    <2>3. confirmed = Total(items, 1 - 1)
      <3>1. 1 - 1 = 0
        OBVIOUS
      <3> QED BY <1>3, <3>1, TotalOfNone
    <2> QED BY <2>1, <2>2, <2>3 DEF AreaInv
  <1>13. NoSilentFailure /\ LimitBeforeIO
    BY <1>3, <1>4, <1>8 DEF NoSilentFailure, LimitBeforeIO
  <1> QED BY <1>6, <1>7, <1>9, <1>10, <1>11, <1>12, <1>13 DEF WriteInv

LEMMA NextWrite == WriteInv /\ [Next]_vars => WriteInv'
  <1> SUFFICES ASSUME WriteInv, [Next]_vars PROVE WriteInv'
    OBVIOUS
  <1>1. CASE Refuse \/ Begin \/ NextWriteBatch \/ Pack \/ PlanStops \/ Plan \/ Finish
    BY <1>1, RefuseWrite, BeginWrite, NextWriteBatchWrite, PackWrite, PlanStopsWrite,
       PlanWrite, FinishWrite
  <1>2. CASE ExchangeCanceled \/ WriteFailsUnsent \/ WriteFailsPartial \/ WriteRequest
             \/ ReadFails \/ ReadMalformed \/ ReadGlobalCode \/ ReadCodes
    BY <1>2, UnsentWrite, SentWrite, RequestWrite, GlobalCodeWrite, CodesWrite
  <1>3. CASE AreaNext \/ WriteReturns \/ CtxDone \/ SubmitAgain \/ Reconnect
    BY <1>3, AreaNextWrite, WriteReturnsWrite, CtxDoneWrite, SubmitAgainWrite, ReconnectWrite
  <1>4. CASE \E r \in net : PLCExecutes(r) \/ PLCRejectsRequest(r)
    BY <1>4, PLCWrite
  <1>5. CASE UNCHANGED vars
    <2>1. UNCHANGED <<items, area, todo, pc, at, batch, requestSize, responseSize, outcome,
                      failed, fatal, confirmed, ctxDone, session, generation, net, applied,
                      reply, issued>>
      BY <1>5 DEF vars, callVars, sizeVars, planVars, resultVars, sessionVars, plcVars
    <2>2. TypeInv'
      BY <2>1 DEF WriteInv, TypeInv, Index
    <2>3. PlanInv' /\ SizeInv' /\ ResultInv' /\ AreaInv'
      BY <2>1 DEF WriteInv, PlanInv, SizeInv, ResultInv, AreaInv, LensOf, Chosen, Index
    <2>4. NetInv' /\ \A i \in Index' : ItemInv(i)'
      BY <2>1 DEF WriteInv, NetInv, ItemInv, Pending, InNet, Batch, Index
    <2>5. NoSilentFailure' /\ LimitBeforeIO'
      BY <2>1 DEF WriteInv, NoSilentFailure, LimitBeforeIO, Chosen
    <2> QED BY <2>2, <2>3, <2>4, <2>5 DEF WriteInv
  <1> QED BY <1>1, <1>2, <1>3, <1>4, <1>5 DEF Next

-----------------------------------------------------------------------------
\* The theorems

\* At every point at which Write or WriteArea can fail, the batch being planned is a
\* part of the items to do, its running size is the size of the encoded request, and
\* the results, the requests on the way and what the PLC has executed agree.
THEOREM WriteInvariant == Spec => []WriteInv
  BY InitWrite, NextWrite, PTL DEF Spec

\* WriteOutcome tells the truth: acknowledged means executed exactly once, rejected
\* means never executed, now and later.
THEOREM OutcomesAreTrue == Spec => []OutcomeIsTrue
  <1>1. WriteInv => OutcomeIsTrue
    BY DEF WriteInv, ItemInv, OutcomeIsTrue
  <1> QED BY <1>1, WriteInvariant, PTL

\* An item reported as not attempted was in no request that exchange began to send.
THEOREM NotAttemptedNotIssued == Spec => []NotAttemptedWasNotIssued
  <1>1. WriteInv => NotAttemptedWasNotIssued
    BY DEF WriteInv, ItemInv, Pending, NotAttemptedWasNotIssued, Settled
  <1> QED BY <1>1, WriteInvariant, PTL

\* Submitting again what was not attempted never executes an item twice.
THEOREM WrittenAtMostOnce == Spec => []AtMostOnce
  <1>1. ASSUME WriteInv PROVE AtMostOnce
    <2>1. \A i \in Index : applied[i] = 0 \/ (applied[i] = 1 /\ ~InNet(i))
      BY <1>1 DEF WriteInv, ItemInv
    <2> QED BY <2>1 DEF AtMostOnce
  <1> QED BY <1>1, WriteInvariant, PTL

\* markUnattemptedWrites leaves no item of the call without an answer or an Err.
THEOREM FailuresAreReported == Spec => []NoSilentFailure
  <1>1. WriteInv => NoSilentFailure
    BY DEF WriteInv
  <1> QED BY <1>1, WriteInvariant, PTL

\* A size error of writeLocked or WriteArea comes before the first byte is sent.
THEOREM LimitsComeFirst == Spec => []LimitBeforeIO
  <1>1. WriteInv => LimitBeforeIO
    BY DEF WriteInv
  <1> QED BY <1>1, WriteInvariant, PTL

\* Every request that nextWriteBatch packs, and its answer, fits the negotiated PDU.
THEOREM WriteBatchesFit == Spec => []BatchFits
  <1>1. ASSUME WriteInv PROVE BatchFits
    <2> SUFFICES ASSUME pc = "exchange" PROVE BatchFits
      BY DEF BatchFits
    <2>1. batch # <<>> /\ Len(batch) <= MaxItemsPerPDU
          /\ requestSize = WriteRequestSize(LensOf(batch)) /\ requestSize <= PDU
          /\ responseSize = WriteResponseSize(Len(batch)) /\ responseSize <= PDU
      BY <1>1 DEF WriteInv, PlanInv, SizeInv, Holding
    <2> QED BY <2>1 DEF BatchFits
  <1> QED BY <1>1, WriteInvariant, PTL

\* WriteArea's n counts the acknowledged chunks before the first one that was not, and
\* nothing behind that one was sent.
THEOREM ConfirmedIsPrefix == Spec => []ConfirmedPrefix
  <1>1. ASSUME WriteInv PROVE ConfirmedPrefix
    <2> SUFFICES ASSUME area PROVE ConfirmedPrefix
      BY DEF ConfirmedPrefix
    <2> DEFINE x == todo[1]
               k == IF outcome[x] = "acknowledged" THEN x ELSE x - 1
    <2>1. /\ Len(todo) = 1 /\ todo \in Seq(Index) /\ items \in Seq(Int)
          /\ \A i \in Index : i < x => outcome[i] = "acknowledged"
          /\ \A i \in Index : i > x => outcome[i] = "notAttempted"
          /\ pc = "done" => confirmed = Total(items, k)
      BY <1>1 DEF WriteInv, TypeInv, AreaInv
    <2>2. x \in Index /\ Index = 1..Len(items) /\ Len(items) \in Nat
      BY <2>1 DEF Index
    <2>3. Batch \subseteq {x}
      <3>1. Chosen = {x}
        BY <2>1 DEF Chosen, Range
      <3> QED BY <1>1, <3>1, BatchFacts
    <2>4. \A i \in Index : i > x => issued[i] = 0
      <3> SUFFICES ASSUME NEW i \in Index, i > x PROVE issued[i] = 0
        OBVIOUS
      <3>1. outcome[i] = "notAttempted" /\ i # x
        BY <2>1, <2>2
      <3>2. ~Pending(i)
        BY <2>3, <3>1 DEF Pending
      <3> QED BY <1>1, <3>1, <3>2 DEF WriteInv, ItemInv
    <2> HIDE DEF x
    <2>5. k \in 0..Len(items)
      BY <2>2
    <2>6. \A i \in 1..k : outcome[i] = "acknowledged"
      BY <2>1, <2>2
    <2>7. \A i \in (k + 1)..Len(items) : outcome[i] # "acknowledged"
      BY <2>1, <2>2
    <2>8. \A i \in (k + 2)..Len(items) : issued[i] = 0
      BY <2>2, <2>4
    <2> HIDE DEF k
    <2> QED BY <2>1, <2>5, <2>6, <2>7, <2>8 DEF ConfirmedPrefix
  <1> QED BY <1>1, WriteInvariant, PTL
===============================================================================
