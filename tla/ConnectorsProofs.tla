-------------------------- MODULE ConnectorsProofs --------------------------
(***************************************************************************)
(* Proofs about Connectors, for any events, any number of overlapping      *)
(* drains, attempts, crashes and any moment a lease expires: an answer is  *)
(* posted at most once, what the rows say of it is true, what is lost has  *)
(* its dead letter, and a row that is settled stays so.  And about         *)
(* MattermostSocket, for any number of posts and sockets: the events of    *)
(* the connection are kept in their order, and one that is given up was of *)
(* a socket that is gone.  SocketInv adds to the checked properties how    *)
(* the phases of start, stop and loop fit together.  And about             *)
(* ProtocolCalls, the client's calls of the Host: CallsInv says where each *)
(* call stands, what the cache holds of a connection and what a connection *)
(* has invoked.                                                            *)
(***************************************************************************)
EXTENDS Connectors, MattermostSocket, ProtocolCalls,
        SequenceTheorems, FiniteSetTheorems, TLAPS

Busy == {"claimed", "posting"} \cup Answers

\* A worker is at rest or has an event, and a Host that is down has no workers.
WorkerOK ==
    /\ \A w \in Reader : at[w] = AtRest \/ (at[w].pc = "normalizing" /\ at[w].event \in Inbound)
    /\ \A w \in Sender : at[w] = AtRest \/ (at[w].pc \in Busy /\ at[w].event \in Inbound)
    /\ connHost = "down" => \A w \in Reader \cup Sender : at[w] = AtRest

\* The delivery of a sender is its own, or its lease expired after the dispatch and
\* the delivery is UNCERTAIN for good; a post is behind it only if it may be.
HoldOK ==
    \A w \in Sender : at[w].pc # "idle" =>
        /\ \/ /\ outbound[at[w].event].status = "DELIVERING" /\ outbound[at[w].event].claim = w
              /\ at[w].pc = "claimed" => outbound[at[w].event].attempt = "CLAIMED"
              /\ at[w].pc # "claimed" => outbound[at[w].event].attempt = "DISPATCHED"
           \/ outbound[at[w].event].status = "UNCERTAIN" /\ at[w].pc # "claimed"
        /\ at[w].pc \in {"claimed", "posting", "suppressed", "again", "never"} => posted[at[w].event] = 0
        /\ at[w].pc = "accepted" => posted[at[w].event] = 1

\* No two senders have the same delivery in hand.
AloneOK ==
    \A v, w \in Sender :
        at[v].pc # "idle" /\ at[w].pc # "idle" /\ at[v].event = at[w].event => v = w

\* The attempt of a delivery tells whether anything may have left the Host.
RowOK ==
    \A e \in Inbound :
        /\ outbound[e].status = "DELIVERING" => outbound[e].attempt \in {"CLAIMED", "DISPATCHED"}
        /\ outbound[e].status = "UNCERTAIN" => outbound[e].attempt = "UNCERTAIN"
        /\ outbound[e].status = "DELIVERING" /\ outbound[e].attempt = "CLAIMED" => posted[e] = 0

\* The inductive invariant.
ConnInv ==
    /\ ConnTypeOK /\ WorkerOK /\ HoldOK /\ AloneOK /\ RowOK
    /\ PostedAtMostOnce /\ DeliveryIsTruthful /\ DeadIsLettered /\ AdoptedHasRun

\* The step of SettledIsFinal.
SettledStep ==
    \A e \in Inbound :
        /\ ingress[e].status \in {"ADOPTED", "IGNORED", "DEAD"} => ingress'[e] = ingress[e]
        /\ outbound[e].status \in Settled => outbound'[e] = outbound[e]

-----------------------------------------------------------------------------
\* What the types say of one row and one worker.
LEMMA TypeFacts ==
    ASSUME ConnTypeOK
    PROVE  /\ \A e \in Inbound :
                 /\ ingress[e] \in IngressRow /\ outbound[e] \in OutboundRow
                 /\ posted[e] \in Nat /\ outbound[e].tries \in Nat
           /\ \A w \in Reader \cup Sender :
                 at[w] \in [pc : {"idle", "normalizing", "claimed", "posting"} \cup Answers,
                            event : Inbound \cup {"NONE"}]
           /\ MaxDeliveryAttempts \in Nat /\ MaxDeliveryAttempts > 0
  <1>1. MaxDeliveryAttempts \in Nat /\ MaxDeliveryAttempts > 0
    BY ConnectorAssumption
  <1>2. \A e \in Inbound : ingress[e] \in IngressRow /\ outbound[e] \in OutboundRow
    BY DEF ConnTypeOK
  <1>3. \A e \in Inbound : posted[e] \in Nat /\ outbound[e].tries \in Nat
    BY <1>1, <1>2 DEF ConnTypeOK, OutboundRow
  <1> QED BY <1>1, <1>2, <1>3 DEF ConnTypeOK

\* The account changes, and no row with it.
LEMMA RegisterAccountInv ==
    ASSUME ConnInv, NEW on \in BOOLEAN, RegisterAccount(on)
    PROVE  ConnInv' /\ SettledStep
  <1>1. /\ ConnTypeOK /\ WorkerOK /\ HoldOK /\ AloneOK /\ RowOK
        /\ PostedAtMostOnce /\ DeliveryIsTruthful /\ DeadIsLettered /\ AdoptedHasRun
    BY DEF ConnInv
  <1>2. /\ account' = on /\ (~on => disabled < MaxDisabled)
        /\ disabled' = IF on THEN disabled ELSE disabled + 1
        /\ UNCHANGED <<ingress, crun, outbound, letters, receipts, posted, at, projected, connHost,
                       connCrashes>>
    BY DEF RegisterAccount, connRow
  <1>3. ConnTypeOK'
    <2>1. disabled' \in 0 .. MaxDisabled
      BY <1>1, <1>2, ConnectorAssumption DEF ConnTypeOK
    <2> QED BY <1>1, <1>2, <2>1 DEF ConnTypeOK
  <1>4. WorkerOK'
    BY <1>1, <1>2 DEF WorkerOK, AtRest
  <1>5. HoldOK'
    BY <1>1, <1>2 DEF HoldOK
  <1>6. AloneOK'
    BY <1>1, <1>2 DEF AloneOK
  <1>7. RowOK'
    BY <1>1, <1>2 DEF RowOK
  <1>8. PostedAtMostOnce'
    BY <1>1, <1>2 DEF PostedAtMostOnce
  <1>9. DeliveryIsTruthful'
    BY <1>1, <1>2 DEF DeliveryIsTruthful
  <1>10. DeadIsLettered'
    BY <1>1, <1>2 DEF DeadIsLettered
  <1>11. AdoptedHasRun'
    BY <1>1, <1>2 DEF AdoptedHasRun
  <1>12. SettledStep
    BY <1>1, <1>2 DEF SettledStep, Settled
  <1> QED BY <1>3, <1>4, <1>5, <1>6, <1>7, <1>8, <1>9, <1>10, <1>11, <1>12 DEF ConnInv

\* A new event is stored, and no old one is touched.
LEMMA ReceiveIngressInv ==
    ASSUME ConnInv, NEW e \in Inbound, NEW p \in Shape, ReceiveIngress(e, p)
    PROVE  ConnInv' /\ SettledStep
  <1>1. /\ ConnTypeOK /\ WorkerOK /\ HoldOK /\ AloneOK /\ RowOK
        /\ PostedAtMostOnce /\ DeliveryIsTruthful /\ DeadIsLettered /\ AdoptedHasRun
    BY DEF ConnInv
  <1>2. /\ ingress[e].status = "ABSENT"
        /\ ingress' = [ingress EXCEPT ![e].status = "RECEIVED", ![e].says = NormalizeIngress(p)]
        /\ UNCHANGED <<account, crun, outbound, letters, receipts, posted, at, projected, connHost,
                       connCrashes, disabled>>
    BY DEF ReceiveIngress, connRow
  <1>3. /\ ingress' \in [Inbound -> IngressRow] /\ ingress'[e].status = "RECEIVED"
        /\ \A d \in Inbound : d # e => ingress'[d] = ingress[d]
    <2>1. NormalizeIngress(p) \in Disposition
      BY DEF NormalizeIngress, Disposition
    <2>2. ingress \in [Inbound -> IngressRow]
      BY <1>1 DEF ConnTypeOK
    <2> QED BY <1>2, <2>1, <2>2 DEF IngressRow
  <1>4. ConnTypeOK'
    BY <1>1, <1>2, <1>3 DEF ConnTypeOK
  <1>5. WorkerOK'
    BY <1>1, <1>2, <1>3 DEF WorkerOK, AtRest
  <1>6. HoldOK'
    BY <1>1, <1>2, <1>3 DEF HoldOK
  <1>7. AloneOK'
    BY <1>1, <1>2, <1>3 DEF AloneOK
  <1>8. RowOK'
    BY <1>1, <1>2, <1>3 DEF RowOK
  <1>9. PostedAtMostOnce'
    BY <1>1, <1>2, <1>3 DEF PostedAtMostOnce
  <1>10. DeliveryIsTruthful'
    BY <1>1, <1>2, <1>3 DEF DeliveryIsTruthful
  <1>11. DeadIsLettered'
    BY <1>1, <1>2, <1>3 DEF DeadIsLettered
  <1>12. AdoptedHasRun'
    BY <1>1, <1>2, <1>3 DEF AdoptedHasRun
  <1>13. SettledStep
    BY <1>1, <1>2, <1>3 DEF SettledStep, Settled
  <1> QED BY <1>4, <1>5, <1>6, <1>7, <1>8, <1>9, <1>10, <1>11, <1>12, <1>13 DEF ConnInv

\* A claim takes a row that is available, or whose lease expired.
LEMMA ClaimIngressInv ==
    ASSUME ConnInv, NEW w \in Reader, NEW X \in SUBSET Inbound, NEW e \in Inbound, ClaimIngress(w, X, e)
    PROVE  ConnInv' /\ SettledStep
  <1>1. /\ ConnTypeOK /\ WorkerOK /\ HoldOK /\ AloneOK /\ RowOK
        /\ PostedAtMostOnce /\ DeliveryIsTruthful /\ DeadIsLettered /\ AdoptedHasRun
    BY DEF ConnInv
  <1>2. /\ X \subseteq Claimed(ingress) /\ IngressRecovered(X)[e].status = "RECEIVED"
        /\ ingress' = TakeIngress(IngressRecovered(X), e, w)
        /\ at' = [at EXCEPT ![w] = [pc |-> "normalizing", event |-> e]] /\ connHost = "up"
        /\ UNCHANGED <<account, crun, outbound, letters, receipts, posted, projected, connHost,
                       connCrashes, disabled>>
    BY DEF ClaimIngress, MayAct, Goes, connRow
  <1>3. /\ ingress' \in [Inbound -> IngressRow] /\ ingress[e].status \in {"RECEIVED", "CLAIMED"}
        /\ ingress'[e].status = "CLAIMED"
        /\ \A d \in Inbound : \/ ingress'[d] = ingress[d]
                              \/ /\ ingress[d].status \in {"RECEIVED", "CLAIMED"}
                                 /\ ingress'[d].status \in {"RECEIVED", "CLAIMED"}
    <2> DEFINE rows == IngressRecovered(X)
    <2>1. ingress \in [Inbound -> IngressRow]
      BY <1>1 DEF ConnTypeOK
    <2>2. \A d \in X : ingress[d].status \in {"CLAIMED", "DELIVERING"}
      BY <1>2 DEF Claimed
    <2>3. \A d \in X : ingress[d].status = "CLAIMED"
      BY <2>1, <2>2 DEF IngressRow
    <2>4. /\ rows \in [Inbound -> IngressRow]
          /\ \A d \in X : rows[d].status = "RECEIVED"
          /\ \A d \in Inbound \ X : rows[d] = ingress[d]
      BY <2>1 DEF IngressRecovered, IngressRow
    <2>5. ingress' = [rows EXCEPT ![e].status = "CLAIMED", ![e].claim = w] /\ rows[e].status = "RECEIVED"
      BY <1>2 DEF TakeIngress
    <2> HIDE DEF rows
    <2>6. ingress' \in [Inbound -> IngressRow] /\ ingress'[e].status = "CLAIMED"
      BY <2>4, <2>5 DEF IngressRow
    <2>7. \A d \in Inbound : d # e => ingress'[d] = rows[d]
      BY <2>4, <2>5
    <2>8. ingress[e].status \in {"RECEIVED", "CLAIMED"}
      BY <2>3, <2>4, <2>5
    <2>9. ASSUME NEW d \in Inbound
          PROVE  \/ ingress'[d] = ingress[d]
                 \/ /\ ingress[d].status \in {"RECEIVED", "CLAIMED"}
                    /\ ingress'[d].status \in {"RECEIVED", "CLAIMED"}
      BY <2>3, <2>4, <2>6, <2>7, <2>8
    <2> QED BY <2>6, <2>8, <2>9
  <1>4. \A v \in Reader \cup Sender : at'[v] = IF v = w THEN [pc |-> "normalizing", event |-> e] ELSE at[v]
    BY <1>1, <1>2 DEF ConnTypeOK
  <1>5. w \notin Sender
    BY ConnectorAssumption
  <1>6. ConnTypeOK'
    BY <1>1, <1>2, <1>3, <1>4, <1>5 DEF ConnTypeOK
  <1>7. WorkerOK'
    BY <1>1, <1>2, <1>3, <1>4, <1>5 DEF WorkerOK, AtRest
  <1>8. HoldOK'
    BY <1>1, <1>2, <1>3, <1>4, <1>5 DEF HoldOK
  <1>9. AloneOK'
    BY <1>1, <1>2, <1>3, <1>4, <1>5 DEF AloneOK
  <1>10. RowOK'
    BY <1>1, <1>2, <1>3, <1>4, <1>5 DEF RowOK
  <1>11. PostedAtMostOnce'
    BY <1>1, <1>2, <1>3, <1>4, <1>5 DEF PostedAtMostOnce
  <1>12. DeliveryIsTruthful'
    BY <1>1, <1>2, <1>3, <1>4, <1>5 DEF DeliveryIsTruthful
  <1>13. DeadIsLettered'
    BY <1>1, <1>2, <1>3, <1>4, <1>5 DEF DeadIsLettered
  <1>14. AdoptedHasRun'
    BY <1>1, <1>2, <1>3, <1>4, <1>5 DEF AdoptedHasRun
  <1>15. SettledStep
    BY <1>1, <1>2, <1>3, <1>4, <1>5 DEF SettledStep, Settled
  <1> QED BY <1>6, <1>7, <1>8, <1>9, <1>10, <1>11, <1>12, <1>13, <1>14, <1>15 DEF ConnInv

\* An event is adopted with its Run.
LEMMA AdoptIngressInv ==
    ASSUME ConnInv, NEW w \in Reader, AdoptIngress(w)
    PROVE  ConnInv' /\ SettledStep
  <1>1. /\ ConnTypeOK /\ WorkerOK /\ HoldOK /\ AloneOK /\ RowOK
        /\ PostedAtMostOnce /\ DeliveryIsTruthful /\ DeadIsLettered /\ AdoptedHasRun
    BY DEF ConnInv
  <1>2. /\ at[w].pc = "normalizing" /\ ingress[at[w].event].status = "CLAIMED"
        /\ crun' = [crun EXCEPT ![at[w].event] = "QUEUED"]
        /\ ingress' = [ingress EXCEPT ![at[w].event].status = "ADOPTED", ![at[w].event].claim = NoClaim]
        /\ at' = [at EXCEPT ![w] = AtRest]
        /\ UNCHANGED <<account, outbound, letters, receipts, posted, projected, connHost,
                       connCrashes, disabled>>
    BY DEF AdoptIngress, OwnsIngress, UpdateIngressClaim, Rests, connRow
  <1>3. at[w].event \in Inbound /\ ingress \in [Inbound -> IngressRow]
    BY <1>1, <1>2 DEF WorkerOK, ConnTypeOK, AtRest
  <1>4. /\ ingress' \in [Inbound -> IngressRow] /\ ingress'[at[w].event].status = "ADOPTED"
        /\ \A d \in Inbound : d # at[w].event => ingress'[d] = ingress[d]
    BY <1>2, <1>3 DEF IngressRow
  <1>5. \A v \in Reader \cup Sender : at'[v] = IF v = w THEN AtRest ELSE at[v]
    BY <1>1, <1>2 DEF ConnTypeOK
  <1>6. ConnTypeOK'
    BY <1>1, <1>2, <1>3, <1>4, <1>5 DEF ConnTypeOK, AtRest
  <1>7. WorkerOK'
    BY <1>1, <1>2, <1>3, <1>4, <1>5 DEF WorkerOK, AtRest
  <1>8. HoldOK'
    BY <1>1, <1>2, <1>3, <1>4, <1>5 DEF HoldOK, AtRest
  <1>9. AloneOK'
    BY <1>1, <1>2, <1>3, <1>4, <1>5 DEF AloneOK, AtRest
  <1>10. RowOK'
    BY <1>1, <1>2, <1>3, <1>4, <1>5 DEF RowOK
  <1>11. PostedAtMostOnce'
    BY <1>1, <1>2, <1>3, <1>4, <1>5 DEF PostedAtMostOnce
  <1>12. DeliveryIsTruthful'
    BY <1>1, <1>2, <1>3, <1>4, <1>5 DEF DeliveryIsTruthful
  <1>13. DeadIsLettered'
    BY <1>1, <1>2, <1>3, <1>4, <1>5 DEF DeadIsLettered
  <1>14. AdoptedHasRun'
    BY <1>1, <1>2, <1>3, <1>4, <1>5 DEF AdoptedHasRun, ConnTypeOK
  <1>15. SettledStep
    BY <1>1, <1>2, <1>3, <1>4, <1>5 DEF SettledStep, Settled
  <1> QED BY <1>6, <1>7, <1>8, <1>9, <1>10, <1>11, <1>12, <1>13, <1>14, <1>15 DEF ConnInv

\* An event is ignored under its claim.
LEMMA IgnoreIngressInv ==
    ASSUME ConnInv, NEW w \in Reader, IgnoreIngress(w)
    PROVE  ConnInv' /\ SettledStep
  <1>1. /\ ConnTypeOK /\ WorkerOK /\ HoldOK /\ AloneOK /\ RowOK
        /\ PostedAtMostOnce /\ DeliveryIsTruthful /\ DeadIsLettered /\ AdoptedHasRun
    BY DEF ConnInv
  <1>2. /\ at[w].pc = "normalizing" /\ ingress[at[w].event].status = "CLAIMED"
        /\ ingress' = [ingress EXCEPT ![at[w].event].status = "IGNORED", ![at[w].event].claim = NoClaim]
        /\ at' = [at EXCEPT ![w] = AtRest]
        /\ UNCHANGED <<account, crun, outbound, letters, receipts, posted, projected, connHost,
                       connCrashes, disabled>>
    BY DEF IgnoreIngress, OwnsIngress, UpdateIngressClaim, Rests, connRow
  <1>3. at[w].event \in Inbound /\ ingress \in [Inbound -> IngressRow]
    BY <1>1, <1>2 DEF WorkerOK, ConnTypeOK, AtRest
  <1>4. /\ ingress' \in [Inbound -> IngressRow] /\ ingress'[at[w].event].status = "IGNORED"
        /\ \A d \in Inbound : d # at[w].event => ingress'[d] = ingress[d]
    BY <1>2, <1>3 DEF IngressRow
  <1>5. \A v \in Reader \cup Sender : at'[v] = IF v = w THEN AtRest ELSE at[v]
    BY <1>1, <1>2 DEF ConnTypeOK
  <1>6. ConnTypeOK'
    BY <1>1, <1>2, <1>3, <1>4, <1>5 DEF ConnTypeOK, AtRest
  <1>7. WorkerOK'
    BY <1>1, <1>2, <1>3, <1>4, <1>5 DEF WorkerOK, AtRest
  <1>8. HoldOK'
    BY <1>1, <1>2, <1>3, <1>4, <1>5 DEF HoldOK, AtRest
  <1>9. AloneOK'
    BY <1>1, <1>2, <1>3, <1>4, <1>5 DEF AloneOK, AtRest
  <1>10. RowOK'
    BY <1>1, <1>2, <1>3, <1>4, <1>5 DEF RowOK
  <1>11. PostedAtMostOnce'
    BY <1>1, <1>2, <1>3, <1>4, <1>5 DEF PostedAtMostOnce
  <1>12. DeliveryIsTruthful'
    BY <1>1, <1>2, <1>3, <1>4, <1>5 DEF DeliveryIsTruthful
  <1>13. DeadIsLettered'
    BY <1>1, <1>2, <1>3, <1>4, <1>5 DEF DeadIsLettered
  <1>14. AdoptedHasRun'
    BY <1>1, <1>2, <1>3, <1>4, <1>5 DEF AdoptedHasRun
  <1>15. SettledStep
    BY <1>1, <1>2, <1>3, <1>4, <1>5 DEF SettledStep, Settled
  <1> QED BY <1>6, <1>7, <1>8, <1>9, <1>10, <1>11, <1>12, <1>13, <1>14, <1>15 DEF ConnInv

\* An event that fails is tried again or has its letter.
LEMMA FailIngressInv ==
    ASSUME ConnInv, NEW w \in Reader, NEW retryable \in BOOLEAN, FailIngress(w, retryable)
    PROVE  ConnInv' /\ SettledStep
  <1>1. /\ ConnTypeOK /\ WorkerOK /\ HoldOK /\ AloneOK /\ RowOK
        /\ PostedAtMostOnce /\ DeliveryIsTruthful /\ DeadIsLettered /\ AdoptedHasRun
    BY DEF ConnInv
  <1>2. /\ at[w].pc = "normalizing" /\ ingress[at[w].event].status = "CLAIMED"
        /\ letters' = IF retryable THEN letters ELSE letters \cup {<<"INGRESS", at[w].event>>}
        /\ ingress' = [ingress EXCEPT ![at[w].event].status = (IF retryable THEN "RECEIVED" ELSE "DEAD"), ![at[w].event].claim = NoClaim]
        /\ at' = [at EXCEPT ![w] = AtRest]
        /\ UNCHANGED <<account, crun, outbound, receipts, posted, projected, connHost, connCrashes,
                       disabled>>
    BY DEF FailIngress, DeadLetter, OwnsIngress, UpdateIngressClaim, Rests, connRow
  <1>3. at[w].event \in Inbound /\ ingress \in [Inbound -> IngressRow]
    BY <1>1, <1>2 DEF WorkerOK, ConnTypeOK, AtRest
  <1>4. /\ ingress' \in [Inbound -> IngressRow] /\ ingress'[at[w].event].status = (IF retryable THEN "RECEIVED" ELSE "DEAD")
        /\ \A d \in Inbound : d # at[w].event => ingress'[d] = ingress[d]
    BY <1>2, <1>3 DEF IngressRow
  <1>5. \A v \in Reader \cup Sender : at'[v] = IF v = w THEN AtRest ELSE at[v]
    BY <1>1, <1>2 DEF ConnTypeOK
  <1>6. ConnTypeOK'
    BY <1>1, <1>2, <1>3, <1>4, <1>5 DEF ConnTypeOK, AtRest, Letter
  <1>7. WorkerOK'
    BY <1>1, <1>2, <1>3, <1>4, <1>5 DEF WorkerOK, AtRest
  <1>8. HoldOK'
    BY <1>1, <1>2, <1>3, <1>4, <1>5 DEF HoldOK, AtRest
  <1>9. AloneOK'
    BY <1>1, <1>2, <1>3, <1>4, <1>5 DEF AloneOK, AtRest
  <1>10. RowOK'
    BY <1>1, <1>2, <1>3, <1>4, <1>5 DEF RowOK
  <1>11. PostedAtMostOnce'
    BY <1>1, <1>2, <1>3, <1>4, <1>5 DEF PostedAtMostOnce
  <1>12. DeliveryIsTruthful'
    BY <1>1, <1>2, <1>3, <1>4, <1>5 DEF DeliveryIsTruthful
  <1>13. DeadIsLettered'
    <2>1. \A d \in Inbound : /\ <<"DELIVERY", d>> \in letters' <=> <<"DELIVERY", d>> \in letters
                           /\ <<"INGRESS", d>> \in letters'
                                <=> <<"INGRESS", d>> \in letters \/ (~retryable /\ d = at[w].event)
      BY <1>2
    <2>2. CASE retryable
      <3>1. ingress'[at[w].event].status = "RECEIVED"
        BY <1>4, <2>2
      <3> QED BY <1>1, <1>2, <1>4, <2>1, <2>2, <3>1 DEF DeadIsLettered
    <2>3. CASE ~retryable
      BY <1>1, <1>2, <1>3, <1>4, <2>1, <2>3 DEF DeadIsLettered
    <2> QED BY <2>2, <2>3
  <1>14. AdoptedHasRun'
    BY <1>1, <1>2, <1>3, <1>4, <1>5 DEF AdoptedHasRun
  <1>15. SettledStep
    BY <1>1, <1>2, <1>3, <1>4, <1>5 DEF SettledStep, Settled
  <1> QED BY <1>6, <1>7, <1>8, <1>9, <1>10, <1>11, <1>12, <1>13, <1>14, <1>15 DEF ConnInv

\* A worker that lost its claim changes nothing.
LEMMA LoseIngressInv ==
    ASSUME ConnInv, NEW w \in Reader, LoseIngress(w)
    PROVE  ConnInv' /\ SettledStep
  <1>1. /\ ConnTypeOK /\ WorkerOK /\ HoldOK /\ AloneOK /\ RowOK
        /\ PostedAtMostOnce /\ DeliveryIsTruthful /\ DeadIsLettered /\ AdoptedHasRun
    BY DEF ConnInv
  <1>2. /\ at' = [at EXCEPT ![w] = AtRest]
        /\ UNCHANGED <<account, ingress, crun, outbound, letters, receipts, posted, projected,
                       connHost, connCrashes, disabled>>
    BY DEF LoseIngress, Rests, connRow
  <1>3. \A v \in Reader \cup Sender : at'[v] = IF v = w THEN AtRest ELSE at[v]
    BY <1>1, <1>2 DEF ConnTypeOK
  <1>4. ConnTypeOK'
    BY <1>1, <1>2, <1>3 DEF ConnTypeOK, AtRest
  <1>5. WorkerOK'
    BY <1>1, <1>2, <1>3 DEF WorkerOK, AtRest
  <1>6. HoldOK'
    BY <1>1, <1>2, <1>3 DEF HoldOK, AtRest
  <1>7. AloneOK'
    BY <1>1, <1>2, <1>3 DEF AloneOK, AtRest
  <1>8. RowOK'
    BY <1>1, <1>2, <1>3 DEF RowOK
  <1>9. PostedAtMostOnce'
    BY <1>1, <1>2, <1>3 DEF PostedAtMostOnce
  <1>10. DeliveryIsTruthful'
    BY <1>1, <1>2, <1>3 DEF DeliveryIsTruthful
  <1>11. DeadIsLettered'
    BY <1>1, <1>2, <1>3 DEF DeadIsLettered
  <1>12. AdoptedHasRun'
    BY <1>1, <1>2, <1>3 DEF AdoptedHasRun
  <1>13. SettledStep
    BY <1>1, <1>2, <1>3 DEF SettledStep, Settled
  <1> QED BY <1>4, <1>5, <1>6, <1>7, <1>8, <1>9, <1>10, <1>11, <1>12, <1>13 DEF ConnInv

\* The Run of an event ends.
LEMMA ConnRunEndsInv ==
    ASSUME ConnInv, NEW e \in Inbound, NEW o \in {"COMPLETED", "OTHER"}, ConnRunEnds(e, o)
    PROVE  ConnInv' /\ SettledStep
  <1>1. /\ ConnTypeOK /\ WorkerOK /\ HoldOK /\ AloneOK /\ RowOK
        /\ PostedAtMostOnce /\ DeliveryIsTruthful /\ DeadIsLettered /\ AdoptedHasRun
    BY DEF ConnInv
  <1>2. /\ crun[e] = "QUEUED" /\ crun' = [crun EXCEPT ![e] = o] /\ projected' = projected \cup {e}
        /\ UNCHANGED <<account, ingress, outbound, letters, receipts, posted, at, connHost,
                       connCrashes, disabled>>
    BY DEF ConnRunEnds, connRow
  <1>3. ConnTypeOK'
    BY <1>1, <1>2 DEF ConnTypeOK
  <1>4. WorkerOK'
    BY <1>1, <1>2 DEF WorkerOK, AtRest
  <1>5. HoldOK'
    BY <1>1, <1>2 DEF HoldOK
  <1>6. AloneOK'
    BY <1>1, <1>2 DEF AloneOK
  <1>7. RowOK'
    BY <1>1, <1>2 DEF RowOK
  <1>8. PostedAtMostOnce'
    BY <1>1, <1>2 DEF PostedAtMostOnce
  <1>9. DeliveryIsTruthful'
    BY <1>1, <1>2 DEF DeliveryIsTruthful
  <1>10. DeadIsLettered'
    BY <1>1, <1>2 DEF DeadIsLettered
  <1>11. AdoptedHasRun'
    BY <1>1, <1>2 DEF AdoptedHasRun, ConnTypeOK
  <1>12. SettledStep
    BY <1>1, <1>2 DEF SettledStep, Settled
  <1> QED BY <1>3, <1>4, <1>5, <1>6, <1>7, <1>8, <1>9, <1>10, <1>11, <1>12 DEF ConnInv

\* A projection stores a delivery once.
LEMMA HookProjectsInv ==
    ASSUME ConnInv, NEW e \in Inbound, HookProjects(e)
    PROVE  ConnInv' /\ SettledStep
  <1>1. /\ ConnTypeOK /\ WorkerOK /\ HoldOK /\ AloneOK /\ RowOK
        /\ PostedAtMostOnce /\ DeliveryIsTruthful /\ DeadIsLettered /\ AdoptedHasRun
    BY DEF ConnInv
  <1>2. /\ projected' = projected \ {e}
        /\ \/ outbound' = outbound
           \/ outbound' = [outbound EXCEPT ![e] = outbound[e]]
           \/ outbound' = [outbound EXCEPT ![e] = IF outbound[e].status = "ABSENT"
                                                  THEN [outbound[e] EXCEPT !.status = "PENDING"]
                                                  ELSE outbound[e]]
        /\ UNCHANGED <<account, ingress, crun, letters, receipts, posted, at, connHost,
                       connCrashes, disabled>>
    BY DEF HookProjects, ProjectRunOutput, Enqueued, connRow
  <1>3. /\ outbound' \in [Inbound -> OutboundRow]
        /\ \A d \in Inbound : \/ outbound'[d] = outbound[d]
                              \/ outbound[d].status = "ABSENT" /\ outbound'[d].status = "PENDING"
    <2>1. outbound \in [Inbound -> OutboundRow]
      BY <1>1 DEF ConnTypeOK
    <2>2. outbound[e] \in OutboundRow
      BY <2>1
    <2>3. [outbound[e] EXCEPT !.status = "PENDING"] \in OutboundRow
      BY <2>2 DEF OutboundRow
    <2> QED BY <1>2, <2>1, <2>3 DEF OutboundRow
  <1>4. ConnTypeOK'
    BY <1>1, <1>2, <1>3 DEF ConnTypeOK
  <1>5. WorkerOK'
    BY <1>1, <1>2, <1>3 DEF WorkerOK, AtRest
  <1>6. HoldOK'
    BY <1>1, <1>2, <1>3 DEF HoldOK, WorkerOK, AtRest
  <1>7. AloneOK'
    BY <1>1, <1>2, <1>3 DEF AloneOK
  <1>8. RowOK'
    BY <1>1, <1>2, <1>3 DEF RowOK
  <1>9. PostedAtMostOnce'
    BY <1>1, <1>2, <1>3 DEF PostedAtMostOnce
  <1>10. DeliveryIsTruthful'
    BY <1>1, <1>2, <1>3 DEF DeliveryIsTruthful
  <1>11. DeadIsLettered'
    BY <1>1, <1>2, <1>3 DEF DeadIsLettered
  <1>12. AdoptedHasRun'
    BY <1>1, <1>2, <1>3 DEF AdoptedHasRun
  <1>13. SettledStep
    BY <1>1, <1>2, <1>3 DEF SettledStep, Settled
  <1> QED BY <1>4, <1>5, <1>6, <1>7, <1>8, <1>9, <1>10, <1>11, <1>12, <1>13 DEF ConnInv

-----------------------------------------------------------------------------
\* What becomes of the deliveries whose claims expired: one that was dispatched is
\* UNCERTAIN with a letter, one that was only claimed is sent again.
LEMMA LapseFacts ==
    ASSUME ConnTypeOK, RowOK, NEW X \in SUBSET Inbound, X \subseteq Claimed(outbound)
    PROVE  LET rows == DeliveriesRecovered(X)
           IN  /\ rows \in [Inbound -> OutboundRow] /\ LapsedLetters(X) \subseteq Letter
               /\ \A d \in Inbound :
                     \/ d \notin X /\ rows[d] = outbound[d]
                     \/ /\ d \in X /\ outbound[d].status = "DELIVERING" /\ outbound[d].attempt = "DISPATCHED"
                        /\ rows[d].status = "UNCERTAIN" /\ rows[d].attempt = "UNCERTAIN"
                     \/ /\ d \in X /\ outbound[d].status = "DELIVERING" /\ outbound[d].attempt = "CLAIMED"
                        /\ rows[d].status = "PENDING"
               /\ \A d \in Inbound : rows[d].tries = outbound[d].tries
               /\ \A d \in Inbound :
                     /\ <<"DELIVERY", d>> \in LapsedLetters(X)
                           <=> \/ <<"DELIVERY", d>> \in letters
                               \/ d \in X /\ outbound[d].attempt = "DISPATCHED"
                     /\ <<"INGRESS", d>> \in LapsedLetters(X) <=> <<"INGRESS", d>> \in letters
  <1> DEFINE rows == DeliveriesRecovered(X)
  <1>1. outbound \in [Inbound -> OutboundRow] /\ letters \subseteq Letter
    BY DEF ConnTypeOK
  <1>2. ASSUME NEW d \in X
        PROVE  /\ outbound[d] \in OutboundRow /\ outbound[d].status = "DELIVERING"
               /\ outbound[d].attempt \in {"CLAIMED", "DISPATCHED"}
    <2>1. outbound[d] \in OutboundRow /\ outbound[d].status \in {"CLAIMED", "DELIVERING"}
      BY <1>1 DEF Claimed
    <2>2. outbound[d].status = "DELIVERING"
      BY <2>1 DEF OutboundRow, Settled
    <2> QED BY <2>1, <2>2 DEF RowOK
  <1>3. ASSUME NEW d \in X
        PROVE  /\ Lapsed(outbound[d]) \in OutboundRow
               /\ Lapsed(outbound[d]).tries = outbound[d].tries
               /\ outbound[d].attempt = "DISPATCHED" =>
                      Lapsed(outbound[d]).status = "UNCERTAIN" /\ Lapsed(outbound[d]).attempt = "UNCERTAIN"
               /\ outbound[d].attempt = "CLAIMED" => Lapsed(outbound[d]).status = "PENDING"
    BY <1>2 DEF Lapsed, OutboundRow, Settled
  <1>4. /\ \A d \in X : rows[d] = Lapsed(outbound[d])
        /\ \A d \in Inbound \ X : rows[d] = outbound[d]
        /\ rows = [d \in Inbound |-> rows[d]]
    BY DEF DeliveriesRecovered
  <1>5. LapsedLetters(X) = letters \cup {<<"DELIVERY", d>> : d \in {x \in X : Lapsed(outbound[x]).status = "UNCERTAIN"}}
    BY DEF LapsedLetters
  <1>6. \A d \in X : Lapsed(outbound[d]).status = "UNCERTAIN" <=> outbound[d].attempt = "DISPATCHED"
    BY <1>2, <1>3
  <1>7. /\ LapsedLetters(X) \subseteq Letter
        /\ \A d \in Inbound :
              /\ <<"DELIVERY", d>> \in LapsedLetters(X)
                    <=> \/ <<"DELIVERY", d>> \in letters
                        \/ d \in X /\ outbound[d].attempt = "DISPATCHED"
              /\ <<"INGRESS", d>> \in LapsedLetters(X) <=> <<"INGRESS", d>> \in letters
    <2> HIDE DEF rows
    <2>1. LapsedLetters(X) \subseteq Letter
      BY <1>1, <1>5 DEF Letter
    <2>2. ASSUME NEW d \in Inbound
          PROVE  <<"DELIVERY", d>> \in LapsedLetters(X)
                    <=> \/ <<"DELIVERY", d>> \in letters
                        \/ d \in X /\ outbound[d].attempt = "DISPATCHED"
      BY <1>5, <1>6
    <2>3. ASSUME NEW d \in Inbound
          PROVE  <<"INGRESS", d>> \in LapsedLetters(X) <=> <<"INGRESS", d>> \in letters
      BY <1>5
    <2> QED BY <2>1, <2>2, <2>3
  <1> HIDE DEF rows
  <1>8. rows \in [Inbound -> OutboundRow]
    <2>1. \A d \in Inbound : rows[d] \in OutboundRow
      BY <1>1, <1>3, <1>4
    <2> QED BY <1>4, <2>1
  <1>9. ASSUME NEW d \in Inbound
        PROVE  /\ \/ d \notin X /\ rows[d] = outbound[d]
                  \/ /\ d \in X /\ outbound[d].status = "DELIVERING" /\ outbound[d].attempt = "DISPATCHED"
                     /\ rows[d].status = "UNCERTAIN" /\ rows[d].attempt = "UNCERTAIN"
                  \/ /\ d \in X /\ outbound[d].status = "DELIVERING" /\ outbound[d].attempt = "CLAIMED"
                     /\ rows[d].status = "PENDING"
               /\ rows[d].tries = outbound[d].tries
    BY <1>2, <1>3, <1>4
  <1> QED BY <1>7, <1>8, <1>9 DEF rows

\* A claim takes a delivery that nobody has in hand, and what it finds expired is never sent again once it was dispatched.
LEMMA ClaimDeliveryInv ==
    ASSUME ConnInv, NEW w \in Sender, NEW X \in SUBSET Inbound, NEW e \in Inbound, ClaimDelivery(w, X, e)
    PROVE  ConnInv' /\ SettledStep
  <1>1. /\ ConnTypeOK /\ WorkerOK /\ HoldOK /\ AloneOK /\ RowOK
        /\ PostedAtMostOnce /\ DeliveryIsTruthful /\ DeadIsLettered /\ AdoptedHasRun
    BY DEF ConnInv
  <1>2. /\ connHost = "up" /\ at[w] = AtRest /\ \A v \in Sender : at[v].pc = "claimed" => v = w
        /\ X \subseteq Claimed(outbound) /\ DeliveriesRecovered(X)[e].status = "PENDING"
        /\ outbound[e].tries < MaxDeliveryAttempts
        /\ outbound' = TakeDelivery(DeliveriesRecovered(X), e, w) /\ letters' = LapsedLetters(X)
        /\ at' = [at EXCEPT ![w] = [pc |-> "claimed", event |-> e]]
        /\ UNCHANGED <<account, ingress, crun, receipts, posted, projected, connHost, connCrashes,
                       disabled>>
    BY DEF ClaimDelivery, MayAct, Goes, connRow
  <1>3. /\ outbound' \in [Inbound -> OutboundRow] /\ letters' \subseteq Letter
        /\ outbound'[e].status = "DELIVERING" /\ outbound'[e].attempt = "CLAIMED" /\ outbound'[e].claim = w
        /\ \/ outbound[e].status = "PENDING"
           \/ outbound[e].status = "DELIVERING" /\ outbound[e].attempt = "CLAIMED"
        /\ \A d \in Inbound \ {e} :
              \/ d \notin X /\ outbound'[d] = outbound[d]
              \/ /\ d \in X /\ outbound[d].status = "DELIVERING" /\ outbound[d].attempt = "DISPATCHED"
                 /\ outbound'[d].status = "UNCERTAIN" /\ outbound'[d].attempt = "UNCERTAIN"
              \/ /\ d \in X /\ outbound[d].status = "DELIVERING" /\ outbound[d].attempt = "CLAIMED"
                 /\ outbound'[d].status = "PENDING"
        /\ \A d \in Inbound :
              /\ <<"DELIVERY", d>> \in letters'
                    <=> \/ <<"DELIVERY", d>> \in letters
                        \/ d \in X /\ outbound[d].attempt = "DISPATCHED"
              /\ <<"INGRESS", d>> \in letters' <=> <<"INGRESS", d>> \in letters
        /\ e \in X => outbound[e].attempt # "DISPATCHED"
    <2> DEFINE rows == DeliveriesRecovered(X)
    <2>1. /\ rows \in [Inbound -> OutboundRow] /\ letters' \subseteq Letter
          /\ \A d \in Inbound :
                \/ d \notin X /\ rows[d] = outbound[d]
                \/ /\ d \in X /\ outbound[d].status = "DELIVERING" /\ outbound[d].attempt = "DISPATCHED"
                   /\ rows[d].status = "UNCERTAIN" /\ rows[d].attempt = "UNCERTAIN"
                \/ /\ d \in X /\ outbound[d].status = "DELIVERING" /\ outbound[d].attempt = "CLAIMED"
                   /\ rows[d].status = "PENDING"
          /\ rows[e].tries = outbound[e].tries
          /\ \A d \in Inbound :
                /\ <<"DELIVERY", d>> \in letters'
                      <=> \/ <<"DELIVERY", d>> \in letters
                          \/ d \in X /\ outbound[d].attempt = "DISPATCHED"
                /\ <<"INGRESS", d>> \in letters' <=> <<"INGRESS", d>> \in letters
      BY <1>1, <1>2, LapseFacts
    <2>2. outbound' = [rows EXCEPT ![e] = [status |-> "DELIVERING", tries |-> rows[e].tries + 1,
                                           attempt |-> "CLAIMED", claim |-> w]]
          /\ rows[e].status = "PENDING"
      BY <1>2 DEF TakeDelivery
    <2>3. rows[e].tries \in 0 .. MaxDeliveryAttempts /\ rows[e].tries < MaxDeliveryAttempts
      BY <1>2, <2>1 DEF OutboundRow
    <2> HIDE DEF rows
    <2>4. rows[e].tries + 1 \in 0 .. MaxDeliveryAttempts
      BY <2>3, ConnectorAssumption
    <2>5. [status |-> "DELIVERING", tries |-> rows[e].tries + 1, attempt |-> "CLAIMED", claim |-> w] \in OutboundRow
      BY <2>4 DEF OutboundRow
    <2>6. outbound' \in [Inbound -> OutboundRow] /\ \A d \in Inbound \ {e} : outbound'[d] = rows[d]
      BY <2>1, <2>2, <2>5
    <2>7. outbound'[e].status = "DELIVERING" /\ outbound'[e].attempt = "CLAIMED" /\ outbound'[e].claim = w
      BY <2>1, <2>2
    <2>8. /\ \/ outbound[e].status = "PENDING"
             \/ outbound[e].status = "DELIVERING" /\ outbound[e].attempt = "CLAIMED"
          /\ e \in X => outbound[e].attempt # "DISPATCHED"
      BY <2>1, <2>2
    <2>9. \A d \in Inbound \ {e} :
                \/ d \notin X /\ outbound'[d] = outbound[d]
                \/ /\ d \in X /\ outbound[d].status = "DELIVERING" /\ outbound[d].attempt = "DISPATCHED"
                   /\ outbound'[d].status = "UNCERTAIN" /\ outbound'[d].attempt = "UNCERTAIN"
                \/ /\ d \in X /\ outbound[d].status = "DELIVERING" /\ outbound[d].attempt = "CLAIMED"
                   /\ outbound'[d].status = "PENDING"
      BY <2>1, <2>6
    <2> QED BY <2>1, <2>6, <2>7, <2>8, <2>9
  <1>4. \A v \in Reader \cup Sender : at'[v] = IF v = w THEN [pc |-> "claimed", event |-> e] ELSE at[v]
    BY <1>1, <1>2 DEF ConnTypeOK
  <1>5. w \notin Reader
    BY ConnectorAssumption
  <1>6. ConnTypeOK'
    BY <1>1, <1>2, <1>3, <1>4, <1>5 DEF ConnTypeOK
  <1>7. WorkerOK'
    BY <1>1, <1>2, <1>3, <1>4, <1>5 DEF WorkerOK, AtRest, Busy
  <1>8. HoldOK'
    BY <1>1, <1>2, <1>3, <1>4, <1>5 DEF HoldOK, WorkerOK, AtRest, RowOK, DeliveryIsTruthful
  <1>9. AloneOK'
    BY <1>1, <1>2, <1>3, <1>4, <1>5 DEF AloneOK, HoldOK, WorkerOK, AtRest
  <1>10. RowOK'
    BY <1>1, <1>2, <1>3, <1>4, <1>5 DEF RowOK, DeliveryIsTruthful
  <1>11. PostedAtMostOnce'
    BY <1>1, <1>2, <1>3, <1>4, <1>5 DEF PostedAtMostOnce
  <1>12. DeliveryIsTruthful'
    BY <1>1, <1>2, <1>3, <1>4, <1>5 DEF DeliveryIsTruthful, RowOK
  <1>13. DeadIsLettered'
    BY <1>1, <1>2, <1>3, <1>4, <1>5 DEF DeadIsLettered
  <1>14. AdoptedHasRun'
    BY <1>1, <1>2, <1>3, <1>4, <1>5 DEF AdoptedHasRun
  <1>15. SettledStep
    BY <1>1, <1>2, <1>3, <1>4, <1>5 DEF SettledStep, Settled
  <1> QED BY <1>6, <1>7, <1>8, <1>9, <1>10, <1>11, <1>12, <1>13, <1>14, <1>15 DEF ConnInv

\* Expired claims are recovered when there is nothing to send.
LEMMA RecoverDeliveriesInv ==
    ASSUME ConnInv, NEW w \in Sender, NEW X \in SUBSET Inbound, RecoverDeliveries(w, X)
    PROVE  ConnInv' /\ SettledStep
  <1>1. /\ ConnTypeOK /\ WorkerOK /\ HoldOK /\ AloneOK /\ RowOK
        /\ PostedAtMostOnce /\ DeliveryIsTruthful /\ DeadIsLettered /\ AdoptedHasRun
    BY DEF ConnInv
  <1>2. /\ connHost = "up" /\ at[w] = AtRest /\ \A v \in Sender : at[v].pc = "claimed" => v = w
        /\ X \subseteq Claimed(outbound)
        /\ outbound' = DeliveriesRecovered(X) /\ letters' = LapsedLetters(X)
        /\ UNCHANGED <<account, ingress, crun, receipts, posted, at, projected, connHost,
                       connCrashes, disabled>>
    BY DEF RecoverDeliveries, MayAct, connRow
  <1>3. /\ outbound' \in [Inbound -> OutboundRow] /\ letters' \subseteq Letter
        /\ \A d \in Inbound :
              \/ d \notin X /\ outbound'[d] = outbound[d]
              \/ /\ d \in X /\ outbound[d].status = "DELIVERING" /\ outbound[d].attempt = "DISPATCHED"
                 /\ outbound'[d].status = "UNCERTAIN" /\ outbound'[d].attempt = "UNCERTAIN"
              \/ /\ d \in X /\ outbound[d].status = "DELIVERING" /\ outbound[d].attempt = "CLAIMED"
                 /\ outbound'[d].status = "PENDING"
        /\ \A d \in Inbound :
              /\ <<"DELIVERY", d>> \in letters'
                    <=> \/ <<"DELIVERY", d>> \in letters
                        \/ d \in X /\ outbound[d].attempt = "DISPATCHED"
              /\ <<"INGRESS", d>> \in letters' <=> <<"INGRESS", d>> \in letters
    BY <1>1, <1>2, LapseFacts
  <1>4. ConnTypeOK'
    BY <1>1, <1>2, <1>3 DEF ConnTypeOK
  <1>5. WorkerOK'
    BY <1>1, <1>2, <1>3 DEF WorkerOK, AtRest
  <1>6. HoldOK'
    BY <1>1, <1>2, <1>3 DEF HoldOK, WorkerOK, AtRest
  <1>7. AloneOK'
    BY <1>1, <1>2, <1>3 DEF AloneOK
  <1>8. RowOK'
    BY <1>1, <1>2, <1>3 DEF RowOK
  <1>9. PostedAtMostOnce'
    BY <1>1, <1>2, <1>3 DEF PostedAtMostOnce
  <1>10. DeliveryIsTruthful'
    BY <1>1, <1>2, <1>3 DEF DeliveryIsTruthful, RowOK
  <1>11. DeadIsLettered'
    BY <1>1, <1>2, <1>3 DEF DeadIsLettered
  <1>12. AdoptedHasRun'
    BY <1>1, <1>2, <1>3 DEF AdoptedHasRun
  <1>13. SettledStep
    BY <1>1, <1>2, <1>3 DEF SettledStep, Settled
  <1> QED BY <1>4, <1>5, <1>6, <1>7, <1>8, <1>9, <1>10, <1>11, <1>12, <1>13 DEF ConnInv

\* The delivery is dispatched by the sender that claimed it, before anything leaves the Host.
LEMMA MarkDispatchedInv ==
    ASSUME ConnInv, NEW w \in Sender, MarkDispatched(w)
    PROVE  ConnInv' /\ SettledStep
  <1>1. /\ ConnTypeOK /\ WorkerOK /\ HoldOK /\ AloneOK /\ RowOK
        /\ PostedAtMostOnce /\ DeliveryIsTruthful /\ DeadIsLettered /\ AdoptedHasRun
    BY DEF ConnInv
  <1>2. /\ connHost = "up" /\ at[w].pc = "claimed"
        /\ outbound' = [outbound EXCEPT ![at[w].event].attempt = "DISPATCHED"]
        /\ at' = [at EXCEPT ![w] = [pc |-> "posting", event |-> at[w].event]]
        /\ UNCHANGED <<account, ingress, crun, letters, receipts, posted, projected, connHost,
                       connCrashes, disabled>>
    BY DEF MarkDispatched, MayAct, Goes, connRow
  <1>3. /\ at[w].event \in Inbound /\ outbound \in [Inbound -> OutboundRow]
        /\ w \in Reader \cup Sender /\ w \notin Reader
    BY <1>1, <1>2, ConnectorAssumption DEF WorkerOK, ConnTypeOK, AtRest, Busy, Answers
  <1>4. /\ outbound' \in [Inbound -> OutboundRow]
        /\ outbound'[at[w].event].attempt = "DISPATCHED"
        /\ outbound'[at[w].event].status = outbound[at[w].event].status
        /\ outbound'[at[w].event].claim = outbound[at[w].event].claim
        /\ \A d \in Inbound \ {at[w].event} : outbound'[d] = outbound[d]
    BY <1>2, <1>3 DEF OutboundRow
  <1>5. outbound[at[w].event].status = "DELIVERING" /\ outbound[at[w].event].claim = w /\ posted[at[w].event] = 0
    BY <1>1, <1>2 DEF HoldOK
  <1>6. \A v \in Reader \cup Sender : at'[v] = IF v = w THEN [pc |-> "posting", event |-> at[w].event] ELSE at[v]
    BY <1>1, <1>2 DEF ConnTypeOK
  <1>7. ConnTypeOK'
    BY <1>1, <1>2, <1>3, <1>4, <1>5, <1>6 DEF ConnTypeOK
  <1>8. WorkerOK'
    BY <1>1, <1>2, <1>3, <1>4, <1>5, <1>6 DEF WorkerOK, AtRest, Busy
  <1>9. HoldOK'
    BY <1>1, <1>2, <1>3, <1>4, <1>5, <1>6 DEF HoldOK, AloneOK, WorkerOK, AtRest
  <1>10. AloneOK'
    BY <1>1, <1>2, <1>3, <1>4, <1>5, <1>6 DEF AloneOK
  <1>11. RowOK'
    BY <1>1, <1>2, <1>3, <1>4, <1>5, <1>6 DEF RowOK
  <1>12. PostedAtMostOnce'
    BY <1>1, <1>2, <1>3, <1>4, <1>5, <1>6 DEF PostedAtMostOnce
  <1>13. DeliveryIsTruthful'
    BY <1>1, <1>2, <1>3, <1>4, <1>5, <1>6 DEF DeliveryIsTruthful
  <1>14. DeadIsLettered'
    BY <1>1, <1>2, <1>3, <1>4, <1>5, <1>6 DEF DeadIsLettered
  <1>15. AdoptedHasRun'
    BY <1>1, <1>2, <1>3, <1>4, <1>5, <1>6 DEF AdoptedHasRun
  <1>16. SettledStep
    BY <1>1, <1>2, <1>3, <1>4, <1>5, <1>6 DEF SettledStep, Settled
  <1> QED BY <1>7, <1>8, <1>9, <1>10, <1>11, <1>12, <1>13, <1>14, <1>15, <1>16 DEF ConnInv

\* The provider accepts the post of the one sender that has the delivery.
LEMMA PostInv ==
    ASSUME ConnInv, NEW w \in Sender, NEW h \in Http, Post(w, h)
    PROVE  ConnInv' /\ SettledStep
  <1>1. /\ ConnTypeOK /\ WorkerOK /\ HoldOK /\ AloneOK /\ RowOK
        /\ PostedAtMostOnce /\ DeliveryIsTruthful /\ DeadIsLettered /\ AdoptedHasRun
    BY DEF ConnInv
  <1>2. /\ connHost = "up" /\ at[w].pc = "posting"
        /\ \/ h \in {"created", "garbled", "silent"} /\ posted' = [posted EXCEPT ![at[w].event] = @ + 1]
           \/ h # "created" /\ h # "garbled" /\ UNCHANGED posted
        /\ at' = [at EXCEPT ![w] = [pc |-> CreatePost(h), event |-> at[w].event]]
        /\ UNCHANGED <<account, ingress, crun, outbound, letters, receipts, projected, connHost,
                       connCrashes, disabled>>
    BY DEF Post, MayAct, Goes, connRow
  <1>3. /\ at[w].event \in Inbound /\ outbound \in [Inbound -> OutboundRow]
        /\ w \in Reader \cup Sender /\ w \notin Reader
    BY <1>1, <1>2, ConnectorAssumption DEF WorkerOK, ConnTypeOK, AtRest, Busy, Answers
  <1>4. /\ CreatePost(h) \in Answers
        /\ h \in {"created", "garbled", "silent"} => CreatePost(h) \in {"accepted", "maybe"}
        /\ h # "created" => CreatePost(h) # "accepted"
    BY DEF CreatePost, Http, Answers
  <1>5. /\ posted' \in [Inbound -> 0 .. MaxDeliveryAttempts] /\ posted[at[w].event] = 0
        /\ posted'[at[w].event] \in {0, 1}
        /\ posted'[at[w].event] = 1 => CreatePost(h) \in {"accepted", "maybe"}
        /\ CreatePost(h) = "accepted" => posted'[at[w].event] = 1
        /\ \A d \in Inbound \ {at[w].event} : posted'[d] = posted[d]
        /\ outbound[at[w].event].status \in {"DELIVERING", "UNCERTAIN"}
        /\ outbound[at[w].event].status = "DELIVERING" => outbound[at[w].event].attempt = "DISPATCHED"
    <2>1. posted \in [Inbound -> 0 .. MaxDeliveryAttempts] /\ 1 \in 0 .. MaxDeliveryAttempts
      BY <1>1, ConnectorAssumption DEF ConnTypeOK
    <2>2. /\ posted[at[w].event] = 0 /\ outbound[at[w].event].status \in {"DELIVERING", "UNCERTAIN"}
          /\ outbound[at[w].event].status = "DELIVERING" => outbound[at[w].event].attempt = "DISPATCHED"
      BY <1>1, <1>2 DEF HoldOK
    <2> QED BY <1>2, <1>3, <1>4, <2>1, <2>2
  <1>6. \A v \in Reader \cup Sender : at'[v] = IF v = w THEN [pc |-> CreatePost(h), event |-> at[w].event] ELSE at[v]
    BY <1>1, <1>2 DEF ConnTypeOK
  <1>7. ConnTypeOK'
    BY <1>1, <1>2, <1>3, <1>4, <1>5, <1>6 DEF ConnTypeOK, Answers
  <1>8. WorkerOK'
    BY <1>1, <1>2, <1>3, <1>4, <1>5, <1>6 DEF WorkerOK, AtRest, Busy, Answers
  <1>9. HoldOK'
    BY <1>1, <1>2, <1>3, <1>4, <1>5, <1>6 DEF HoldOK, AloneOK, WorkerOK, AtRest, Answers
  <1>10. AloneOK'
    BY <1>1, <1>2, <1>3, <1>4, <1>5, <1>6 DEF AloneOK, Answers
  <1>11. RowOK'
    BY <1>1, <1>2, <1>3, <1>4, <1>5, <1>6 DEF RowOK
  <1>12. PostedAtMostOnce'
    BY <1>1, <1>2, <1>3, <1>4, <1>5, <1>6 DEF PostedAtMostOnce
  <1>13. DeliveryIsTruthful'
    BY <1>1, <1>2, <1>3, <1>4, <1>5, <1>6 DEF DeliveryIsTruthful
  <1>14. DeadIsLettered'
    BY <1>1, <1>2, <1>3, <1>4, <1>5, <1>6 DEF DeadIsLettered
  <1>15. AdoptedHasRun'
    BY <1>1, <1>2, <1>3, <1>4, <1>5, <1>6 DEF AdoptedHasRun
  <1>16. SettledStep
    BY <1>1, <1>2, <1>3, <1>4, <1>5, <1>6 DEF SettledStep, Settled
  <1> QED BY <1>7, <1>8, <1>9, <1>10, <1>11, <1>12, <1>13, <1>14, <1>15, <1>16 DEF ConnInv

\* An answer is written under the claim, with its receipt or its letter; a late one changes nothing.
LEMMA FinishDeliveryInv ==
    ASSUME ConnInv, NEW w \in Sender, FinishDelivery(w)
    PROVE  ConnInv' /\ SettledStep
  <1>1. /\ ConnTypeOK /\ WorkerOK /\ HoldOK /\ AloneOK /\ RowOK
        /\ PostedAtMostOnce /\ DeliveryIsTruthful /\ DeadIsLettered /\ AdoptedHasRun
    BY DEF ConnInv
  <1>2. /\ connHost = "up" /\ at[w].pc \in Answers
        /\ \/ /\ OwnsDelivery(w)
              /\ FinishAttempt(at[w].event, Outcome(at[w].pc, outbound[at[w].event].tries))
              /\ InsertReceipt(at[w].event, Outcome(at[w].pc, outbound[at[w].event].tries))
              /\ LetterOf(at[w].event, Outcome(at[w].pc, outbound[at[w].event].tries))
           \/ ~OwnsDelivery(w) /\ UNCHANGED <<outbound, receipts, letters>>
        /\ at' = [at EXCEPT ![w] = AtRest]
        /\ UNCHANGED <<account, ingress, crun, posted, projected, connHost, connCrashes, disabled>>
    BY DEF FinishDelivery, MayAct, Rests, connRow
  <1>3. /\ at[w].event \in Inbound /\ outbound \in [Inbound -> OutboundRow]
        /\ w \in Reader \cup Sender /\ w \notin Reader
    BY <1>1, <1>2, ConnectorAssumption DEF WorkerOK, ConnTypeOK, AtRest, Busy, Answers
  <1>4. \/ UNCHANGED <<outbound, receipts, letters>>
        \/ /\ outbound' \in [Inbound -> OutboundRow]
           /\ outbound[at[w].event].status = "DELIVERING"
           /\ \A d \in Inbound \ {at[w].event} : outbound'[d] = outbound[d]
           /\ outbound'[at[w].event].status \in {"DELIVERED", "SUPPRESSED", "PENDING", "UNCERTAIN", "DEAD"}
           /\ outbound'[at[w].event].status = "DELIVERED" => at[w].pc = "accepted"
           /\ outbound'[at[w].event].status = "UNCERTAIN" => outbound'[at[w].event].attempt = "UNCERTAIN"
           /\ outbound'[at[w].event].status \in {"SUPPRESSED", "PENDING", "DEAD"}
                 => at[w].pc \in {"suppressed", "again", "never"}
           /\ receipts' \subseteq Inbound /\ letters' \subseteq Letter
           /\ \A d \in Inbound :
                 /\ d \in receipts' <=> d \in receipts \/ (d = at[w].event /\ outbound'[d].status = "DELIVERED")
                 /\ <<"INGRESS", d>> \in letters' <=> <<"INGRESS", d>> \in letters
                 /\ <<"DELIVERY", d>> \in letters'
                       <=> \/ <<"DELIVERY", d>> \in letters
                           \/ d = at[w].event /\ outbound'[d].status \in {"UNCERTAIN", "DEAD"}
    <2> DEFINE e == at[w].event
               o == Outcome(at[w].pc, outbound[e].tries)
    <2>1. CASE ~OwnsDelivery(w)
      BY <1>2, <2>1
    <2>2. CASE OwnsDelivery(w)
      <3>1. /\ outbound' = [outbound EXCEPT ![e] = [@ EXCEPT !.status = o.status, !.attempt = o.attempt, !.claim = NoClaim]]
            /\ receipts' = IF o.status = "DELIVERED" THEN receipts \cup {e} ELSE receipts
            /\ letters' = IF o.status \in {"UNCERTAIN", "DEAD"} THEN letters \cup {<<"DELIVERY", e>>} ELSE letters
        BY <1>2, <2>2 DEF FinishAttempt, InsertReceipt, LetterOf, DeadLetter
      <3>2. /\ o.status \in {"DELIVERED", "SUPPRESSED", "PENDING", "UNCERTAIN", "DEAD"}
            /\ o.attempt \in {"ACCEPTED", "REJECTED", "UNCERTAIN"}
            /\ o.status = "DELIVERED" => at[w].pc = "accepted"
            /\ o.status = "UNCERTAIN" => o.attempt = "UNCERTAIN"
            /\ o.status \in {"SUPPRESSED", "PENDING", "DEAD"} => at[w].pc \in {"suppressed", "again", "never"}
        BY <1>2 DEF Outcome, Retried, Answers
      <3>3. outbound[e].status = "DELIVERING"
        BY <1>1, <1>2, <1>3, <2>2 DEF OwnsDelivery, HoldOK, RowOK, Answers
      <3> HIDE DEF o
      <3>4. /\ outbound' \in [Inbound -> OutboundRow]
            /\ outbound'[e].status = o.status /\ outbound'[e].attempt = o.attempt
            /\ \A d \in Inbound \ {e} : outbound'[d] = outbound[d]
        BY <1>3, <3>1, <3>2 DEF OutboundRow, Settled
      <3>5. receipts' \subseteq Inbound /\ letters' \subseteq Letter
        BY <1>1, <1>3, <3>1 DEF ConnTypeOK, Letter
      <3>6. ASSUME NEW d \in Inbound
            PROVE  /\ d \in receipts' <=> d \in receipts \/ (d = e /\ o.status = "DELIVERED")
                   /\ <<"INGRESS", d>> \in letters' <=> <<"INGRESS", d>> \in letters
                   /\ <<"DELIVERY", d>> \in letters'
                       <=> <<"DELIVERY", d>> \in letters \/ (d = e /\ o.status \in {"UNCERTAIN", "DEAD"})
        BY <3>1
      <3> QED BY <3>2, <3>3, <3>4, <3>5, <3>6
    <2> QED BY <2>1, <2>2
  <1>5. /\ at[w].pc \in {"suppressed", "again", "never"} => posted[at[w].event] = 0
        /\ at[w].pc = "accepted" => posted[at[w].event] = 1
    BY <1>1, <1>2 DEF HoldOK, Answers
  <1>6. \A v \in Reader \cup Sender : at'[v] = IF v = w THEN AtRest ELSE at[v]
    BY <1>1, <1>2 DEF ConnTypeOK
  <1>7. ConnTypeOK'
    BY <1>1, <1>2, <1>3, <1>4, <1>5, <1>6 DEF ConnTypeOK, AtRest
  <1>8. WorkerOK'
    BY <1>1, <1>2, <1>6 DEF WorkerOK, AtRest
  <1>9. HoldOK'
    BY <1>1, <1>2, <1>3, <1>4, <1>5, <1>6 DEF HoldOK, AloneOK, WorkerOK, AtRest, Answers
  <1>10. AloneOK'
    BY <1>1, <1>2, <1>6 DEF AloneOK, AtRest
  <1>11. RowOK'
    BY <1>1, <1>2, <1>3, <1>4, <1>5, <1>6 DEF RowOK
  <1>12. PostedAtMostOnce'
    BY <1>1, <1>2, <1>3, <1>4, <1>5, <1>6 DEF PostedAtMostOnce
  <1>13. DeliveryIsTruthful'
    BY <1>1, <1>2, <1>3, <1>4, <1>5, <1>6 DEF DeliveryIsTruthful
  <1>14. DeadIsLettered'
    BY <1>1, <1>2, <1>3, <1>4, <1>5, <1>6 DEF DeadIsLettered
  <1>15. AdoptedHasRun'
    BY <1>1, <1>2, <1>3, <1>4, <1>5, <1>6 DEF AdoptedHasRun
  <1>16. SettledStep
    BY <1>1, <1>2, <1>3, <1>4, <1>5, <1>6 DEF SettledStep, Settled
  <1> QED BY <1>7, <1>8, <1>9, <1>10, <1>11, <1>12, <1>13, <1>14, <1>15, <1>16 DEF ConnInv

\* The Host dies: the claims stay with nobody, and so does what was dispatched.
LEMMA ConnCrashInv ==
    ASSUME ConnInv, ConnCrash
    PROVE  ConnInv' /\ SettledStep
  <1>1. /\ ConnTypeOK /\ WorkerOK /\ HoldOK /\ AloneOK /\ RowOK
        /\ PostedAtMostOnce /\ DeliveryIsTruthful /\ DeadIsLettered /\ AdoptedHasRun
    BY DEF ConnInv
  <1>2. /\ connHost = "up" /\ connCrashes < MaxConnCrashes /\ connHost' = "down" /\ connCrashes' = connCrashes + 1
        /\ at' = [w \in Reader \cup Sender |-> AtRest] /\ projected' = {}
        /\ ingress' = [e \in Inbound |-> IF ingress[e].status = "CLAIMED"
                                      THEN [ingress[e] EXCEPT !.claim = Orphan] ELSE ingress[e]]
        /\ outbound' = [e \in Inbound |-> IF outbound[e].status = "DELIVERING"
                                       THEN [outbound[e] EXCEPT !.claim = Orphan] ELSE outbound[e]]
        /\ UNCHANGED <<account, crun, letters, receipts, posted, disabled>>
    BY DEF ConnCrash, connRow
  <1>3. /\ ingress' \in [Inbound -> IngressRow]
        /\ \A e \in Inbound : /\ ingress'[e].status = ingress[e].status
                              /\ ingress[e].status # "CLAIMED" => ingress'[e] = ingress[e]
    <2>1. \A e \in Inbound : ingress[e] \in IngressRow
      BY <1>1 DEF ConnTypeOK
    <2>2. \A e \in Inbound : [ingress[e] EXCEPT !.claim = Orphan] \in IngressRow
      BY <2>1 DEF IngressRow
    <2> QED BY <1>2, <2>1, <2>2 DEF IngressRow
  <1>4. /\ outbound' \in [Inbound -> OutboundRow]
        /\ \A e \in Inbound : /\ outbound'[e].status = outbound[e].status
                              /\ outbound'[e].attempt = outbound[e].attempt
                              /\ outbound[e].status # "DELIVERING" => outbound'[e] = outbound[e]
    <2>1. \A e \in Inbound : outbound[e] \in OutboundRow
      BY <1>1 DEF ConnTypeOK
    <2>2. \A e \in Inbound : [outbound[e] EXCEPT !.claim = Orphan] \in OutboundRow
      BY <2>1 DEF OutboundRow
    <2> QED BY <1>2, <2>1, <2>2 DEF OutboundRow
  <1>5. /\ \A w \in Reader \cup Sender : at'[w] = AtRest
        /\ connCrashes' \in 0 .. MaxConnCrashes
    BY <1>1, <1>2, ConnectorAssumption DEF ConnTypeOK
  <1>6. ConnTypeOK'
    <2>1. at' \in [Reader \cup Sender -> [pc : {"idle", "normalizing", "claimed", "posting"} \cup Answers,
                                          event : Inbound \cup {"NONE"}]]
      BY <1>2 DEF AtRest
    <2> QED BY <1>1, <1>2, <1>3, <1>4, <1>5, <2>1 DEF ConnTypeOK
  <1>7. WorkerOK'
    BY <1>1, <1>2, <1>3, <1>4, <1>5 DEF WorkerOK, AtRest
  <1>8. HoldOK'
    BY <1>1, <1>2, <1>3, <1>4, <1>5 DEF HoldOK, AtRest
  <1>9. AloneOK'
    BY <1>1, <1>2, <1>3, <1>4, <1>5 DEF AloneOK, AtRest
  <1>10. RowOK'
    BY <1>1, <1>2, <1>3, <1>4, <1>5 DEF RowOK
  <1>11. PostedAtMostOnce'
    BY <1>1, <1>2, <1>3, <1>4, <1>5 DEF PostedAtMostOnce
  <1>12. DeliveryIsTruthful'
    BY <1>1, <1>2, <1>3, <1>4, <1>5 DEF DeliveryIsTruthful
  <1>13. DeadIsLettered'
    BY <1>1, <1>2, <1>3, <1>4, <1>5 DEF DeadIsLettered
  <1>14. AdoptedHasRun'
    BY <1>1, <1>2, <1>3, <1>4, <1>5 DEF AdoptedHasRun
  <1>15. SettledStep
    BY <1>1, <1>2, <1>3, <1>4, <1>5 DEF SettledStep, Settled
  <1> QED BY <1>6, <1>7, <1>8, <1>9, <1>10, <1>11, <1>12, <1>13, <1>14, <1>15 DEF ConnInv

\* A start recovers what expired and projects what was not projected.
LEMMA ConnStartupInv ==
    ASSUME ConnInv, NEW X \in SUBSET Inbound, NEW Y \in SUBSET Inbound, ConnStartup(X, Y)
    PROVE  ConnInv' /\ SettledStep
  <1>1. /\ ConnTypeOK /\ WorkerOK /\ HoldOK /\ AloneOK /\ RowOK
        /\ PostedAtMostOnce /\ DeliveryIsTruthful /\ DeadIsLettered /\ AdoptedHasRun
    BY DEF ConnInv
  <1>2. /\ connHost = "down" /\ X \subseteq Claimed(ingress) /\ Y \subseteq Claimed(outbound)
        /\ ingress' = IngressRecovered(X) /\ letters' = LapsedLetters(Y) /\ connHost' = "up"
        /\ outbound' = RecoverRunOutputs(DeliveriesRecovered(Y))
        /\ UNCHANGED <<account, crun, receipts, posted, at, projected, connCrashes, disabled>>
    BY DEF ConnStartup, connRow
  <1>3. /\ ingress' \in [Inbound -> IngressRow]
        /\ \A e \in Inbound : \/ ingress'[e] = ingress[e]
                              \/ ingress[e].status = "CLAIMED" /\ ingress'[e].status = "RECEIVED"
    <2>1. ingress \in [Inbound -> IngressRow]
      BY <1>1 DEF ConnTypeOK
    <2>2. \A d \in X : ingress[d].status \in {"CLAIMED", "DELIVERING"}
      BY <1>2 DEF Claimed
    <2>3. \A d \in X : ingress[d].status = "CLAIMED"
      BY <2>1, <2>2 DEF IngressRow
    <2> QED BY <1>2, <2>1, <2>3 DEF IngressRecovered, IngressRow
  <1>4. /\ outbound' \in [Inbound -> OutboundRow] /\ letters' \subseteq Letter
        /\ \A d \in Inbound :
              \/ d \notin Y /\ outbound'[d] = outbound[d]
              \/ d \notin Y /\ outbound[d].status = "ABSENT" /\ outbound'[d].status = "PENDING"
              \/ /\ d \in Y /\ outbound[d].status = "DELIVERING" /\ outbound[d].attempt = "DISPATCHED"
                 /\ outbound'[d].status = "UNCERTAIN" /\ outbound'[d].attempt = "UNCERTAIN"
              \/ /\ d \in Y /\ outbound[d].status = "DELIVERING" /\ outbound[d].attempt = "CLAIMED"
                 /\ outbound'[d].status = "PENDING"
        /\ \A d \in Inbound :
              /\ <<"DELIVERY", d>> \in letters'
                    <=> \/ <<"DELIVERY", d>> \in letters
                        \/ d \in Y /\ outbound[d].attempt = "DISPATCHED"
              /\ <<"INGRESS", d>> \in letters' <=> <<"INGRESS", d>> \in letters
    <2> DEFINE rows == DeliveriesRecovered(Y)
    <2>1. /\ rows \in [Inbound -> OutboundRow] /\ letters' \subseteq Letter
          /\ \A d \in Inbound :
                \/ d \notin Y /\ rows[d] = outbound[d]
                \/ /\ d \in Y /\ outbound[d].status = "DELIVERING" /\ outbound[d].attempt = "DISPATCHED"
                   /\ rows[d].status = "UNCERTAIN" /\ rows[d].attempt = "UNCERTAIN"
                \/ /\ d \in Y /\ outbound[d].status = "DELIVERING" /\ outbound[d].attempt = "CLAIMED"
                   /\ rows[d].status = "PENDING"
          /\ \A d \in Inbound :
                /\ <<"DELIVERY", d>> \in letters'
                      <=> \/ <<"DELIVERY", d>> \in letters
                          \/ d \in Y /\ outbound[d].attempt = "DISPATCHED"
                /\ <<"INGRESS", d>> \in letters' <=> <<"INGRESS", d>> \in letters
      BY <1>1, <1>2, LapseFacts
    <2> HIDE DEF rows
    <2>2. outbound' = [d \in Inbound |-> IF crun[d] = "COMPLETED" THEN Enqueued(rows[d]) ELSE rows[d]]
      BY <1>2 DEF RecoverRunOutputs, rows
    <2>3. ASSUME NEW d \in Inbound
          PROVE  /\ Enqueued(rows[d]) \in OutboundRow
                 /\ rows[d].status # "ABSENT" => Enqueued(rows[d]) = rows[d]
                 /\ rows[d].status = "ABSENT" => Enqueued(rows[d]).status = "PENDING"
      <3>1. rows[d] \in OutboundRow
        BY <2>1
      <3> QED BY <3>1 DEF Enqueued, OutboundRow
    <2>4. outbound' \in [Inbound -> OutboundRow]
      BY <2>1, <2>2, <2>3
    <2>5. ASSUME NEW d \in Inbound
          PROVE  \/ d \notin Y /\ outbound'[d] = outbound[d]
                 \/ d \notin Y /\ outbound[d].status = "ABSENT" /\ outbound'[d].status = "PENDING"
                 \/ /\ d \in Y /\ outbound[d].status = "DELIVERING" /\ outbound[d].attempt = "DISPATCHED"
                    /\ outbound'[d].status = "UNCERTAIN" /\ outbound'[d].attempt = "UNCERTAIN"
                 \/ /\ d \in Y /\ outbound[d].status = "DELIVERING" /\ outbound[d].attempt = "CLAIMED"
                    /\ outbound'[d].status = "PENDING"
      <3>1. outbound'[d] \in {rows[d], Enqueued(rows[d])}
        BY <2>2
      <3> QED BY <2>1, <2>3, <3>1
    <2> QED BY <2>1, <2>4, <2>5
  <1>5. ConnTypeOK'
    BY <1>1, <1>2, <1>3, <1>4 DEF ConnTypeOK
  <1>6. WorkerOK'
    BY <1>1, <1>2, <1>3, <1>4 DEF WorkerOK, AtRest
  <1>7. HoldOK'
    BY <1>1, <1>2, <1>3, <1>4 DEF HoldOK, WorkerOK, AtRest
  <1>8. AloneOK'
    BY <1>1, <1>2, <1>3, <1>4 DEF AloneOK
  <1>9. RowOK'
    BY <1>1, <1>2, <1>3, <1>4 DEF RowOK
  <1>10. PostedAtMostOnce'
    BY <1>1, <1>2, <1>3, <1>4 DEF PostedAtMostOnce
  <1>11. DeliveryIsTruthful'
    BY <1>1, <1>2, <1>3, <1>4 DEF DeliveryIsTruthful, RowOK
  <1>12. DeadIsLettered'
    BY <1>1, <1>2, <1>3, <1>4 DEF DeadIsLettered
  <1>13. AdoptedHasRun'
    BY <1>1, <1>2, <1>3, <1>4 DEF AdoptedHasRun
  <1>14. SettledStep
    BY <1>1, <1>2, <1>3, <1>4 DEF SettledStep, Settled
  <1> QED BY <1>5, <1>6, <1>7, <1>8, <1>9, <1>10, <1>11, <1>12, <1>13, <1>14 DEF ConnInv

-----------------------------------------------------------------------------
LEMMA ConnStutterInv == ASSUME ConnInv, UNCHANGED connVars PROVE ConnInv' /\ SettledStep
  <1>1. /\ ConnTypeOK /\ WorkerOK /\ HoldOK /\ AloneOK /\ RowOK
        /\ PostedAtMostOnce /\ DeliveryIsTruthful /\ DeadIsLettered /\ AdoptedHasRun
    BY DEF ConnInv
  <1>2. UNCHANGED <<account, ingress, crun, outbound, letters, receipts, posted, at, projected,
                    connHost, connCrashes, disabled>>
    BY DEF connVars, connRow
  <1>3. ConnTypeOK'
    BY <1>1, <1>2 DEF ConnTypeOK
  <1>4. WorkerOK'
    BY <1>1, <1>2 DEF WorkerOK
  <1>5. HoldOK'
    BY <1>1, <1>2 DEF HoldOK
  <1>6. AloneOK'
    BY <1>1, <1>2 DEF AloneOK
  <1>7. RowOK'
    BY <1>1, <1>2 DEF RowOK
  <1>8. PostedAtMostOnce'
    BY <1>1, <1>2 DEF PostedAtMostOnce
  <1>9. DeliveryIsTruthful'
    BY <1>1, <1>2 DEF DeliveryIsTruthful
  <1>10. DeadIsLettered'
    BY <1>1, <1>2 DEF DeadIsLettered
  <1>11. AdoptedHasRun'
    BY <1>1, <1>2 DEF AdoptedHasRun
  <1>12. SettledStep
    BY <1>1, <1>2 DEF SettledStep
  <1> QED BY <1>3, <1>4, <1>5, <1>6, <1>7, <1>8, <1>9, <1>10, <1>11, <1>12 DEF ConnInv

\* Every step keeps the invariant and the rows that are settled.
LEMMA ConnStepInv == ASSUME ConnInv, [ConnNext]_connVars PROVE ConnInv' /\ SettledStep
  <1>1. CASE \E on \in BOOLEAN : RegisterAccount(on)
    BY <1>1, RegisterAccountInv
  <1>2. CASE \E e \in Inbound, p \in Shape : ReceiveIngress(e, p)
    BY <1>2, ReceiveIngressInv
  <1>3. CASE \E e \in Inbound : HookProjects(e) \/ \E o \in {"COMPLETED", "OTHER"} : ConnRunEnds(e, o)
    BY <1>3, HookProjectsInv, ConnRunEndsInv
  <1>4. CASE \E w \in Reader : ReaderStep(w)
    BY <1>4, ClaimIngressInv, AdoptIngressInv, IgnoreIngressInv, LoseIngressInv, FailIngressInv
       DEF ReaderStep
  <1>5. CASE \E w \in Sender : SenderStep(w)
    BY <1>5, ClaimDeliveryInv, RecoverDeliveriesInv, MarkDispatchedInv, FinishDeliveryInv, PostInv
       DEF SenderStep
  <1>6. CASE ConnCrash
    BY <1>6, ConnCrashInv
  <1>7. CASE \E X, Y \in SUBSET Inbound : ConnStartup(X, Y)
    BY <1>7, ConnStartupInv
  <1>8. CASE UNCHANGED connVars
    BY <1>8, ConnStutterInv
  <1> QED BY <1>1, <1>2, <1>3, <1>4, <1>5, <1>6, <1>7, <1>8 DEF ConnNext

LEMMA ConnInitInv == ASSUME ConnInit PROVE ConnInv
  <1>1. /\ \A e \in Inbound : /\ ingress[e].status = "ABSENT" /\ crun[e] = "NONE" /\ posted[e] = 0
                              /\ outbound[e].status = "ABSENT" /\ outbound[e].attempt = "NONE"
        /\ \A w \in Reader \cup Sender : at[w] = AtRest
        /\ letters = {} /\ receipts = {} /\ projected = {} /\ connHost = "up"
    BY DEF ConnInit
  <1>2. ConnTypeOK
    <2>1. 0 \in 0 .. MaxDeliveryAttempts /\ 0 \in 0 .. MaxConnCrashes /\ 0 \in 0 .. MaxDisabled
      BY ConnectorAssumption
    <2>2. ingress \in [Inbound -> IngressRow] /\ outbound \in [Inbound -> OutboundRow]
      BY <2>1 DEF ConnInit, IngressRow, OutboundRow, NoClaim, Disposition
    <2>3. at \in [Reader \cup Sender -> [pc : {"idle", "normalizing", "claimed", "posting"} \cup Answers,
                                         event : Inbound \cup {"NONE"}]]
      BY DEF ConnInit, AtRest
    <2>4. account \in BOOLEAN
      BY Zenon DEF ConnInit
    <2> QED BY <1>1, <2>1, <2>2, <2>3, <2>4 DEF ConnInit, ConnTypeOK
  <1>3. WorkerOK /\ HoldOK /\ AloneOK /\ RowOK
    BY <1>1 DEF WorkerOK, HoldOK, AloneOK, RowOK, AtRest
  <1>4. PostedAtMostOnce /\ DeliveryIsTruthful /\ DeadIsLettered /\ AdoptedHasRun
    BY <1>1 DEF PostedAtMostOnce, DeliveryIsTruthful, DeadIsLettered, AdoptedHasRun
  <1> QED BY <1>2, <1>3, <1>4 DEF ConnInv

LEMMA ConnInductive == ConnSpec => []ConnInv
  <1>1. ASSUME ConnInv, [ConnNext]_connVars PROVE ConnInv'
    BY <1>1, ConnStepInv
  <1> QED BY <1>1, ConnInitInv, PTL DEF ConnSpec

\* However drains overlap, leases expire under a post, answers come late and the Host
\* dies: a post is made at most once (claimDelivery and markDeliveryDispatched), the
\* rows are true about it (finishDeliveryAttempt), what is lost has its letter and an
\* adopted event its Run (adoptIngress).
THEOREM ConnectorsCorrect == ConnSpec => []ConnectorsAgree
  <1>1. ASSUME ConnInv PROVE ConnectorsAgree
    BY <1>1 DEF ConnInv, ConnectorsAgree
  <1> QED BY <1>1, ConnInductive, PTL

\* A row that is settled stays so: a worker that lost its claim, a projection, a
\* recovery and a restart leave it alone (#requireIngressClaim, finishDeliveryAttempt,
\* enqueueDelivery and the recovery of expired claims).
THEOREM ConnectorsSettled == ConnSpec => SettledIsFinal
  <1>1. ASSUME ConnInv, [ConnNext]_connVars
        PROVE  [\A e \in Inbound :
                  /\ ingress[e].status \in {"ADOPTED", "IGNORED", "DEAD"} => ingress'[e] = ingress[e]
                  /\ outbound[e].status \in Settled => outbound'[e] = outbound[e]]_connVars
    BY <1>1, ConnStepInv DEF SettledStep
  <1> QED BY <1>1, ConnInductive, PTL DEF ConnSpec, SettledIsFinal
-----------------------------------------------------------------------------
(* MattermostSocket: the connection and the events that come in over it.    *)

\* The phases of the start, the stop and the loop fit together.
RuntimePhases ==
    /\ aborted <=> stopper # "no"
    /\ starter = "started" => settled
    /\ starter \in {"idle", "getMe"} => loop = "none"
    /\ aborted => starter \in {"started", "failed"} /\ ~pump
    /\ loop = "socket" <=> wire # "none"
    /\ hears => loop = "socket" /\ ~aborted
    /\ wire # "none" => socketNo > 0

\* The chain holds posts in their order, all of them later than what the inbox
\* holds, each with the socket that brought it.
ChainInOrder ==
    /\ \A i, j \in DOMAIN chain : i < j => chain[i].post < chain[j].post
    /\ \A i \in DOMAIN chain : /\ chain[i].post <= postNo
                               /\ chain[i].socket <= socketNo
                               /\ wire = "connecting" => chain[i].socket < socketNo
    /\ \A i \in DOMAIN inbox : inbox[i] <= postNo
    /\ \A i \in DOMAIN inbox, j \in DOMAIN chain : inbox[i] < chain[j].post

\* An event is only given up on a socket that has been made, and never on one
\* that works or may still come to work.
LossIsBehind ==
    \A d \in dropped : d.socket <= socketNo /\ (wire \in {"connecting", "open"} => d.socket < socketNo)

SocketInv ==
    /\ SocketTypeOK /\ RuntimePhases /\ ChainInOrder /\ LossIsBehind
    /\ ConnectedHasSocket /\ StoppedIsQuiet /\ PersistedInOrder

\* The bounds, and what the rows of the chain and the inbox are made of.
LEMMA EventNumbers ==
    ASSUME SocketInv
    PROVE  /\ MaxPosts \in Nat /\ MaxSockets \in Nat /\ MaxPersistTries \in Nat \ {0}
           /\ \A i \in DOMAIN chain : /\ chain[i].post \in 1 .. MaxPosts /\ chain[i].socket \in 1 .. MaxSockets
                                      /\ chain[i].post \in Nat /\ chain[i].socket \in Nat
           /\ \A i \in DOMAIN inbox : inbox[i] \in Nat
           /\ \A d \in dropped : d.socket \in Nat
           /\ socketNo \in Nat /\ postNo \in Nat
<1>1. MaxPosts \in Nat /\ MaxSockets \in Nat /\ MaxPersistTries \in Nat \ {0}
  BY SocketAssumption DEF SocketAssumption
<1>2. chain \in Seq(Chained) /\ inbox \in Seq(1 .. MaxPosts) /\ dropped \subseteq Chained
  BY DEF SocketInv, SocketTypeOK
<1>3. socketNo \in Nat /\ postNo \in Nat
  BY <1>1 DEF SocketInv, SocketTypeOK
<1>4. \A e \in Chained : /\ e.post \in 1 .. MaxPosts /\ e.socket \in 1 .. MaxSockets
                         /\ e.post \in Nat /\ e.socket \in Nat
  BY <1>1 DEF Chained
<1>5. /\ \A i \in DOMAIN chain : chain[i] \in Chained
      /\ \A i \in DOMAIN inbox : inbox[i] \in 1 .. MaxPosts
  <2>1. chain \in [1 .. Len(chain) -> Chained]
    BY <1>2
  <2> DEFINE Posted == 1 .. MaxPosts
  <2>2. inbox \in Seq(Posted)
    BY <1>2
  <2> HIDE DEF Posted
  <2>3. \A i \in DOMAIN inbox : inbox[i] \in Posted
    BY <2>2
  <2> QED
    BY <2>1, <2>3 DEF Posted
<1>6. \A i \in DOMAIN inbox : inbox[i] \in Nat
  BY <1>1, <1>5
<1> QED
  BY <1>1, <1>2, <1>3, <1>4, <1>5, <1>6

\* The invariant without the path of the events, for steps that leave it alone.
LEMMA ControlSteps ==
    ASSUME SocketInv, UNCHANGED ingressPath,
           \/ StartRuntime \/ GotMe \/ StartRuntimeFails \/ Deactivate \/ ConnectOnce \/ NetworkRefused
           \/ OnOpen \/ OnClose \/ Reconnect \/ PumpTick \/ DrainEnds \/ CloseEnds
    PROVE  SocketTypeOK' /\ RuntimePhases' /\ ConnectedHasSocket' /\ StoppedIsQuiet'
<1> USE DEF connection, startup
<1>1. SocketTypeOK /\ RuntimePhases /\ ConnectedHasSocket /\ StoppedIsQuiet
  BY DEF SocketInv
<1>2. UNCHANGED <<chain, tries, inbox, dropped, postNo>>
  BY DEF ingressPath
<1>3. SocketTypeOK'
  <2>1. \/ UNCHANGED socketNo
        \/ socketNo < MaxSockets /\ socketNo' = socketNo + 1
    BY DEF StartRuntime, GotMe, StartRuntimeFails, Deactivate, CloseRuntime, ConnectOnce, NetworkRefused,
       OnOpen, OnClose, Reconnect, PumpTick, DrainEnds, CloseEnds
  <2>2. socketNo' \in 0 .. MaxSockets
    BY <1>1, <2>1, EventNumbers DEF SocketTypeOK
  <2>3. CASE StartRuntime \/ GotMe
    BY <1>1, <1>2, <2>2, <2>3 DEF SocketTypeOK, StartRuntime, GotMe
  <2>4. CASE StartRuntimeFails \/ Deactivate
    BY <1>1, <1>2, <2>2, <2>4 DEF SocketTypeOK, StartRuntimeFails, Deactivate, CloseRuntime, LoopAborted
  <2>5. CASE ConnectOnce
    BY <1>1, <1>2, <2>2, <2>5 DEF SocketTypeOK, ConnectOnce
  <2>6. CASE NetworkRefused \/ OnClose
    BY <1>1, <1>2, <2>2, <2>6 DEF SocketTypeOK, NetworkRefused, OnClose, LoopCatches
  <2>7. CASE OnOpen \/ Reconnect
    BY <1>1, <1>2, <2>2, <2>7 DEF SocketTypeOK, OnOpen, Reconnect
  <2>8. CASE PumpTick \/ DrainEnds \/ CloseEnds
    BY <1>1, <1>2, <2>2, <2>8 DEF SocketTypeOK, PumpTick, DrainEnds, CloseEnds
  <2> QED
    BY <2>3, <2>4, <2>5, <2>6, <2>7, <2>8
<1>4. RuntimePhases'
  <2>1. CASE StartRuntime
    BY <1>1, <1>2, <2>1, EventNumbers DEF RuntimePhases, SocketTypeOK, StartRuntime
  <2>2. CASE GotMe
    BY <1>1, <1>2, <2>2, EventNumbers DEF RuntimePhases, SocketTypeOK, GotMe
  <2>3. CASE StartRuntimeFails \/ Deactivate
    BY <1>1, <1>2, <2>3, EventNumbers DEF RuntimePhases, SocketTypeOK, StartRuntimeFails, Deactivate, CloseRuntime, LoopAborted
  <2>4. CASE ConnectOnce
    BY <1>1, <1>2, <2>4, EventNumbers DEF RuntimePhases, SocketTypeOK, ConnectOnce
  <2>5. CASE NetworkRefused
    BY <1>1, <1>2, <2>5, EventNumbers DEF RuntimePhases, SocketTypeOK, NetworkRefused, LoopCatches
  <2>6. CASE OnClose
    BY <1>1, <1>2, <2>6, EventNumbers DEF RuntimePhases, SocketTypeOK, OnClose, LoopCatches
  <2>7. CASE OnOpen
    BY <1>1, <1>2, <2>7, EventNumbers DEF RuntimePhases, SocketTypeOK, OnOpen
  <2>8. CASE Reconnect
    BY <1>1, <1>2, <2>8, EventNumbers DEF RuntimePhases, SocketTypeOK, Reconnect
  <2>9. CASE PumpTick \/ DrainEnds \/ CloseEnds
    BY <1>1, <1>2, <2>9, EventNumbers DEF RuntimePhases, SocketTypeOK, PumpTick, DrainEnds, CloseEnds
  <2> QED
    BY <2>1, <2>2, <2>3, <2>4, <2>5, <2>6, <2>7, <2>8, <2>9
<1>5. ConnectedHasSocket' /\ StoppedIsQuiet'
  <2>1. CASE StartRuntime
    BY <1>1, <1>2, <2>1 DEF RuntimePhases, ConnectedHasSocket, StoppedIsQuiet, StartRuntime
  <2>2. CASE GotMe
    BY <1>1, <1>2, <2>2 DEF RuntimePhases, ConnectedHasSocket, StoppedIsQuiet, GotMe
  <2>3. CASE StartRuntimeFails \/ Deactivate
    BY <1>1, <1>2, <2>3 DEF RuntimePhases, ConnectedHasSocket, StoppedIsQuiet, StartRuntimeFails, Deactivate, CloseRuntime, LoopAborted
  <2>4. CASE ConnectOnce
    BY <1>1, <1>2, <2>4 DEF RuntimePhases, ConnectedHasSocket, StoppedIsQuiet, ConnectOnce
  <2>5. CASE NetworkRefused
    BY <1>1, <1>2, <2>5 DEF RuntimePhases, ConnectedHasSocket, StoppedIsQuiet, NetworkRefused, LoopCatches
  <2>6. CASE OnClose
    BY <1>1, <1>2, <2>6 DEF RuntimePhases, ConnectedHasSocket, StoppedIsQuiet, OnClose, LoopCatches
  <2>7. CASE OnOpen
    BY <1>1, <1>2, <2>7 DEF RuntimePhases, ConnectedHasSocket, StoppedIsQuiet, OnOpen
  <2>8. CASE Reconnect
    BY <1>1, <1>2, <2>8 DEF RuntimePhases, ConnectedHasSocket, StoppedIsQuiet, Reconnect
  <2>9. CASE PumpTick
    BY <1>1, <1>2, <2>9 DEF RuntimePhases, ConnectedHasSocket, StoppedIsQuiet, PumpTick
  <2>10. CASE DrainEnds
    BY <1>1, <1>2, <2>10 DEF RuntimePhases, ConnectedHasSocket, StoppedIsQuiet, DrainEnds
  <2>11. CASE CloseEnds
    BY <1>1, <1>2, <2>11 DEF RuntimePhases, ConnectedHasSocket, StoppedIsQuiet, CloseEnds, AllSettled
  <2> QED
    BY <2>1, <2>2, <2>3, <2>4, <2>5, <2>6, <2>7, <2>8, <2>9, <2>10, <2>11
<1> QED
  BY <1>3, <1>4, <1>5

\* Steps of the connection leave the events in their order.
LEMMA ControlKeepsEvents ==
    ASSUME SocketInv, UNCHANGED ingressPath,
           \/ StartRuntime \/ GotMe \/ StartRuntimeFails \/ Deactivate \/ ConnectOnce \/ NetworkRefused
           \/ OnOpen \/ OnClose \/ Reconnect \/ PumpTick \/ DrainEnds \/ CloseEnds
    PROVE  ChainInOrder' /\ LossIsBehind' /\ PersistedInOrder'
<1>1. ChainInOrder /\ LossIsBehind /\ PersistedInOrder /\ SocketTypeOK
  BY DEF SocketInv
<1>2. chain' = chain /\ inbox' = inbox /\ dropped' = dropped /\ postNo' = postNo
  BY DEF ingressPath
<1>3. /\ socketNo \in Nat
      /\ \A i \in DOMAIN chain : chain[i].socket \in Nat
      /\ \A d \in dropped : d.socket \in Nat
  BY EventNumbers
<1>4. \/ socketNo' = socketNo /\ (wire' = wire \/ wire' = "none" \/ (wire = "connecting" /\ wire' = "open"))
      \/ socketNo' = socketNo + 1
  BY DEF StartRuntime, GotMe, StartRuntimeFails, Deactivate, CloseRuntime, LoopAborted, ConnectOnce, NetworkRefused,
     OnOpen, OnClose, Reconnect, PumpTick, DrainEnds, CloseEnds, connection
<1>5. ChainInOrder'
  BY <1>1, <1>2, <1>3, <1>4 DEF ChainInOrder
<1>6. LossIsBehind'
  BY <1>1, <1>2, <1>3, <1>4 DEF LossIsBehind
<1> QED
  BY <1>1, <1>2, <1>5, <1>6 DEF PersistedInOrder

\* What a step of the chain leaves alone.
LEMMA EventSteps ==
    ASSUME SocketInv, OnMessage \/ PersistIngress \/ PersistFails \/ SkipIngress
    PROVE  /\ UNCHANGED <<starter, settled, stopper, aborted, mmStatus, loop, hears, socketNo, pump>>
           /\ wire' = wire \/ (wire = "open" /\ wire' = "closing")
           /\ stopper = "closed" => UNCHANGED <<chain, wire, draining>>
           /\ draining' \in BOOLEAN
<1>1. SocketTypeOK /\ StoppedIsQuiet /\ RuntimePhases
  BY DEF SocketInv
<1>2. CASE OnMessage
  BY <1>1, <1>2 DEF OnMessage, startup, connection, SocketTypeOK, RuntimePhases
<1>3. CASE PersistIngress
  BY <1>1, <1>3 DEF PersistIngress, startup, connection, SocketTypeOK, StoppedIsQuiet
<1>4. CASE PersistFails
  BY <1>1, <1>4 DEF PersistFails, GiveUp, startup, SocketTypeOK, StoppedIsQuiet
<1>5. CASE SkipIngress
  BY <1>1, <1>5 DEF SkipIngress, startup, connection, SocketTypeOK, StoppedIsQuiet
<1> QED
  BY <1>2, <1>3, <1>4, <1>5

\* The phases survive a step of the chain, which closes the wire at most.
LEMMA EventsKeepControl ==
    ASSUME SocketInv, OnMessage \/ PersistIngress \/ PersistFails \/ SkipIngress
    PROVE  RuntimePhases' /\ ConnectedHasSocket' /\ StoppedIsQuiet'
<1>1. RuntimePhases /\ ConnectedHasSocket /\ StoppedIsQuiet
  BY DEF SocketInv
<1> QED
  BY <1>1, EventSteps DEF RuntimePhases, ConnectedHasSocket, StoppedIsQuiet

\* What the type invariant says of the path of the events.
EventTypes ==
    /\ chain \in Seq(Chained) /\ tries \in 0 .. MaxPersistTries - 1
    /\ inbox \in Seq(1 .. MaxPosts) /\ dropped \subseteq Chained /\ postNo \in 0 .. MaxPosts

\* The types of a step of the chain follow from those of the path of the events.
LEMMA EventsKeepTypes ==
    ASSUME SocketInv, OnMessage \/ PersistIngress \/ PersistFails \/ SkipIngress, EventTypes'
    PROVE  SocketTypeOK'
  BY EventSteps DEF EventTypes, SocketInv, SocketTypeOK

\* The tail of a chain in order is in order.
LEMMA TailInOrder ==
    ASSUME SocketInv, chain # <<>>, chain' = Tail(chain), UNCHANGED <<inbox, postNo, socketNo>>,
           wire' = wire \/ wire' # "connecting"
    PROVE  chain' \in Seq(Chained) /\ ChainInOrder'
<1>1. ChainInOrder /\ chain \in Seq(Chained)
  BY DEF SocketInv, SocketTypeOK
<1>2. chain' \in Seq(Chained)
  BY <1>1
<1>3. DOMAIN chain' = 1 .. Len(chain) - 1 /\ \A i \in 1 .. Len(chain) - 1 : chain'[i] = chain[i + 1]
  BY <1>1
<1>4. \A i \in DOMAIN chain' : i + 1 \in DOMAIN chain /\ i \in Nat
  BY <1>1, <1>3
<1>5. ChainInOrder'
  BY <1>1, <1>3, <1>4 DEF ChainInOrder
<1> QED
  BY <1>2, <1>5

\* A post that the server sends is the last of the chain, by the present socket.
LEMMA MessageKeeps ==
    ASSUME SocketInv, OnMessage
    PROVE  SocketInv'
<1>1. ChainInOrder /\ LossIsBehind /\ PersistedInOrder /\ RuntimePhases /\ SocketTypeOK
  BY DEF SocketInv
<1>2. /\ postNo < MaxPosts /\ postNo' = postNo + 1
      /\ inbox' = inbox /\ dropped' = dropped /\ wire' = wire /\ socketNo' = socketNo /\ tries' = tries
  BY DEF OnMessage, connection
<1>3. /\ postNo \in Nat /\ MaxPosts \in Nat /\ MaxSockets \in Nat /\ socketNo \in 0 .. MaxSockets
      /\ chain \in Seq(Chained) /\ inbox \in Seq(1 .. MaxPosts)
  BY <1>1, SocketAssumption DEF SocketAssumption, SocketTypeOK
<1>4. CASE chain' = chain
  <2>1. EventTypes'
    BY <1>1, <1>2, <1>3, <1>4 DEF EventTypes, SocketTypeOK
  <2>2. \A i \in DOMAIN chain : chain[i].post \in Nat
    BY EventNumbers
  <2>3. \A i \in DOMAIN inbox : inbox[i] \in Nat
    BY EventNumbers
  <2>4. ChainInOrder'
    BY <1>1, <1>2, <1>3, <1>4, <2>2, <2>3 DEF ChainInOrder
  <2> QED
    BY <1>1, <1>2, <2>1, <2>4, EventsKeepTypes, EventsKeepControl DEF SocketInv, LossIsBehind, PersistedInOrder
<1>5. CASE chain' # chain
  <2> DEFINE e == [post |-> postNo + 1, socket |-> socketNo]
  <2>1. wire = "open" /\ chain' = Append(chain, e)
    BY <1>5 DEF OnMessage
  <2>2. e \in Chained /\ e.post = postNo + 1 /\ e.socket = socketNo
    BY <1>1, <1>2, <1>3, <2>1 DEF Chained, RuntimePhases
  <2> HIDE DEF e
  <2>3. /\ DOMAIN chain' = 1 .. Len(chain) + 1 /\ chain'[Len(chain) + 1] = e
        /\ \A i \in DOMAIN chain : chain'[i] = chain[i]
    BY <1>3, <2>1, <2>2
  <2>4. DOMAIN chain = 1 .. Len(chain) /\ Len(chain) \in Nat
    BY <1>3
  <2>5. chain' \in Seq(Chained)
    BY <1>3, <2>1, <2>2
  <2>6. EventTypes'
    BY <1>1, <1>2, <1>3, <2>5 DEF EventTypes, SocketTypeOK
  <2>7. /\ \A i \in DOMAIN chain : chain[i].post \in Nat /\ chain[i].socket \in Nat
        /\ \A i \in DOMAIN inbox : inbox[i] \in Nat
    BY EventNumbers
  <2>8. \A i \in DOMAIN chain' : i \in DOMAIN chain \/ i = Len(chain) + 1
    BY <2>3, <2>4
  <2>9. ChainInOrder'
    <3>1. ASSUME NEW i \in DOMAIN chain', NEW j \in DOMAIN chain', i < j PROVE chain'[i].post < chain'[j].post
      <4>1. i \in DOMAIN chain
        BY <2>3, <2>4, <3>1
      <4>2. CASE j \in DOMAIN chain
        BY <1>1, <2>3, <3>1, <4>1, <4>2 DEF ChainInOrder
      <4>3. CASE j = Len(chain) + 1
        <5>1. chain'[i].post <= postNo /\ chain'[i].post \in Nat
          BY <1>1, <2>3, <2>7, <4>1 DEF ChainInOrder
        <5>2. chain'[j].post = postNo + 1
          BY <2>2, <2>3, <4>3
        <5> QED
          BY <1>3, <5>1, <5>2
      <4> QED
        BY <2>8, <3>1, <4>2, <4>3
    <3>2. \A i \in DOMAIN chain' : chain'[i].post <= postNo' /\ chain'[i].socket <= socketNo'
      <4> SUFFICES ASSUME NEW i \in DOMAIN chain' PROVE chain'[i].post <= postNo' /\ chain'[i].socket <= socketNo'
        OBVIOUS
      <4>1. CASE i \in DOMAIN chain
        <5>1. chain'[i] = chain[i] /\ chain[i].post <= postNo /\ chain[i].socket <= socketNo
          BY <1>1, <2>3, <4>1 DEF ChainInOrder
        <5> QED
          BY <1>2, <1>3, <2>7, <4>1, <5>1
      <4>2. CASE i = Len(chain) + 1
        BY <1>2, <1>3, <2>2, <2>3, <4>2
      <4> QED
        BY <2>8, <4>1, <4>2
    <3>3. \A i \in DOMAIN inbox : inbox[i] \in Nat /\ inbox[i] <= postNo /\ inbox[i] <= postNo'
      BY <1>1, <1>2, <1>3, <2>7 DEF ChainInOrder
    <3>4. ASSUME NEW i \in DOMAIN inbox, NEW j \in DOMAIN chain' PROVE inbox[i] < chain'[j].post
      <4>1. CASE j \in DOMAIN chain
        BY <1>1, <2>3, <4>1 DEF ChainInOrder
      <4>2. CASE j = Len(chain) + 1
        <5>1. chain'[j].post = postNo + 1
          BY <2>2, <2>3, <4>2
        <5> QED
          BY <1>3, <3>3, <5>1
      <4> QED
        BY <2>8, <4>1, <4>2
    <3> QED
      BY <1>2, <2>1, <3>1, <3>2, <3>3, <3>4 DEF ChainInOrder
  <2> QED
    BY <1>1, <1>2, <2>6, <2>9, EventsKeepTypes, EventsKeepControl DEF SocketInv, LossIsBehind, PersistedInOrder
<1> QED
  BY <1>4, <1>5

\* The head of the chain is later than the inbox and goes to its end.
LEMMA PersistKeeps ==
    ASSUME SocketInv, PersistIngress
    PROVE  SocketInv'
<1>1. ChainInOrder /\ LossIsBehind /\ PersistedInOrder /\ SocketTypeOK
  BY DEF SocketInv
<1>2. /\ chain \in Seq(Chained) /\ chain # <<>> /\ inbox \in Seq(1 .. MaxPosts)
      /\ UNCHANGED <<wire, socketNo, postNo, dropped>>
      /\ tries' = 0 /\ MaxPersistTries \in Nat \ {0} /\ MaxPosts \in Nat
  BY <1>1, SocketAssumption DEF SocketAssumption, PersistIngress, connection, SocketTypeOK
<1>3. PICK k \in NextInChain \cap DOMAIN chain :
         /\ inbox' = Append(inbox, chain[k].post)
         /\ chain' = [i \in 1 .. Len(chain) - 1 |-> IF i < k THEN chain[i] ELSE chain[i + 1]]
  BY DEF PersistIngress
<1>4. k = 1
  BY <1>3 DEF NextInChain
<1>5. Len(chain) \in Nat /\ Len(chain) >= 1 /\ DOMAIN chain = 1 .. Len(chain) /\ 1 \in DOMAIN chain
  BY <1>2
<1>6. \A i \in 1 .. Len(chain) - 1 : chain'[i] = chain[i + 1] /\ i + 1 \in DOMAIN chain /\ i \in Nat
  BY <1>3, <1>4, <1>5
<1>7. DOMAIN chain' = 1 .. Len(chain) - 1
  BY <1>3
<1>8. chain' \in Seq(Chained)
  <2>1. \A i \in 1 .. Len(chain) - 1 : chain'[i] \in Chained
    BY <1>2, <1>5, <1>6
  <2>2. chain' \in [1 .. Len(chain) - 1 -> Chained]
    BY <1>3, <2>1, <1>7
  <2>3. Len(chain) - 1 \in Nat
    BY <1>5
  <2> QED
    BY <2>2, <2>3
<1>9. chain[1].post \in 1 .. MaxPosts
  BY <1>5, EventNumbers
<1>10. inbox' \in Seq(1 .. MaxPosts)
  BY <1>2, <1>3, <1>4, <1>9
<1>11. EventTypes'
  BY <1>1, <1>2, <1>8, <1>10 DEF EventTypes, SocketTypeOK
<1>12. /\ DOMAIN inbox' = 1 .. Len(inbox) + 1 /\ inbox'[Len(inbox) + 1] = chain[1].post
       /\ \A i \in DOMAIN inbox : inbox'[i] = inbox[i]
       /\ DOMAIN inbox = 1 .. Len(inbox) /\ Len(inbox) \in Nat
  BY <1>2, <1>3, <1>4, <1>9
<1>13. \A i \in DOMAIN inbox' : i \in DOMAIN inbox \/ i = Len(inbox) + 1
  BY <1>12
<1>14. /\ \A i \in DOMAIN chain : chain[i].post \in Nat
       /\ \A i \in DOMAIN inbox : inbox[i] \in Nat
  BY EventNumbers
<1>15. PersistedInOrder'
  BY <1>1, <1>5, <1>12, <1>13, <1>14 DEF PersistedInOrder, ChainInOrder
<1>16. ChainInOrder'
  <2>1. \A i, j \in DOMAIN chain' : i < j => chain'[i].post < chain'[j].post
    BY <1>1, <1>6, <1>7 DEF ChainInOrder
  <2>2. \A i \in DOMAIN chain' : /\ chain'[i].post <= postNo'
                                 /\ chain'[i].socket <= socketNo'
                                 /\ wire' = "connecting" => chain'[i].socket < socketNo'
    BY <1>1, <1>2, <1>6, <1>7 DEF ChainInOrder
  <2>3. \A i \in DOMAIN inbox' : inbox'[i] <= postNo'
    BY <1>1, <1>2, <1>5, <1>12, <1>13 DEF ChainInOrder
  <2>4. ASSUME NEW i \in DOMAIN inbox', NEW j \in DOMAIN chain' PROVE inbox'[i] < chain'[j].post
    <3>1. chain'[j].post = chain[j + 1].post /\ j + 1 \in DOMAIN chain /\ 1 < j + 1
      BY <1>6, <1>7
    <3>2. chain[1].post < chain[j + 1].post
      BY <1>1, <1>5, <3>1 DEF ChainInOrder
    <3> QED
      BY <1>1, <1>5, <1>12, <1>13, <3>1, <3>2 DEF ChainInOrder
  <2> QED
    BY <2>1, <2>2, <2>3, <2>4 DEF ChainInOrder
<1> QED
  BY <1>1, <1>2, <1>11, <1>15, <1>16, EventsKeepTypes, EventsKeepControl DEF SocketInv, LossIsBehind

\* A failed attempt is counted; the last one gives the event up and closes the
\* socket it came over.
LEMMA FailureKeeps ==
    ASSUME SocketInv, PersistFails
    PROVE  SocketInv'
<1>1. ChainInOrder /\ LossIsBehind /\ PersistedInOrder /\ SocketTypeOK
  BY DEF SocketInv
<1>2. /\ chain \in Seq(Chained) /\ chain # <<>> /\ UNCHANGED <<socketNo, inbox, postNo>>
      /\ wire' = wire \/ (wire = "open" /\ wire' = "closing")
      /\ MaxPersistTries \in Nat \ {0} /\ tries \in 0 .. MaxPersistTries - 1
  BY <1>1, SocketAssumption DEF SocketAssumption, PersistFails, GiveUp, SocketTypeOK
<1>3. Head(chain) = chain[1] /\ 1 \in DOMAIN chain /\ chain[1] \in Chained
  BY <1>2
<1>4. CASE UNCHANGED <<chain, wire, dropped>>
  <2>1. EventTypes'
    BY <1>1, <1>2, <1>4 DEF EventTypes, PersistFails, SocketTypeOK
  <2>2. ChainInOrder' /\ LossIsBehind' /\ PersistedInOrder'
    BY <1>1, <1>2, <1>4 DEF ChainInOrder, LossIsBehind, PersistedInOrder
  <2> QED
    BY <2>1, <2>2, EventsKeepTypes, EventsKeepControl DEF SocketInv
<1>5. CASE GiveUp /\ chain' = Tail(chain) /\ tries' = 0
  <2>1. chain' \in Seq(Chained) /\ ChainInOrder'
    BY <1>2, <1>5, TailInOrder
  <2>2. EventTypes'
    BY <1>1, <1>2, <1>3, <1>5, <2>1 DEF GiveUp, EventTypes, SocketTypeOK
  <2>3. /\ chain[1].socket <= socketNo
        /\ wire = "connecting" => chain[1].socket < socketNo
        /\ chain[1].socket \in Nat /\ socketNo \in Nat
    BY <1>1, <1>3, SocketAssumption DEF SocketAssumption, ChainInOrder, Chained, SocketTypeOK
  <2>4. LossIsBehind'
    BY <1>1, <1>2, <1>3, <1>5, <2>3 DEF GiveUp, LossIsBehind
  <2> QED
    BY <1>1, <1>2, <2>1, <2>2, <2>4, EventsKeepTypes, EventsKeepControl DEF SocketInv, PersistedInOrder
<1> QED
  BY <1>4, <1>5 DEF PersistFails

\* A skipped event leaves the rest of the chain.
LEMMA SkipKeeps ==
    ASSUME SocketInv, SkipIngress
    PROVE  SocketInv'
<1>1. LossIsBehind /\ PersistedInOrder /\ SocketTypeOK
  BY DEF SocketInv
<1>2. /\ chain # <<>> /\ chain' = Tail(chain) /\ tries' = 0
      /\ UNCHANGED <<wire, socketNo, inbox, dropped, postNo>>
      /\ MaxPersistTries \in Nat \ {0}
  BY SocketAssumption DEF SocketAssumption, SkipIngress, connection
<1>3. chain' \in Seq(Chained) /\ ChainInOrder'
  BY <1>2, TailInOrder
<1>4. EventTypes'
  BY <1>1, <1>2, <1>3 DEF EventTypes, SocketTypeOK
<1> QED
  BY <1>1, <1>2, <1>3, <1>4, EventsKeepTypes, EventsKeepControl DEF SocketInv, LossIsBehind, PersistedInOrder

\* The inductive invariant of the Mattermost runtime.
THEOREM SocketInductive == SocketSpec => []SocketInv
<1>1. SocketInit => SocketInv
  <2> SUFFICES ASSUME SocketInit PROVE SocketInv
    OBVIOUS
  <2>1. chain = <<>> /\ inbox = <<>> /\ DOMAIN chain = {} /\ DOMAIN inbox = {} /\ dropped = {}
    BY DEF SocketInit
  <2>2. SocketTypeOK
    <3>1. MaxPosts \in Nat /\ MaxSockets \in Nat /\ MaxPersistTries \in Nat \ {0}
      BY SocketAssumption DEF SocketAssumption
    <3>2. chain \in Seq(Chained) /\ inbox \in Seq(1 .. MaxPosts) /\ dropped \subseteq Chained
      BY <2>1
    <3>3. tries \in 0 .. MaxPersistTries - 1 /\ socketNo \in 0 .. MaxSockets /\ postNo \in 0 .. MaxPosts
      BY <3>1 DEF SocketInit
    <3> QED
      BY <3>2, <3>3 DEF SocketInit, SocketTypeOK
  <2>3. RuntimePhases /\ ConnectedHasSocket /\ StoppedIsQuiet
    BY DEF SocketInit, RuntimePhases, ConnectedHasSocket, StoppedIsQuiet
  <2> QED
    BY <2>1, <2>2, <2>3 DEF SocketInv, ChainInOrder, LossIsBehind, PersistedInOrder
<1>2. SocketInv /\ [SocketNext]_socketVars => SocketInv'
  <2> SUFFICES ASSUME SocketInv, [SocketNext]_socketVars PROVE SocketInv'
    OBVIOUS
  <2>1. CASE UNCHANGED socketVars
    BY <2>1 DEF socketVars, startup, connection, ingressPath, SocketInv, SocketTypeOK, RuntimePhases, ChainInOrder,
       LossIsBehind, ConnectedHasSocket, StoppedIsQuiet, PersistedInOrder
  <2>2. CASE \/ StartRuntime \/ GotMe \/ StartRuntimeFails \/ Deactivate \/ ConnectOnce \/ NetworkRefused
             \/ OnOpen \/ OnClose \/ Reconnect \/ PumpTick \/ DrainEnds \/ CloseEnds
    <3>1. UNCHANGED ingressPath
      BY <2>2 DEF StartRuntime, GotMe, StartRuntimeFails, Deactivate, ConnectOnce, NetworkRefused, OnOpen, OnClose,
         Reconnect, PumpTick, DrainEnds, CloseEnds
    <3> QED
      BY <2>2, <3>1, ControlSteps, ControlKeepsEvents DEF SocketInv
  <2> QED
    BY <2>1, <2>2, MessageKeeps, PersistKeeps, FailureKeeps, SkipKeeps DEF SocketNext
<1> QED
  BY <1>1, <1>2, PTL DEF SocketSpec

\* For any number of posts, sockets and attempts: a runtime that says it is
\* connected has a socket, a closed one leaves nothing behind, events are
\* persisted in the order of the server, and a lost one costs its socket
\* (MattermostRuntime).
THEOREM SocketCorrect == SocketSpec => []SocketAgrees
<1>1. SocketInv => SocketAgrees
  <2> SUFFICES ASSUME SocketInv PROVE SocketAgrees
    OBVIOUS
  <2>1. LossForcesReconnect
    BY EventNumbers DEF SocketInv, LossIsBehind, LossForcesReconnect
  <2> QED
    BY <2>1 DEF SocketInv, SocketAgrees
<1> QED
  BY <1>1, SocketInductive, PTL
-----------------------------------------------------------------------------
(* ProtocolCalls: the link of a client and its calls.                       *)

CallFrame == [id : Nat, key : IdempotencyKey, request : Request, on : Nat]
OpenFrame == [type : {"open"}]
ControlFrame == [type : {"accepted", "rejected", "close"}]
ResultFrame == [type : {"result"}, id : Nat, ok : BOOLEAN, of : Nat]
UpFrame == CallFrame \cup OpenFrame
DownFrame == ControlFrame \cup ResultFrame
LinkRecord == [peer : {"none", "raw", "peer"}, up : Seq(UpFrame), down : Seq(DownFrame)]
ClientRecord == [state : {"idle", "opening", "accepted", "closed", "left", "failed"}, connection : Nat]
CallRecord == [key : IdempotencyKey, request : Request, value : Nat,
               status : {"pending", "ok", "error", "timeout", "closed"}]
Invocation == [connection : Nat, key : IdempotencyKey, request : Request, effect : BOOLEAN]
CacheEntry == [key : IdempotencyKey, request : Request, ok : BOOLEAN, of : Nat]

CallsTyped ==
    /\ link \in LinkRecord /\ client \in ClientRecord /\ client.connection <= MaxConnections
    /\ call \in Seq(CallRecord) /\ handling \in SUBSET CallFrame
    /\ invoked \in Seq(Invocation) /\ cache \in Seq(CacheEntry) /\ Len(cache) <= MaxEntries

\* The close event is on the way.
Closing == link.down # <<>> /\ link.down[Len(link.down)] = Control("close")

\* The two ends of the link.
LinkPhases ==
    /\ client.state \notin {"opening", "accepted"} => link = NoLink
    /\ link.peer = "raw" => client.state = "opening" /\ link.up = <<Control("open")>> /\ link.down = <<>>
    /\ link.peer = "none" => link.up = <<>>
    /\ client.state = "accepted" => link.peer = "peer" \/ (link.peer = "none" /\ Closing)
    /\ client.state = "opening" /\ link.peer = "none" => link = NoLink \/ Closing
    /\ (\E i \in 1 .. Len(link.down) : link.down[i].type = "rejected") =>
           client.state = "opening" /\ link.peer = "none" /\ link.down = <<Control("rejected"), Control("close")>>

\* A frame is of a call that was made.
IsOf(f) == f.id \in 1 .. Len(call) /\ call[f.id].key = f.key /\ call[f.id].request = f.request

\* An operation took effect for a key and its request.
DoneFor(n, key, request) ==
    n \in 1 .. Len(invoked) /\ invoked[n].effect /\ invoked[n].key = key /\ invoked[n].request = request

\* The frames on their way to the Host, those it handles, one of a connection,
\* and those on their way back.
UpFits ==
    link.peer = "peer" =>
        \A i \in 1 .. Len(link.up) : link.up[i] \in CallFrame /\ IsOf(link.up[i]) /\ link.up[i].on = client.connection
HandlingFits ==
    /\ \A f \in handling : IsOf(f) /\ f.on <= client.connection
    /\ \A f, g \in handling : f.on = g.on => f = g
DownFits ==
    \A i \in 1 .. Len(link.down) : link.down[i].type = "result" =>
        /\ link.down[i] \in ResultFrame
        /\ link.down[i].id \in 1 .. Len(call)
        /\ link.down[i].ok => DoneFor(link.down[i].of, call[link.down[i].id].key, call[link.down[i].id].request)

\* The cache holds the last results of the connection, each of its own key.
CacheFits ==
    /\ \A m \in 1 .. Len(cache) :
          /\ cache[m].of \in 1 .. Len(invoked) /\ invoked[cache[m].of].key = cache[m].key
          /\ cache[m].ok => DoneFor(cache[m].of, cache[m].key, cache[m].request)
    /\ \A m, n \in 1 .. Len(cache) : m < n => cache[m].of < cache[n].of /\ cache[m].key # cache[n].key
    /\ \A i \in 1 .. Len(invoked) :
          invoked[i].connection = client.connection =>
              (\E m \in 1 .. Len(cache) : cache[m].of = i) \/ (Len(cache) = MaxEntries /\ i < cache[1].of)

\* A call that is handled is of a key that the cache does not hold, and that its
\* connection has not invoked for so many others.
KeysAfter(i) == {invoked[m].key : m \in i + 1 .. Len(invoked)}
HandledIsNew ==
    /\ \A f \in handling : f.on = client.connection => \A m \in 1 .. Len(cache) : cache[m].key # f.key
    /\ \A f \in handling : \A i \in 1 .. Len(invoked) :
          invoked[i].connection = f.on /\ invoked[i].key = f.key => Cardinality(KeysAfter(i)) >= MaxEntries

\* A new connection has done nothing yet.
ConnectionsFit ==
    /\ \A i \in 1 .. Len(invoked) : invoked[i].connection <= client.connection
    /\ client.state = "opening" /\ (link = NoLink \/ link.peer = "raw") =>
           /\ \A i \in 1 .. Len(invoked) : invoked[i].connection < client.connection
           /\ \A f \in handling : f.on < client.connection

\* A call that succeeded has the result of its own operation.
OwnAnswers ==
    \A c \in 1 .. Len(call) : call[c].status = "ok" => DoneFor(call[c].value, call[c].key, call[c].request)

\* Where a call that is pending stands.
StandsUp(c) == \E i \in 1 .. Len(link.up) : link.up[i].id = c
StandsHandled(c) == \E f \in handling : f.id = c /\ f.on = client.connection
StandsDown(c) == \E i \in 1 .. Len(link.down) : link.down[i].type = "result" /\ link.down[i].id = c
PendingFits ==
    \A c \in 1 .. Len(call) : call[c].status = "pending" /\ client.state # "left" =>
        /\ client.state = "accepted"
        /\ link.peer = "none" \/ StandsUp(c) \/ StandsHandled(c) \/ StandsDown(c)

CallsInv ==
    /\ CallsTyped /\ InvokedOnce /\ LinkPhases /\ UpFits /\ HandlingFits /\ DownFits /\ CacheFits
    /\ HandledIsNew /\ ConnectionsFit /\ OwnAnswers /\ PendingFits

\* The constants that the proofs need.
LEMMA CallsConstants == MaxEntries \in Nat \ {0} /\ MaxClientCalls \in Nat /\ MaxConnections \in Nat /\ MaxOutbound \in Nat
BY CallsAssumption

\* The fields of the variables.
LEMMA CallsFields ==
    ASSUME CallsTyped
    PROVE  /\ link.peer \in {"none", "raw", "peer"} /\ link.up \in Seq(UpFrame) /\ link.down \in Seq(DownFrame)
           /\ link = [peer |-> link.peer, up |-> link.up, down |-> link.down]
           /\ client.state \in {"idle", "opening", "accepted", "closed", "left", "failed"}
           /\ client.connection \in Nat /\ client.connection <= MaxConnections
           /\ client = [state |-> client.state, connection |-> client.connection]
           /\ call \in Seq(CallRecord) /\ invoked \in Seq(Invocation) /\ cache \in Seq(CacheEntry)
           /\ Len(call) \in Nat /\ Len(invoked) \in Nat /\ Len(cache) \in Nat /\ Len(cache) <= MaxEntries
           /\ Len(link.up) \in Nat /\ Len(link.down) \in Nat
<1>1. /\ link.peer \in {"none", "raw", "peer"} /\ link.up \in Seq(UpFrame) /\ link.down \in Seq(DownFrame)
      /\ link = [peer |-> link.peer, up |-> link.up, down |-> link.down]
    BY DEF CallsTyped, LinkRecord
<1>2. /\ client.state \in {"idle", "opening", "accepted", "closed", "left", "failed"} /\ client.connection \in Nat
      /\ client = [state |-> client.state, connection |-> client.connection]
    BY DEF CallsTyped, ClientRecord
<1>3. /\ call \in Seq(CallRecord) /\ invoked \in Seq(Invocation) /\ cache \in Seq(CacheEntry)
      /\ Len(cache) <= MaxEntries /\ client.connection <= MaxConnections
    BY DEF CallsTyped
<1> QED BY <1>1, <1>2, <1>3

\* The fields of a call, of an invocation and of an entry of the cache.
LEMMA CallFields ==
    ASSUME CallsTyped, NEW c \in 1 .. Len(call)
    PROVE  /\ call[c] \in CallRecord /\ call[c].key \in IdempotencyKey /\ call[c].request \in Request
           /\ call[c].value \in Nat /\ call[c].status \in {"pending", "ok", "error", "timeout", "closed"}
<1>1. call[c] \in CallRecord BY CallsFields
<1> QED BY <1>1 DEF CallRecord

LEMMA InvocationFields ==
    ASSUME CallsTyped, NEW i \in 1 .. Len(invoked)
    PROVE  /\ invoked[i].connection \in Nat /\ invoked[i].key \in IdempotencyKey
           /\ invoked[i].request \in Request /\ invoked[i].effect \in BOOLEAN
<1>1. invoked[i] \in Invocation BY CallsFields
<1> QED BY <1>1 DEF Invocation

LEMMA CacheFields ==
    ASSUME CallsTyped, NEW m \in 1 .. Len(cache)
    PROVE  /\ cache[m] \in CacheEntry /\ cache[m].key \in IdempotencyKey /\ cache[m].request \in Request
           /\ cache[m].ok \in BOOLEAN /\ cache[m].of \in Nat
<1>1. cache[m] \in CacheEntry BY CallsFields
<1> QED BY <1>1 DEF CacheEntry

\* The fields of a frame.
LEMMA FrameFields ==
    ASSUME NEW f \in CallFrame
    PROVE  f.id \in Nat /\ f.key \in IdempotencyKey /\ f.request \in Request /\ f.on \in Nat
BY DEF CallFrame

\* What is left when the head of a sequence is taken.
LEMMA TailElements ==
    ASSUME NEW S, NEW s \in Seq(S), s # <<>>
    PROVE  /\ Tail(s) \in Seq(S) /\ Head(s) \in S /\ Head(s) = s[1] /\ Len(s) \in Nat \ {0}
           /\ Len(Tail(s)) = Len(s) - 1
           /\ \A i \in 1 .. Len(Tail(s)) : i + 1 \in 1 .. Len(s) /\ Tail(s)[i] = s[i + 1]
           /\ \A i \in 1 .. Len(s) : i # 1 => i - 1 \in 1 .. Len(Tail(s)) /\ Tail(s)[i - 1] = s[i]
OBVIOUS

\* What a sequence holds when an element is added.
LEMMA AppendElements ==
    ASSUME NEW S, NEW s \in Seq(S), NEW e \in S
    PROVE  /\ Append(s, e) \in Seq(S) /\ Len(s) \in Nat /\ Len(Append(s, e)) = Len(s) + 1
           /\ Append(s, e)[Len(s) + 1] = e /\ Append(s, e) # <<>>
           /\ \A i \in 1 .. Len(s) : i \in 1 .. Len(Append(s, e)) /\ Append(s, e)[i] = s[i]
           /\ \A i \in 1 .. Len(Append(s, e)) : i = Len(s) + 1 \/ i \in 1 .. Len(s)
<1>1. Append(s, e) \in Seq(S) /\ Len(s) \in Nat /\ Len(Append(s, e)) = Len(s) + 1 OBVIOUS
<1>2. Append(s, e)[Len(s) + 1] = e OBVIOUS
<1>3. \A i \in 1 .. Len(s) : Append(s, e)[i] = s[i] OBVIOUS
<1>4. Append(s, e) # <<>> BY <1>1
<1>5. \A i \in 1 .. Len(Append(s, e)) : i = Len(s) + 1 \/ i \in 1 .. Len(s) BY <1>1
<1>6. \A i \in 1 .. Len(s) : i \in 1 .. Len(Append(s, e)) BY <1>1
<1> QED BY <1>1, <1>2, <1>3, <1>4, <1>5, <1>6

\* The Host has nothing and the client has made nothing.
LEMMA CallsInitKeeps ==
    ASSUME CallsInit
    PROVE  CallsInv
<1>1. /\ link = [peer |-> "none", up |-> <<>>, down |-> <<>>] /\ cache = <<>> /\ handling = {}
      /\ invoked = <<>> /\ client = [state |-> "idle", connection |-> 0] /\ call = <<>>
    BY DEF CallsInit, NoLink
<1>2. CallsTyped
  <2>1. link \in LinkRecord BY <1>1 DEF LinkRecord
  <2>2. client \in ClientRecord BY <1>1 DEF ClientRecord
  <2> QED BY <1>1, <2>1, <2>2, CallsConstants DEF CallsTyped
<1>3. Len(link.up) = 0 /\ Len(link.down) = 0 /\ Len(cache) = 0 /\ Len(invoked) = 0 /\ Len(call) = 0 BY <1>1
<1>4. InvokedOnce BY <1>3 DEF InvokedOnce
<1>5. LinkPhases BY <1>1, <1>3 DEF LinkPhases, NoLink
<1>6. UpFits /\ HandlingFits /\ DownFits BY <1>1, <1>3 DEF UpFits, HandlingFits, DownFits
<1>7. CacheFits /\ HandledIsNew BY <1>1, <1>3 DEF CacheFits, HandledIsNew
<1>8. ConnectionsFit BY <1>1, <1>3 DEF ConnectionsFit
<1>9. OwnAnswers /\ PendingFits BY <1>3 DEF OwnAnswers, PendingFits
<1> QED BY <1>2, <1>4, <1>5, <1>6, <1>7, <1>8, <1>9 DEF CallsInv

\* The invariant is more than what is checked.
LEMMA CallsInvImplies ==
    ASSUME CallsInv
    PROVE  CallsAgree
<1>1. CallsTyped /\ InvokedOnce /\ LinkPhases /\ UpFits /\ OwnAnswers /\ PendingFits BY DEF CallsInv
<1>2. CallsTypeOK
    BY <1>1, CallsFields, CallsConstants DEF CallsTypeOK, CallRecord
<1>3. AnswerIsOwn
  <2>1. DOMAIN call = 1 .. Len(call) BY <1>1, CallsFields
  <2> QED BY <1>1, <2>1 DEF AnswerIsOwn, OwnAnswers, DoneFor
<1>4. PendingIsAlive
  <2> SUFFICES ASSUME NEW c \in PendingIds, client.state # "left"
               PROVE  /\ client.state = "accepted"
                      /\ \/ link.down # <<>>
                         \/ \E f \in handling : f.id = c
                         \/ \E i \in 1 .. Len(link.up) : link.up[i].id = c
      BY DEF PendingIsAlive
  <2>1. c \in 1 .. Len(call) /\ call[c].status = "pending" BY <1>1, CallsFields DEF PendingIds
  <2>2. /\ client.state = "accepted"
        /\ link.peer = "none" \/ StandsUp(c) \/ StandsHandled(c) \/ StandsDown(c)
      BY <1>1, <2>1 DEF PendingFits
  <2>3. link.peer = "none" => link.down # <<>> BY <1>1, <2>2 DEF LinkPhases, Closing
  <2>4. StandsDown(c) => link.down # <<>> BY <1>1, CallsFields DEF StandsDown
  <2> QED BY <2>2, <2>3, <2>4 DEF StandsUp, StandsHandled
<1> QED BY <1>1, <1>2, <1>3, <1>4 DEF CallsAgree

-----------------------------------------------------------------------------
\* A step that leaves the calls, the cache and what was invoked alone.
LEMMA CallsFrame ==
    ASSUME CallsInv, UNCHANGED <<cache, handling, invoked, client, call>>, link' \in LinkRecord
    PROVE  CallsTyped' /\ InvokedOnce' /\ HandlingFits' /\ CacheFits' /\ HandledIsNew' /\ OwnAnswers'
<1>1. CallsTyped' BY DEF CallsInv, CallsTyped
<1>2. InvokedOnce' BY DEF CallsInv, InvokedOnce
<1>3. HandlingFits' BY DEF CallsInv, HandlingFits, IsOf
<1>4. CacheFits' BY DEF CallsInv, CacheFits, DoneFor
<1>5. HandledIsNew' BY DEF CallsInv, HandledIsNew, KeysAfter
<1>6. OwnAnswers' BY DEF CallsInv, OwnAnswers, DoneFor
<1> QED BY <1>1, <1>2, <1>3, <1>4, <1>5, <1>6

\* The control frames.
LEMMA Controls ==
    /\ \A t \in {"accepted", "rejected", "close"} : Control(t) \in DownFrame /\ Control(t).type = t
    /\ Control("open") \in UpFrame /\ <<>> \in Seq(UpFrame) /\ <<>> \in Seq(DownFrame)
<1>1. \A t \in {"accepted", "rejected", "close"} : Control(t) \in ControlFrame /\ Control(t).type = t
    BY DEF Control, ControlFrame
<1>2. Control("open") \in OpenFrame BY DEF Control, OpenFrame
<1> QED BY <1>1, <1>2 DEF DownFrame, UpFrame

LEMMA NoLinkTyped == NoLink \in LinkRecord /\ NoLink.peer = "none" /\ NoLink.up = <<>> /\ NoLink.down = <<>>
BY Controls DEF NoLink, LinkRecord

\* The Host has ended the connection, and the close event is the last to come.
EndedLink ==
    /\ link' \in LinkRecord /\ link'.peer = "none" /\ link'.up = <<>> /\ link'.down # <<>>
    /\ link'.down[Len(link'.down)] = Control("close")
    /\ \A i \in 1 .. Len(link'.down) :
          link'.down[i] = Control("close") \/ \E k \in 1 .. Len(link.down) : link'.down[i] = link.down[k]

LEMMA EndLinkEnds ==
    ASSUME CallsTyped, EndLink
    PROVE  EndedLink
<1>1. PICK n \in 0 .. Len(link.down) :
          link' = [peer |-> "none", up |-> <<>>, down |-> Append(SubSeq(link.down, 1, n), Control("close"))]
    BY DEF EndLink
<1> DEFINE s == SubSeq(link.down, 1, n)
<1>2. link.down \in Seq(DownFrame) /\ Len(link.down) \in Nat BY CallsFields
<1>3. s \in Seq(DownFrame) /\ Len(s) = n /\ \A i \in 1 .. n : s[i] = link.down[i] BY <1>2
<1> HIDE DEF s
<1>4. /\ Append(s, Control("close")) \in Seq(DownFrame) /\ Len(Append(s, Control("close"))) = n + 1
      /\ Append(s, Control("close"))[n + 1] = Control("close") /\ Append(s, Control("close")) # <<>>
      /\ \A i \in 1 .. n : Append(s, Control("close"))[i] = s[i]
      /\ \A i \in 1 .. n + 1 : i = n + 1 \/ i \in 1 .. n
    BY <1>3, Controls, AppendElements
<1>5. link'.peer = "none" /\ link'.up = <<>> /\ link'.down = Append(s, Control("close")) BY <1>1 DEF s
<1>6. link' \in LinkRecord BY <1>1, <1>4, Controls DEF LinkRecord, s
<1>7. \A i \in 1 .. n : i \in 1 .. Len(link.down) BY <1>2
<1> QED BY <1>3, <1>4, <1>5, <1>6, <1>7 DEF EndedLink

\* What an ended connection means for the parts that speak of the link.
LEMMA EndedKeeps ==
    ASSUME CallsInv, EndedLink, link.peer # "none", client' = client, call' = call,
           \A n \in 1 .. Len(invoked) : n \in 1 .. Len(invoked') /\ invoked'[n] = invoked[n]
    PROVE  LinkPhases' /\ UpFits' /\ DownFits' /\ PendingFits' /\ link' # NoLink
<1>1. CallsTyped /\ LinkPhases /\ DownFits /\ PendingFits BY DEF CallsInv
<1>2. client.state \in {"opening", "accepted"} BY <1>1, NoLinkTyped DEF LinkPhases
<1>3. \A i \in 1 .. Len(link.down) : link.down[i].type # "rejected" BY <1>1 DEF LinkPhases
<1>4. \A i \in 1 .. Len(link'.down) : link'.down[i].type # "rejected" BY <1>3, Controls DEF EndedLink
<1>5. LinkPhases' BY <1>2, <1>4 DEF LinkPhases, EndedLink, Closing
<1>6. UpFits' BY DEF UpFits, EndedLink
<1>7. DownFits'
  <2> SUFFICES ASSUME NEW i \in 1 .. Len(link'.down), link'.down[i].type = "result"
               PROVE  /\ link'.down[i] \in ResultFrame
                      /\ link'.down[i].id \in 1 .. Len(call)
                      /\ link'.down[i].ok =>
                            /\ link'.down[i].of \in 1 .. Len(invoked') /\ invoked'[link'.down[i].of].effect
                            /\ invoked'[link'.down[i].of].key = call[link'.down[i].id].key
                            /\ invoked'[link'.down[i].of].request = call[link'.down[i].id].request
      BY DEF DownFits, DoneFor
  <2>1. PICK k \in 1 .. Len(link.down) : link'.down[i] = link.down[k] BY Controls DEF EndedLink
  <2> QED BY <1>1, <2>1 DEF DownFits, DoneFor
<1>8. PendingFits' BY <1>1 DEF PendingFits, EndedLink
<1>9. link' # NoLink BY NoLinkTyped DEF EndedLink
<1> QED BY <1>5, <1>6, <1>7, <1>8, <1>9

\* The policy refuses the upgrade.
LEMMA CallsRefuseUpgrade ==
    ASSUME CallsInv, RefuseUpgrade
    PROVE  CallsInv'
<1>1. /\ client.state = "opening" /\ link = NoLink /\ link' = [link EXCEPT !.down = <<Control("close")>>]
      /\ UNCHANGED <<cache, handling, invoked, client, call>>
    BY DEF RefuseUpgrade
<1>2. link' = [peer |-> "none", up |-> <<>>, down |-> <<Control("close")>>] BY <1>1 DEF NoLink
<1>3. /\ link'.peer = "none" /\ link'.up = <<>> /\ link'.down = <<Control("close")>> /\ Len(link'.down) = 1
      /\ link'.down[1] = Control("close")
    BY <1>2
<1>4. link' \in LinkRecord
  <2>1. <<Control("close")>> \in Seq(DownFrame) BY Controls
  <2> QED BY <1>2, <2>1, Controls DEF LinkRecord
<1>5. CallsTyped' /\ InvokedOnce' /\ HandlingFits' /\ CacheFits' /\ HandledIsNew' /\ OwnAnswers'
    BY <1>1, <1>4, CallsFrame
<1>6. LinkPhases' BY <1>1, <1>3, Controls DEF LinkPhases, Closing
<1>7. UpFits' BY <1>3 DEF UpFits
<1>8. DownFits' BY <1>3, Controls DEF DownFits
<1>9. ConnectionsFit' BY <1>1 DEF CallsInv, ConnectionsFit
<1>10. PendingFits' BY <1>1, <1>3 DEF CallsInv, PendingFits
<1> QED BY <1>5, <1>6, <1>7, <1>8, <1>9, <1>10 DEF CallsInv

\* A fresh peer has an empty cache.
LEMMA CallsAcceptUpgrade ==
    ASSUME CallsInv, AcceptUpgrade
    PROVE  CallsInv'
<1>1. /\ client.state = "opening" /\ link = NoLink
      /\ link' = [peer |-> "raw", up |-> <<Control("open")>>, down |-> <<>>]
      /\ cache' = <<>> /\ UNCHANGED <<handling, invoked, client, call>>
    BY DEF AcceptUpgrade
<1>2. /\ CallsTyped /\ InvokedOnce /\ LinkPhases /\ HandlingFits /\ HandledIsNew /\ ConnectionsFit /\ OwnAnswers
      /\ PendingFits /\ CacheFits
    BY DEF CallsInv
<1>3. link'.peer = "raw" /\ link'.up = <<Control("open")>> /\ link'.down = <<>> /\ Len(link'.down) = 0 BY <1>1
<1>4. link' \in LinkRecord
  <2>1. <<Control("open")>> \in Seq(UpFrame) BY Controls
  <2> QED BY <1>1, <2>1, Controls DEF LinkRecord
<1>5. CallsTyped' BY <1>1, <1>2, <1>4, CallsConstants DEF CallsTyped
<1>6. InvokedOnce' BY <1>1, <1>2 DEF InvokedOnce
<1>7. LinkPhases' BY <1>1, <1>3 DEF LinkPhases
<1>8. UpFits' /\ DownFits' BY <1>3 DEF UpFits, DownFits
<1>9. HandlingFits' BY <1>1, <1>2 DEF HandlingFits, IsOf
<1>10. /\ \A i \in 1 .. Len(invoked) : invoked[i].connection < client.connection
       /\ \A f \in handling : f.on < client.connection
    BY <1>1, <1>2 DEF ConnectionsFit
<1>11. /\ \A i \in 1 .. Len(invoked) : invoked[i].connection # client.connection
       /\ \A f \in handling : f.on # client.connection
  <2>1. ASSUME NEW i \in 1 .. Len(invoked) PROVE invoked[i].connection # client.connection
      BY <1>2, <1>10, CallsFields, InvocationFields
  <2>2. ASSUME NEW f \in handling PROVE f.on # client.connection
    <3>1. f \in CallFrame BY <1>2 DEF CallsTyped
    <3> QED BY <1>2, <1>10, <3>1, CallsFields, FrameFields
  <2> QED BY <2>1, <2>2
<1>12. CacheFits' BY <1>1, <1>11 DEF CacheFits
<1>13. HandledIsNew' BY <1>1, <1>2, <1>11 DEF HandledIsNew, KeysAfter
<1>14. ConnectionsFit' BY <1>1, <1>2 DEF ConnectionsFit
<1>15. OwnAnswers' BY <1>1, <1>2 DEF OwnAnswers, DoneFor
<1>16. PendingFits' BY <1>1, <1>2 DEF PendingFits
<1> QED BY <1>5, <1>6, <1>7, <1>8, <1>9, <1>12, <1>13, <1>14, <1>15, <1>16 DEF CallsInv

\* The frames of a rejection.
LEMMA RejectFrames ==
    /\ \A s \in Seq(DownFrame) : s = <<>> => s \o <<Control("rejected"), Control("close")>> = <<Control("rejected"), Control("close")>>
    /\ <<Control("rejected"), Control("close")>> \in Seq(DownFrame)
<1>1. \A a, b \in DownFrame : <<a, b>> \in Seq(DownFrame) OBVIOUS
<1>2. <<Control("rejected"), Control("close")>> \in Seq(DownFrame) BY <1>1, Controls
<1>3. \A s, u \in Seq(DownFrame) : s = <<>> => s \o u = u OBVIOUS
<1> QED BY <1>2, <1>3

\* The Host turns an open frame down, or waits for it no longer.
LEMMA CallsReject ==
    ASSUME CallsInv, link.peer = "raw",
           link'.peer = "none", link'.up = <<>>, link'.down = <<Control("rejected"), Control("close")>>,
           link' \in LinkRecord, UNCHANGED <<cache, handling, invoked, client, call>>
    PROVE  CallsInv'
<1>1. client.state = "opening" BY DEF CallsInv, LinkPhases
<1>3. /\ link'.peer = "none" /\ link'.up = <<>> /\ link'.down = <<Control("rejected"), Control("close")>>
      /\ Len(link'.down) = 2 /\ link'.down[1] = Control("rejected") /\ link'.down[2] = Control("close")
  <2>1. \A a, b : Len(<<a, b>>) = 2 /\ <<a, b>>[1] = a /\ <<a, b>>[2] = b OBVIOUS
  <2> QED BY <2>1
<1>5. CallsTyped' /\ InvokedOnce' /\ HandlingFits' /\ CacheFits' /\ HandledIsNew' /\ OwnAnswers'
    BY CallsFrame
<1>6. LinkPhases' BY <1>1, <1>3 DEF LinkPhases, Closing
<1>7. UpFits' BY <1>3 DEF UpFits
<1>8. DownFits'
  <2>1. \A i \in 1 .. 2 : link'.down[i].type # "result" BY <1>3, Controls
  <2> QED BY <1>3, <2>1 DEF DownFits
<1>9. ConnectionsFit'
  <2>1. link' # NoLink
    <3>1. Len(NoLink.down) = 0 BY NoLinkTyped
    <3>2. Len(link'.down) # Len(NoLink.down) BY <1>3, <3>1
    <3> QED BY <3>2
  <2> QED BY <2>1 DEF CallsInv, ConnectionsFit, NoLink
<1>10. PendingFits' BY <1>1 DEF CallsInv, PendingFits
<1> QED BY <1>5, <1>6, <1>7, <1>8, <1>9, <1>10 DEF CallsInv

\* The Host ends a handshake that it rejects.
LEMMA CallsRejectFrames ==
    ASSUME CallsInv, link.peer = "raw", NEW d, d = link.down \o <<Control("rejected"), Control("close")>>,
           link' = [peer |-> "none", up |-> <<>>, down |-> d],
           UNCHANGED <<cache, handling, invoked, client, call>>
    PROVE  CallsInv'
<1>1. link.down = <<>> BY DEF CallsInv, LinkPhases
<1>2. d = <<Control("rejected"), Control("close")>> /\ d \in Seq(DownFrame) BY <1>1, RejectFrames, Controls
<1>3. link' \in LinkRecord /\ link'.peer = "none" /\ link'.up = <<>> /\ link'.down = d
    BY <1>2, Controls DEF LinkRecord
<1> QED BY <1>2, <1>3, CallsReject

\* The open frame is accepted.
LEMMA CallsOpenFrame ==
    ASSUME CallsInv, HandleOpenFrame
    PROVE  CallsInv'
<1>1. link.peer = "raw" /\ UNCHANGED <<cache, handling, invoked, client, call>> BY DEF HandleOpenFrame
<1>2. client.state = "opening" /\ link.up = <<Control("open")>> /\ link.down = <<>> BY <1>1 DEF CallsInv, LinkPhases
<1>3. CASE link' = [peer |-> "none", up |-> <<>>, down |-> link.down \o <<Control("rejected"), Control("close")>>]
    BY <1>1, <1>3, CallsRejectFrames
<1>4. CASE link' = [peer |-> "peer", up |-> Tail(link.up), down |-> Append(link.down, Control("accepted"))]
  <2>1. link' = [peer |-> "peer", up |-> <<>>, down |-> <<Control("accepted")>>] BY <1>2, <1>4
  <2>2. /\ link'.peer = "peer" /\ link'.up = <<>> /\ link'.down = <<Control("accepted")>>
        /\ Len(link'.up) = 0 /\ Len(link'.down) = 1 /\ link'.down[1] = Control("accepted")
      BY <2>1
  <2>3. link' \in LinkRecord
    <3>1. <<Control("accepted")>> \in Seq(DownFrame) BY Controls
    <3> QED BY <2>1, <3>1, Controls DEF LinkRecord
  <2>4. CallsTyped' /\ InvokedOnce' /\ HandlingFits' /\ CacheFits' /\ HandledIsNew' /\ OwnAnswers'
      BY <1>1, <2>3, CallsFrame
  <2>5. LinkPhases' BY <1>1, <1>2, <2>2, Controls DEF LinkPhases
  <2>6. UpFits' BY <2>2 DEF UpFits
  <2>7. DownFits' BY <2>2, Controls DEF DownFits
  <2>8. ConnectionsFit' BY <1>1, <2>2, NoLinkTyped DEF CallsInv, ConnectionsFit
  <2>9. PendingFits' BY <1>1, <1>2 DEF CallsInv, PendingFits
  <2> QED BY <2>4, <2>5, <2>6, <2>7, <2>8, <2>9 DEF CallsInv
<1> QED BY <1>3, <1>4 DEF HandleOpenFrame

\* Nobody sent an open frame in time.
LEMMA CallsHandshakeTimeout ==
    ASSUME CallsInv, HandshakeTimeout
    PROVE  CallsInv'
BY CallsRejectFrames DEF HandshakeTimeout

\* The Host closes the connection.
LEMMA CallsPeerCloses ==
    ASSUME CallsInv, PeerCloses
    PROVE  CallsInv'
<1>1. link.peer # "none" /\ EndLink /\ UNCHANGED <<cache, handling, invoked, client, call>> BY DEF PeerCloses
<1>2. EndedLink BY <1>1, EndLinkEnds DEF CallsInv
<1>3. CallsTyped' /\ InvokedOnce' /\ HandlingFits' /\ CacheFits' /\ HandledIsNew' /\ OwnAnswers'
    BY <1>1, <1>2, CallsFrame DEF EndedLink
<1>4. LinkPhases' /\ UpFits' /\ DownFits' /\ PendingFits' /\ link' # NoLink
  <2> QED BY <1>1, <1>2, EndedKeeps
<1>5. link'.peer = "none" BY <1>2 DEF EndedLink
<1>6. ConnectionsFit BY DEF CallsInv
<1>7. ConnectionsFit' BY <1>1, <1>4, <1>5, <1>6 DEF ConnectionsFit, NoLink
<1> QED BY <1>3, <1>4, <1>7 DEF CallsInv

-----------------------------------------------------------------------------
\* Calls end, and one that succeeds has the result of its own operation.
SameCalls ==
    /\ call' \in Seq(CallRecord) /\ Len(call') = Len(call)
    /\ \A c \in 1 .. Len(call) : call'[c].key = call[c].key /\ call'[c].request = call[c].request
    /\ \A c \in 1 .. Len(call) : call'[c].status = "ok" => DoneFor(call'[c].value, call[c].key, call[c].request)
    /\ \A c \in 1 .. Len(call) : call'[c].status = "pending" => call[c].status = "pending"

\* Calls that are ended by a timer or by the close event.
LEMMA SettleSame ==
    ASSUME CallsInv, NEW S, NEW status \in {"timeout", "closed"}, call' = Settle(S, status)
    PROVE  SameCalls /\ \A c \in 1 .. Len(call) : c \in S => call'[c].status = status
<1>1. CallsTyped /\ OwnAnswers BY DEF CallsInv
<1>2. call \in Seq(CallRecord) /\ Len(call) \in Nat /\ DOMAIN call = 1 .. Len(call) BY <1>1, CallsFields
<1>3. call' = [c \in 1 .. Len(call) |-> IF c \in S THEN [call[c] EXCEPT !.status = status] ELSE call[c]]
    BY <1>2 DEF Settle
<1>4. \A c \in 1 .. Len(call) : call'[c] = IF c \in S THEN [call[c] EXCEPT !.status = status] ELSE call[c]
    BY <1>3
<1>5. \A c \in 1 .. Len(call) :
         /\ call'[c] \in CallRecord /\ call'[c].key = call[c].key /\ call'[c].request = call[c].request
         /\ call'[c].value = call[c].value /\ call'[c].status = IF c \in S THEN status ELSE call[c].status
  <2> SUFFICES ASSUME NEW c \in 1 .. Len(call)
               PROVE  /\ call'[c] \in CallRecord /\ call'[c].key = call[c].key /\ call'[c].request = call[c].request
                      /\ call'[c].value = call[c].value
                      /\ call'[c].status = IF c \in S THEN status ELSE call[c].status
      OBVIOUS
  <2>1. call[c] \in CallRecord BY <1>2
  <2>2. CASE c \in S
    <3>1. call'[c] = [call[c] EXCEPT !.status = status] BY <1>4, <2>2
    <3> QED BY <2>1, <2>2, <3>1 DEF CallRecord
  <2>3. CASE c \notin S
    <3>1. call'[c] = call[c] BY <1>4, <2>3
    <3> QED BY <2>1, <2>3, <3>1
  <2> QED BY <2>2, <2>3
<1>6. call' \in [1 .. Len(call) -> CallRecord] BY <1>3, <1>5
<1>7. call' \in Seq(CallRecord) /\ Len(call') = Len(call) BY <1>2, <1>6
<1>8. \A c \in 1 .. Len(call) : call'[c].status = "ok" => DoneFor(call'[c].value, call[c].key, call[c].request)
    BY <1>1, <1>5 DEF OwnAnswers
<1> QED BY <1>5, <1>7, <1>8 DEF SameCalls

\* The parts that do not speak of the link, when calls end.
LEMMA SameCallsKeep ==
    ASSUME CallsInv, SameCalls, UNCHANGED <<cache, handling, invoked>>, client'.connection = client.connection,
           client' \in ClientRecord, link' \in LinkRecord
    PROVE  CallsTyped' /\ InvokedOnce' /\ HandlingFits' /\ CacheFits' /\ HandledIsNew' /\ OwnAnswers'
<1>1. CallsTyped' BY DEF CallsInv, CallsTyped, SameCalls
<1>2. InvokedOnce' BY DEF CallsInv, InvokedOnce
<1>3. HandlingFits' BY DEF CallsInv, HandlingFits, IsOf, SameCalls
<1>4. CacheFits' BY DEF CallsInv, CacheFits, DoneFor
<1>5. HandledIsNew' BY DEF CallsInv, HandledIsNew, KeysAfter
<1>6. OwnAnswers' BY DEF OwnAnswers, SameCalls, DoneFor
<1> QED BY <1>1, <1>2, <1>3, <1>4, <1>5, <1>6

\* The client has no link any more, and its calls are left to their timers or
\* ended.
LEMMA NoLinkKeeps ==
    ASSUME CallsInv, SameCalls, UNCHANGED <<cache, handling, invoked>>, client'.connection = client.connection,
           client' \in ClientRecord, link' = NoLink, client'.state \notin {"opening", "accepted"},
           client'.state = "left" \/ \A c \in 1 .. Len(call) : call'[c].status # "pending"
    PROVE  CallsInv'
<1>1. CallsTyped' /\ InvokedOnce' /\ HandlingFits' /\ CacheFits' /\ HandledIsNew' /\ OwnAnswers'
    BY SameCallsKeep, NoLinkTyped
<1>2. link'.peer = "none" /\ link'.up = <<>> /\ link'.down = <<>> /\ Len(link'.down) = 0 BY NoLinkTyped
<1>3. LinkPhases' BY <1>2 DEF LinkPhases, NoLink
<1>4. UpFits' /\ DownFits' BY <1>2 DEF UpFits, DownFits
<1>5. ConnectionsFit' BY DEF CallsInv, ConnectionsFit
<1>6. PendingFits' BY DEF PendingFits, SameCalls
<1> QED BY <1>1, <1>3, <1>4, <1>5, <1>6 DEF CallsInv

\* No call pends while a connection is opened.
LEMMA NothingPends ==
    ASSUME CallsInv, client.state \in {"idle", "opening"}
    PROVE  \A c \in 1 .. Len(call) : call[c].status # "pending"
BY DEF CallsInv, PendingFits

\* The calls as they are.
LEMMA UnchangedCalls ==
    ASSUME CallsInv, call' = call
    PROVE  SameCalls
BY DEF CallsInv, CallsTyped, OwnAnswers, SameCalls

\* The record of the client.
LEMMA ClientStates ==
    ASSUME CallsTyped, NEW s \in {"idle", "opening", "accepted", "closed", "left", "failed"},
           client' = [client EXCEPT !.state = s]
    PROVE  client' \in ClientRecord /\ client'.state = s /\ client'.connection = client.connection
BY DEF CallsTyped, ClientRecord

\* A connection is opened.
LEMMA CallsOpenConnection ==
    ASSUME CallsInv, OpenConnection
    PROVE  CallsInv'
<1>1. /\ client.state = "idle" /\ client.connection < MaxConnections
      /\ client' = [state |-> "opening", connection |-> client.connection + 1]
      /\ link' = NoLink /\ UNCHANGED <<cache, handling, invoked, call>>
    BY DEF OpenConnection
<1>2. /\ CallsTyped /\ InvokedOnce /\ HandlingFits /\ CacheFits /\ HandledIsNew /\ ConnectionsFit /\ OwnAnswers
    BY DEF CallsInv
<1>3. client.connection \in Nat BY <1>2, CallsFields
<1>4. client'.state = "opening" /\ client'.connection = client.connection + 1 BY <1>1
<1>5. CallsTyped'
  <2>1. client' \in ClientRecord BY <1>1, <1>3 DEF ClientRecord
  <2>2. link' \in LinkRecord BY <1>1, NoLinkTyped
  <2>3. client'.connection <= MaxConnections BY <1>1, <1>3, <1>4, CallsConstants
  <2> QED BY <1>1, <1>2, <2>1, <2>2, <2>3 DEF CallsTyped
<1>6. link'.peer = "none" /\ link'.up = <<>> /\ link'.down = <<>> /\ Len(link'.down) = 0 BY <1>1, NoLinkTyped
<1>7. LinkPhases' BY <1>1, <1>4, <1>6 DEF LinkPhases, NoLink
<1>8. UpFits' /\ DownFits' BY <1>6 DEF UpFits, DownFits
<1>9. \A i \in 1 .. Len(invoked) : invoked[i].connection < client'.connection
  <2> SUFFICES ASSUME NEW i \in 1 .. Len(invoked) PROVE invoked[i].connection < client'.connection OBVIOUS
  <2>1. invoked[i].connection \in Nat /\ invoked[i].connection <= client.connection
      BY <1>2, InvocationFields DEF ConnectionsFit
  <2> QED BY <1>3, <1>4, <2>1
<1>10. \A f \in handling : f.on < client'.connection
  <2> SUFFICES ASSUME NEW f \in handling PROVE f.on < client'.connection OBVIOUS
  <2>1. f.on \in Nat /\ f.on <= client.connection BY <1>2, FrameFields DEF HandlingFits, CallsTyped
  <2> QED BY <1>3, <1>4, <2>1
<1>11. InvokedOnce' BY <1>1, <1>2 DEF InvokedOnce
<1>12. HandlingFits'
  <2>1. \A f \in handling : f.on <= client'.connection
    <3> SUFFICES ASSUME NEW f \in handling PROVE f.on <= client'.connection OBVIOUS
    <3>1. f.on \in Nat BY <1>2, FrameFields DEF CallsTyped
    <3> QED BY <1>3, <1>4, <1>10, <3>1
  <2> QED BY <1>1, <1>2, <2>1 DEF HandlingFits, IsOf
<1>13. \A i \in 1 .. Len(invoked) : invoked[i].connection # client'.connection
  <2> SUFFICES ASSUME NEW i \in 1 .. Len(invoked) PROVE invoked[i].connection # client'.connection OBVIOUS
  <2>1. invoked[i].connection \in Nat BY <1>2, InvocationFields
  <2> QED BY <1>3, <1>4, <1>9, <2>1
<1>14. \A f \in handling : f.on # client'.connection
  <2> SUFFICES ASSUME NEW f \in handling PROVE f.on # client'.connection OBVIOUS
  <2>1. f.on \in Nat BY <1>2, FrameFields DEF CallsTyped
  <2> QED BY <1>3, <1>4, <1>10, <2>1
<1>15. CacheFits' BY <1>1, <1>2, <1>13 DEF CacheFits, DoneFor
<1>16. HandledIsNew' BY <1>1, <1>2, <1>14 DEF HandledIsNew, KeysAfter
<1>17. ConnectionsFit'
  <2>1. \A i \in 1 .. Len(invoked) : invoked[i].connection <= client'.connection
    <3> SUFFICES ASSUME NEW i \in 1 .. Len(invoked) PROVE invoked[i].connection <= client'.connection OBVIOUS
    <3>1. invoked[i].connection \in Nat BY <1>2, InvocationFields
    <3> QED BY <1>3, <1>4, <1>9, <3>1
  <2> QED BY <1>1, <1>9, <1>10, <2>1 DEF ConnectionsFit
<1>18. OwnAnswers' BY <1>1, <1>2 DEF OwnAnswers, DoneFor
<1>19. PendingFits' BY <1>1, NothingPends DEF PendingFits
<1> QED BY <1>5, <1>7, <1>8, <1>11, <1>12, <1>15, <1>16, <1>17, <1>18, <1>19 DEF CallsInv

\* connect gives up.
LEMMA CallsConnectTimeout ==
    ASSUME CallsInv, ConnectTimeout
    PROVE  CallsInv'
<1>1. /\ client.state \in {"idle", "opening"} /\ client' = [client EXCEPT !.state = "failed"] /\ link' = NoLink
      /\ UNCHANGED <<cache, handling, invoked, call>>
    BY DEF ConnectTimeout
<1>2. client' \in ClientRecord /\ client'.state = "failed" /\ client'.connection = client.connection
    BY <1>1, ClientStates DEF CallsInv
<1> QED BY <1>1, <1>2, NothingPends, UnchangedCalls, NoLinkKeeps

\* The client is closed.
LEMMA CallsCloseClient ==
    ASSUME CallsInv, CloseClient
    PROVE  CallsInv'
<1>1. client' = [client EXCEPT !.state = "left"] /\ link' = NoLink /\ UNCHANGED <<cache, handling, invoked, call>>
    BY DEF CloseClient
<1>2. client' \in ClientRecord /\ client'.state = "left" /\ client'.connection = client.connection
    BY <1>1, ClientStates DEF CallsInv
<1> QED BY <1>1, <1>2, UnchangedCalls, NoLinkKeeps

\* The session opens another connection.
LEMMA CallsReopen ==
    ASSUME CallsInv, Reopen
    PROVE  CallsInv'
<1>1. /\ client.state \in {"closed", "left"} /\ PendingIds = {} /\ client' = [client EXCEPT !.state = "idle"]
      /\ UNCHANGED <<link, cache, handling, invoked, call>>
    BY DEF Reopen
<1>2. client' \in ClientRecord /\ client'.state = "idle" /\ client'.connection = client.connection
    BY <1>1, ClientStates DEF CallsInv
<1>3. link' = NoLink BY <1>1 DEF CallsInv, LinkPhases
<1>4. \A c \in 1 .. Len(call) : call'[c].status # "pending"
  <2>1. DOMAIN call = 1 .. Len(call) BY CallsFields DEF CallsInv
  <2> QED BY <1>1, <2>1 DEF PendingIds
<1> QED BY <1>1, <1>2, <1>3, <1>4, UnchangedCalls, NoLinkKeeps

\* A call waits no longer.
LEMMA CallsTimeout ==
    ASSUME CallsInv, NEW c \in DOMAIN call, CallTimeout(c)
    PROVE  CallsInv'
<1>1. call' = Settle({c}, "timeout") /\ UNCHANGED <<link, cache, handling, invoked, client>> BY DEF CallTimeout
<1>2. SameCalls BY <1>1, SettleSame
<1>3. CallsTyped' /\ InvokedOnce' /\ HandlingFits' /\ CacheFits' /\ HandledIsNew' /\ OwnAnswers'
    BY <1>1, <1>2, SameCallsKeep DEF CallsInv, CallsTyped
<1>4. LinkPhases' BY <1>1 DEF CallsInv, LinkPhases, Closing
<1>5. UpFits' BY <1>1, <1>2 DEF CallsInv, UpFits, IsOf, SameCalls
<1>6. DownFits'
  <2>1. DownFits BY DEF CallsInv
  <2>2. /\ Len(call') = Len(call)
        /\ \A e \in 1 .. Len(call) : call'[e].key = call[e].key /\ call'[e].request = call[e].request
      BY <1>2 DEF SameCalls
  <2> QED BY <1>1, <2>1, <2>2 DEF DownFits, DoneFor
<1>7. ConnectionsFit' BY <1>1 DEF CallsInv, ConnectionsFit
<1>8. PendingFits' BY <1>1, <1>2 DEF CallsInv, PendingFits, SameCalls, StandsUp, StandsHandled, StandsDown
<1> QED BY <1>3, <1>4, <1>5, <1>6, <1>7, <1>8 DEF CallsInv

\* A call is made: its frame goes up behind the others, unless nobody listens.
LEMMA CallsSend ==
    ASSUME CallsInv, NEW k \in IdempotencyKey, NEW r \in Request, SendCall(k, r)
    PROVE  CallsInv'
<1> DEFINE n == Len(call) + 1
           e == [key |-> k, request |-> r, status |-> "pending", value |-> 0]
           f == [id |-> n, key |-> k, request |-> r, on |-> client.connection]
<1>1. /\ client.state = "accepted" /\ call' = Append(call, e)
      /\ link' = IF link.peer = "none" THEN link ELSE [link EXCEPT !.up = Append(@, f)]
      /\ UNCHANGED <<cache, handling, invoked, client>>
    BY DEF SendCall
<1>2. /\ CallsTyped /\ InvokedOnce /\ LinkPhases /\ UpFits /\ HandlingFits /\ DownFits /\ CacheFits
      /\ HandledIsNew /\ ConnectionsFit /\ OwnAnswers /\ PendingFits
    BY DEF CallsInv
<1>3. e \in CallRecord /\ e.key = k /\ e.request = r /\ e.status = "pending" BY DEF CallRecord
<1>4. f \in CallFrame /\ f \in UpFrame /\ f.id = n /\ f.key = k /\ f.request = r /\ f.on = client.connection
    BY <1>2, CallsFields DEF CallFrame, UpFrame
<1> HIDE DEF e, f
<1>5. /\ call' \in Seq(CallRecord) /\ Len(call') = n /\ call'[n] = e /\ Len(call) \in Nat
      /\ \A c \in 1 .. Len(call) : c \in 1 .. Len(call') /\ call'[c] = call[c]
      /\ \A c \in 1 .. Len(call') : c = n \/ c \in 1 .. Len(call)
    BY <1>1, <1>2, <1>3, CallsFields, AppendElements
<1>6. link.peer = "none" \/ link.peer = "peer" BY <1>1, <1>2 DEF LinkPhases
<1>7. /\ link' \in LinkRecord /\ link'.peer = link.peer /\ link'.down = link.down
      /\ link'.up = IF link.peer = "none" THEN link.up ELSE Append(link.up, f)
  <2>1. Append(link.up, f) \in Seq(UpFrame) BY <1>2, <1>4, CallsFields, AppendElements
  <2>2. link \in LinkRecord BY <1>2 DEF CallsTyped
  <2>3. CASE link.peer = "none" BY <1>1, <2>2, <2>3
  <2>4. CASE link.peer # "none"
    <3>1. link' = [link EXCEPT !.up = Append(link.up, f)] BY <1>1, <2>4
    <3> QED BY <2>1, <2>2, <2>4, <3>1 DEF LinkRecord
  <2> QED BY <2>3, <2>4
<1> HIDE DEF n
<1>8. CallsTyped' BY <1>1, <1>2, <1>5, <1>7 DEF CallsTyped
<1>9. InvokedOnce' BY <1>1, <1>2 DEF InvokedOnce
<1>10. LinkPhases' BY <1>1, <1>2, <1>6, <1>7 DEF LinkPhases, Closing
<1>11. UpFits'
  <2> SUFFICES ASSUME link.peer = "peer", NEW i \in 1 .. Len(link'.up)
               PROVE  /\ link'.up[i] \in CallFrame /\ link'.up[i].on = client.connection
                      /\ link'.up[i].id \in 1 .. Len(call') /\ call'[link'.up[i].id].key = link'.up[i].key
                      /\ call'[link'.up[i].id].request = link'.up[i].request
      BY <1>1, <1>7 DEF UpFits, IsOf
  <2>1. /\ link'.up = Append(link.up, f) /\ link.up \in Seq(UpFrame) /\ Len(link.up) \in Nat
        /\ Len(link'.up) = Len(link.up) + 1 /\ link'.up[Len(link.up) + 1] = f
        /\ \A j \in 1 .. Len(link.up) : link'.up[j] = link.up[j]
        /\ i = Len(link.up) + 1 \/ i \in 1 .. Len(link.up)
      BY <1>2, <1>4, <1>7, CallsFields, AppendElements
  <2>2. CASE i \in 1 .. Len(link.up)
    <3>1. link.up[i] \in CallFrame /\ IsOf(link.up[i]) /\ link.up[i].on = client.connection BY <1>2, <2>2 DEF UpFits
    <3> QED BY <1>5, <2>1, <2>2, <3>1 DEF IsOf
  <2>3. CASE i = Len(link.up) + 1
    <3>1. n \in 1 .. Len(call') BY <1>5 DEF n
    <3> QED BY <1>3, <1>4, <1>5, <2>1, <2>3, <3>1
  <2> QED BY <2>1, <2>2, <2>3
<1>12. HandlingFits' BY <1>1, <1>2, <1>5 DEF HandlingFits, IsOf
<1>13. DownFits' BY <1>1, <1>2, <1>5, <1>7 DEF DownFits, DoneFor
<1>14. CacheFits' BY <1>1, <1>2 DEF CacheFits, DoneFor
<1>15. HandledIsNew' BY <1>1, <1>2 DEF HandledIsNew, KeysAfter
<1>16. ConnectionsFit' BY <1>1, <1>2 DEF ConnectionsFit
<1>17. OwnAnswers' BY <1>1, <1>2, <1>3, <1>5 DEF OwnAnswers, DoneFor
<1>18. PendingFits'
  <2> SUFFICES ASSUME NEW c \in 1 .. Len(call'), call'[c].status = "pending"
               PROVE  link.peer = "none" \/ StandsUp(c)' \/ StandsHandled(c)' \/ StandsDown(c)'
      BY <1>1, <1>7 DEF PendingFits
  <2>1. CASE link.peer = "none" BY <2>1
  <2>2. CASE link.peer # "none"
    <3>1. /\ link'.up = Append(link.up, f) /\ Len(link.up) \in Nat
          /\ Len(link'.up) = Len(link.up) + 1 /\ link'.up[Len(link.up) + 1] = f
          /\ \A j \in 1 .. Len(link.up) : j \in 1 .. Len(link'.up) /\ link'.up[j] = link.up[j]
        BY <1>2, <1>4, <1>7, <2>2, CallsFields, AppendElements
    <3>2. CASE c = n
      <4>1. Len(link.up) + 1 \in 1 .. Len(link'.up) BY <3>1
      <4> QED BY <1>4, <3>1, <3>2, <4>1 DEF StandsUp
    <3>3. CASE c \in 1 .. Len(call)
      <4>1. StandsUp(c) \/ StandsHandled(c) \/ StandsDown(c) BY <1>1, <1>2, <1>5, <2>2, <3>3 DEF PendingFits
      <4>2. StandsUp(c) => StandsUp(c)' BY <3>1 DEF StandsUp
      <4>3. StandsHandled(c) => StandsHandled(c)' BY <1>1 DEF StandsHandled
      <4>4. StandsDown(c) => StandsDown(c)' BY <1>7 DEF StandsDown
      <4> QED BY <4>1, <4>2, <4>3, <4>4
    <3> QED BY <1>5, <3>2, <3>3
  <2> QED BY <2>1, <2>2
<1> QED BY <1>8, <1>9, <1>10, <1>11, <1>12, <1>13, <1>14, <1>15, <1>16, <1>17, <1>18 DEF CallsInv

\* The client takes a frame that does not end the connection.
LEMMA ReceiveKeeps ==
    ASSUME CallsInv, SameCalls, link.down # <<>>, link.down[1].type \in {"accepted", "result"},
           link' = [link EXCEPT !.down = Tail(link.down)],
           client' \in ClientRecord, client'.connection = client.connection, client.state \in {"opening", "accepted"},
           client'.state = IF link.down[1].type = "accepted" THEN "accepted" ELSE client.state,
           link.down[1].type = "result" =>
               \A c \in 1 .. Len(call) : c = link.down[1].id => call'[c].status # "pending",
           UNCHANGED <<cache, handling, invoked>>
    PROVE  CallsInv'
<1>2. /\ CallsTyped /\ LinkPhases /\ UpFits /\ DownFits /\ ConnectionsFit /\ PendingFits
    BY DEF CallsInv
<1>3. link.down \in Seq(DownFrame) BY <1>2, CallsFields
<1>4. /\ Tail(link.down) \in Seq(DownFrame) /\ Len(link.down) \in Nat \ {0}
      /\ Len(Tail(link.down)) = Len(link.down) - 1
      /\ \A i \in 1 .. Len(Tail(link.down)) : i + 1 \in 1 .. Len(link.down) /\ Tail(link.down)[i] = link.down[i + 1]
      /\ \A i \in 1 .. Len(link.down) : i # 1 => i - 1 \in 1 .. Len(Tail(link.down)) /\ Tail(link.down)[i - 1] = link.down[i]
    BY <1>3, TailElements
<1> DEFINE d == Tail(link.down)
<1> HIDE DEF d
<1>5. link'.peer = link.peer /\ link'.up = link.up /\ link'.down = d /\ link' \in LinkRecord
    BY <1>2, <1>4 DEF CallsTyped, LinkRecord, d
<1>6. CallsTyped' /\ InvokedOnce' /\ HandlingFits' /\ CacheFits' /\ HandledIsNew' /\ OwnAnswers'
    BY <1>5, SameCallsKeep
<1>7. link.down # <<>> => link # NoLink BY NoLinkTyped
<1>8. link.peer # "raw" BY <1>2 DEF LinkPhases
<1>9. link.peer = "none" => Closing' 
  <2> SUFFICES ASSUME link.peer = "none" PROVE Closing' OBVIOUS
  <2>1. Closing BY <1>2, <1>7 DEF LinkPhases
  <2>2. Len(link.down) # 1 BY <2>1, Controls DEF Closing
  <2>3. Len(d) \in Nat /\ Len(d) + 1 = Len(link.down) /\ Len(d) # 0 BY <1>4, <2>2 DEF d
  <2>5. Len(d) \in 1 .. Len(d) BY <2>3
  <2>6. d[Len(d)] = link.down[Len(d) + 1] BY <1>4, <2>5 DEF d
  <2>4. d # <<>> BY <2>3
  <2> QED BY <1>5, <2>1, <2>3, <2>4, <2>6 DEF Closing
<1>10. \A i \in 1 .. Len(link.down) : link.down[i].type # "rejected"
  <2>1. SUFFICES ASSUME NEW i \in 1 .. Len(link.down), link.down[i].type = "rejected" PROVE FALSE OBVIOUS
  <2>2. link.down = <<Control("rejected"), Control("close")>> BY <1>2, <2>1 DEF LinkPhases
  <2>3. link.down[1] = Control("rejected") BY <2>2
  <2> QED BY <2>3, Controls
<1>11. LinkPhases'
  <2>1. \A i \in 1 .. Len(link'.down) : link'.down[i].type # "rejected" BY <1>4, <1>5, <1>10 DEF d
  <2>2. client'.state \in {"opening", "accepted"} OBVIOUS
  <2>3. client'.state = "accepted" => link.peer = "peer" \/ link.peer = "none" BY <1>2, <1>8, CallsFields
  <2> QED BY <1>2, <1>5, <1>8, <1>9, <2>1, <2>2, <2>3 DEF LinkPhases
<1>16. /\ Len(call') = Len(call)
       /\ \A c \in 1 .. Len(call) : call'[c].key = call[c].key /\ call'[c].request = call[c].request
    BY DEF SameCalls
<1>12. UpFits' BY <1>2, <1>5, <1>16 DEF UpFits, IsOf
<1>13. DownFits'
  <2>2. \A i \in 1 .. Len(d) : \E k \in 1 .. Len(link.down) : d[i] = link.down[k] BY <1>4 DEF d
  <2> SUFFICES ASSUME NEW i \in 1 .. Len(link'.down), link'.down[i].type = "result"
               PROVE  /\ link'.down[i] \in ResultFrame
                      /\ link'.down[i].id \in 1 .. Len(call')
                      /\ link'.down[i].ok =>
                            /\ link'.down[i].of \in 1 .. Len(invoked) /\ invoked[link'.down[i].of].effect
                            /\ invoked[link'.down[i].of].key = call'[link'.down[i].id].key
                            /\ invoked[link'.down[i].of].request = call'[link'.down[i].id].request
      BY DEF DownFits, DoneFor
  <2>3. PICK k \in 1 .. Len(link.down) : link'.down[i] = link.down[k] BY <1>5, <2>2
  <2> DEFINE b == link.down[k]
  <2>4. /\ b.type = "result" /\ b \in ResultFrame /\ b.id \in 1 .. Len(call)
        /\ b.ok => DoneFor(b.of, call[b.id].key, call[b.id].request)
      BY <1>2, <2>3 DEF DownFits
  <2> HIDE DEF b
  <2>5. link'.down[i] = b BY <2>3 DEF b
  <2>6. call'[b.id].key = call[b.id].key /\ call'[b.id].request = call[b.id].request BY <1>16, <2>4
  <2> QED BY <1>16, <2>4, <2>5, <2>6 DEF DoneFor
<1>14. ConnectionsFit'
  <2>1. client'.state = "opening" => client.state = "opening" OBVIOUS
  <2>2. client'.state = "opening" => link' # NoLink
    <3>1. SUFFICES ASSUME client'.state = "opening", link' = NoLink PROVE FALSE OBVIOUS
    <3>2. link.peer = "none" BY <1>5, <3>1, NoLinkTyped
    <3> QED BY <1>9, <3>1, <3>2, NoLinkTyped DEF Closing
  <2> QED BY <1>2, <2>2 DEF ConnectionsFit
<1>15. PendingFits'
  <2> SUFFICES ASSUME NEW c \in 1 .. Len(call), call'[c].status = "pending"
               PROVE  /\ client'.state = "accepted"
                      /\ link'.peer = "none" \/ StandsUp(c)' \/ StandsHandled(c)' \/ StandsDown(c)'
      BY DEF PendingFits, SameCalls
  <2>1. call[c].status = "pending" BY DEF SameCalls
  <2>2. client.state = "accepted" /\ (link.peer = "none" \/ StandsUp(c) \/ StandsHandled(c) \/ StandsDown(c))
      BY <1>2, <2>1 DEF PendingFits
  <2>3. StandsUp(c) => StandsUp(c)' BY <1>5 DEF StandsUp
  <2>4. StandsHandled(c) => StandsHandled(c)' BY DEF StandsHandled
  <2>5. StandsDown(c) => StandsDown(c)'
    <3> SUFFICES ASSUME NEW i \in 1 .. Len(link.down), link.down[i].type = "result", link.down[i].id = c
                 PROVE  StandsDown(c)'
        BY DEF StandsDown
    <3>1. i # 1 OBVIOUS
    <3>2. i - 1 \in 1 .. Len(d) /\ d[i - 1] = link.down[i] BY <1>4, <3>1 DEF d
    <3> QED BY <1>5, <3>2 DEF StandsDown
  <2> QED BY <1>5, <2>2, <2>3, <2>4, <2>5
<1> QED BY <1>6, <1>11, <1>12, <1>13, <1>14, <1>15 DEF CallsInv

\* An answer comes in: its call gets the result, if it is still pending.
LEMMA AnswerSame ==
    ASSUME CallsInv, link.down # <<>>, link.down[1].type = "result", OnAnswer(link.down[1])
    PROVE  SameCalls /\ \A c \in 1 .. Len(call) : c = link.down[1].id => call'[c].status # "pending"
<1> DEFINE f == link.down[1]
<1>1. CallsTyped /\ DownFits /\ OwnAnswers BY DEF CallsInv
<1>2. 1 \in 1 .. Len(link.down) BY <1>1, CallsFields
<1>3. /\ f \in ResultFrame /\ f.id \in 1 .. Len(call)
      /\ f.ok => DoneFor(f.of, call[f.id].key, call[f.id].request)
    BY <1>1, <1>2 DEF DownFits
<1>4. f.ok \in BOOLEAN /\ f.of \in Nat BY <1>3 DEF ResultFrame
<1>5. call' = IF f.id \notin PendingIds THEN call
              ELSE [call EXCEPT ![f.id].status = IF f.ok THEN "ok" ELSE "error", ![f.id].value = f.of]
    BY DEF OnAnswer
<1> HIDE DEF f
<1>6. call \in Seq(CallRecord) /\ Len(call) \in Nat /\ DOMAIN call = 1 .. Len(call) BY <1>1, CallsFields
<1>7. CASE f.id \notin PendingIds
  <2>1. call' = call BY <1>5, <1>7
  <2>2. call[f.id].status # "pending" BY <1>3, <1>6, <1>7 DEF PendingIds
  <2> QED BY <2>1, <2>2, UnchangedCalls DEF f
<1>8. CASE f.id \in PendingIds
  <2> DEFINE s == IF f.ok THEN "ok" ELSE "error"
             g == [[call[f.id] EXCEPT !.status = s] EXCEPT !.value = f.of]
  <2>1. s \in {"ok", "error"} /\ (s = "ok" <=> f.ok = TRUE) BY <1>4
  <2>2. call' = [call EXCEPT ![f.id] = g] BY <1>5, <1>8
  <2> HIDE DEF s
  <2>3. call[f.id] \in CallRecord BY <1>1, <1>3, CallFields
  <2>4. /\ g \in CallRecord /\ g.key = call[f.id].key /\ g.request = call[f.id].request /\ g.value = f.of
        /\ g.status = s
    <3>1. [call[f.id] EXCEPT !.status = s] \in CallRecord BY <2>1, <2>3 DEF CallRecord
    <3> QED BY <1>4, <2>1, <2>3, <3>1 DEF CallRecord
  <2> HIDE DEF g
  <2>5. /\ call' \in Seq(CallRecord) /\ Len(call') = Len(call) /\ call'[f.id] = g
        /\ \A c \in 1 .. Len(call) : c # f.id => call'[c] = call[c]
      BY <1>3, <1>6, <2>2, <2>4
  <2>6. \A c \in 1 .. Len(call) : call'[c].key = call[c].key /\ call'[c].request = call[c].request BY <2>4, <2>5
  <2>7. \A c \in 1 .. Len(call) : call'[c].status = "ok" => DoneFor(call'[c].value, call[c].key, call[c].request)
    <3> SUFFICES ASSUME NEW c \in 1 .. Len(call), call'[c].status = "ok"
                 PROVE  DoneFor(call'[c].value, call[c].key, call[c].request)
        OBVIOUS
    <3>1. CASE c # f.id BY <1>1, <2>5, <3>1 DEF OwnAnswers
    <3>2. CASE c = f.id BY <1>3, <2>1, <2>4, <2>5, <3>2
    <3> QED BY <3>1, <3>2
  <2>8. \A c \in 1 .. Len(call) : call'[c].status = "pending" => call[c].status = "pending" /\ c # f.id
      BY <2>1, <2>4, <2>5
  <2> QED BY <2>5, <2>6, <2>7, <2>8 DEF SameCalls, f
<1> QED BY <1>7, <1>8

\* The client takes a frame.
LEMMA CallsReceiveFrame ==
    ASSUME CallsInv, ReceiveFrame
    PROVE  CallsInv'
<1>1. /\ link.down # <<>> /\ client.state \in {"opening", "accepted"} /\ UNCHANGED <<cache, handling, invoked>>
    BY DEF ReceiveFrame
<1>2. CallsTyped /\ client \in ClientRecord BY DEF CallsInv, CallsTyped
<1>3. Head(link.down) = link.down[1] /\ 1 \in 1 .. Len(link.down) BY <1>1, <1>2, CallsFields, TailElements
<1>4. CASE /\ link.down[1].type = "accepted" /\ client' = [client EXCEPT !.state = "accepted"]
           /\ link' = [link EXCEPT !.down = Tail(@)] /\ UNCHANGED call
  <2>1. client' \in ClientRecord /\ client'.state = "accepted" /\ client'.connection = client.connection
      BY <1>2, <1>4, ClientStates
  <2> QED BY <1>1, <1>4, <2>1, UnchangedCalls, ReceiveKeeps
<1>5. CASE /\ link.down[1].type = "rejected" /\ client' = [client EXCEPT !.state = "failed"]
           /\ link' = NoLink /\ UNCHANGED call
  <2>1. client' \in ClientRecord /\ client'.state = "failed" /\ client'.connection = client.connection
      BY <1>2, <1>5, ClientStates
  <2>2. client.state = "opening" BY <1>3, <1>5 DEF CallsInv, LinkPhases
  <2> QED BY <1>1, <1>5, <2>1, <2>2, NothingPends, UnchangedCalls, NoLinkKeeps
<1>6. CASE /\ link.down[1].type = "result" /\ OnAnswer(link.down[1])
           /\ link' = [link EXCEPT !.down = Tail(@)] /\ UNCHANGED client
  <2>1. SameCalls /\ \A c \in 1 .. Len(call) : c = link.down[1].id => call'[c].status # "pending"
      BY <1>1, <1>6, AnswerSame
  <2> QED BY <1>1, <1>2, <1>6, <2>1, ReceiveKeeps
<1>7. CASE /\ link.down[1].type = "close" /\ OnSocketClose /\ link' = NoLink
  <2> DEFINE s == IF client.state = "opening" THEN "idle" ELSE "closed"
  <2>1. client' = [client EXCEPT !.state = s] /\ call' = Settle(PendingIds, "closed") BY <1>7 DEF OnSocketClose
  <2>2. s \in {"idle", "closed"} OBVIOUS
  <2> HIDE DEF s
  <2>3. client' \in ClientRecord /\ client'.state = s /\ client'.connection = client.connection
      BY <1>2, <2>1, <2>2, ClientStates
  <2>4. SameCalls /\ \A c \in 1 .. Len(call) : c \in PendingIds => call'[c].status = "closed"
      BY <2>1, SettleSame
  <2>5. \A c \in 1 .. Len(call) : call'[c].status # "pending"
    <3>1. DOMAIN call = 1 .. Len(call) BY <1>2, CallsFields
    <3> QED BY <2>4, <3>1 DEF SameCalls, PendingIds
  <2> QED BY <1>1, <1>7, <2>2, <2>3, <2>4, <2>5, NoLinkKeeps
<1> QED BY <1>3, <1>4, <1>5, <1>6, <1>7 DEF ReceiveFrame

-----------------------------------------------------------------------------
\* The keys that were invoked after a place are finitely many, and they become
\* more.
LEMMA KeysFinite ==
    ASSUME CallsTyped, NEW i \in 1 .. Len(invoked)
    PROVE  IsFiniteSet(KeysAfter(i)) /\ Cardinality(KeysAfter(i)) \in Nat
<1> DEFINE D == i + 1 .. Len(invoked)
           g == [m \in D |-> invoked[m].key]
<1>1. Len(invoked) \in Nat BY CallsFields
<1>2. IsFiniteSet(D) BY <1>1, FS_Interval
<1>3. g \in Surjection(D, KeysAfter(i)) BY DEF Surjection, KeysAfter
<1>4. IsFiniteSet(KeysAfter(i)) BY <1>2, <1>3, FS_Surjection
<1> QED BY <1>4, FS_CardinalityType

\* A call that was invoked and has left the cache has a cache full of other keys
\* behind it.
LEMMA CachedKeys ==
    ASSUME CallsTyped, CacheFits, NEW i \in 1 .. Len(invoked), Len(cache) = MaxEntries, i < cache[1].of
    PROVE  Cardinality(KeysAfter(i)) >= MaxEntries
<1> DEFINE D == 1 .. MaxEntries
           g == [m \in D |-> cache[m].key]
<1>1. MaxEntries \in Nat \ {0} BY CallsConstants
<1>2. \A m \in D : cache[m].of \in 1 .. Len(invoked) /\ cache[m].of \in Nat /\ invoked[cache[m].of].key = cache[m].key
    BY CacheFields DEF CacheFits
<1>3. \A m \in D : cache[m].of >= cache[1].of
  <2> SUFFICES ASSUME NEW m \in D PROVE cache[m].of >= cache[1].of OBVIOUS
  <2>1. 1 \in D /\ cache[1].of \in Nat /\ cache[m].of \in Nat BY <1>1, <1>2
  <2>2. CASE m = 1 BY <2>1, <2>2
  <2>3. CASE m # 1
    <3>1. 1 < m BY <2>3
    <3>2. cache[1].of < cache[m].of BY <2>1, <3>1 DEF CacheFits
    <3> QED BY <2>1, <3>2
  <2> QED BY <2>2, <2>3
<1>4. \A m \in D : cache[m].key \in KeysAfter(i)
  <2> SUFFICES ASSUME NEW m \in D PROVE cache[m].key \in KeysAfter(i) OBVIOUS
  <2>1. 1 \in D BY <1>1
  <2>2. cache[m].of \in i + 1 .. Len(invoked)
    <3>1. Len(invoked) \in Nat /\ cache[1].of \in Nat BY <1>2, <2>1, CallsFields
    <3> QED BY <1>2, <1>3, <3>1
  <2> QED BY <1>2, <2>2 DEF KeysAfter
<1>5. \A m, n \in D : cache[m].key = cache[n].key => m = n
  <2> SUFFICES ASSUME NEW m \in D, NEW n \in D, m # n PROVE cache[m].key # cache[n].key OBVIOUS
  <2>1. m < n \/ n < m BY <1>1
  <2> QED BY <2>1 DEF CacheFits
<1>6. g \in Injection(D, KeysAfter(i)) BY <1>4, <1>5 DEF Injection, IsInjective
<1>7. Cardinality(D) <= Cardinality(KeysAfter(i)) BY <1>6, KeysFinite, FS_Injection
<1>8. Cardinality(D) = MaxEntries BY <1>1, FS_Interval
<1>9. Cardinality(KeysAfter(i)) \in Nat BY KeysFinite
<1> QED BY <1>1, <1>7, <1>8, <1>9

\* A reply is sent, ends the connection, or has nobody to hear it.
LEMMA ReplyCases ==
    ASSUME NEW l, NEW frame, Reply(frame, l)
    PROVE  \/ l.peer = "none" /\ link' = l
           \/ l.peer # "none" /\ EndLink
           \/ l.peer # "none" /\ link' = [l EXCEPT !.down = Append(l.down, frame)]
BY DEF Reply

\* The frame of a result.
LEMMA ResultFrames ==
    ASSUME NEW c \in Nat, NEW ok \in BOOLEAN, NEW of \in Nat, NEW r, r.ok = ok, r.of = of
    PROVE  /\ ResultMessage(c, r) \in ResultFrame /\ ResultMessage(c, r) \in DownFrame
           /\ ResultMessage(c, r).id = c /\ ResultMessage(c, r).ok = ok /\ ResultMessage(c, r).of = of
           /\ ResultMessage(c, r).type = "result"
BY DEF ResultMessage, ResultFrame, DownFrame

\* An answer is sent: what it means for the parts that speak of the link.
LEMMA AnsweredKeeps ==
    ASSUME CallsInv, link.peer = "peer", NEW frame \in ResultFrame, frame.id \in 1 .. Len(call),
           frame.ok => /\ frame.of \in 1 .. Len(invoked') /\ invoked'[frame.of].effect
                       /\ invoked'[frame.of].key = call[frame.id].key
                       /\ invoked'[frame.of].request = call[frame.id].request,
           link'.peer = "peer", link'.down = Append(link.down, frame), client' = client, call' = call,
           \A n \in 1 .. Len(invoked) : n \in 1 .. Len(invoked') /\ invoked'[n] = invoked[n]
    PROVE  /\ LinkPhases' /\ DownFits' /\ StandsDown(frame.id)'
           /\ \A c \in 1 .. Len(call) : StandsDown(c) => StandsDown(c)'
<1>1. CallsTyped /\ LinkPhases /\ DownFits BY DEF CallsInv
<1>2. frame \in DownFrame /\ frame.type = "result" BY DEF DownFrame, ResultFrame
<1>3. /\ Len(link.down) \in Nat /\ Len(link'.down) = Len(link.down) + 1 /\ link'.down[Len(link.down) + 1] = frame
      /\ \A i \in 1 .. Len(link.down) : i \in 1 .. Len(link'.down) /\ link'.down[i] = link.down[i]
      /\ \A i \in 1 .. Len(link'.down) : i = Len(link.down) + 1 \/ i \in 1 .. Len(link.down)
    BY <1>1, <1>2, CallsFields, AppendElements
<1>4. LinkPhases'
  <2>1. client.state \in {"opening", "accepted"} BY <1>1, NoLinkTyped DEF LinkPhases
  <2>2. \A i \in 1 .. Len(link.down) : link.down[i].type # "rejected" BY <1>1 DEF LinkPhases
  <2>3. \A i \in 1 .. Len(link'.down) : link'.down[i].type # "rejected" BY <1>2, <1>3, <2>2
  <2> QED BY <2>1, <2>3 DEF LinkPhases
<1>5. DownFits'
  <2> SUFFICES ASSUME NEW i \in 1 .. Len(link'.down), link'.down[i].type = "result"
               PROVE  /\ link'.down[i] \in ResultFrame
                      /\ link'.down[i].id \in 1 .. Len(call)
                      /\ link'.down[i].ok =>
                            /\ link'.down[i].of \in 1 .. Len(invoked') /\ invoked'[link'.down[i].of].effect
                            /\ invoked'[link'.down[i].of].key = call[link'.down[i].id].key
                            /\ invoked'[link'.down[i].of].request = call[link'.down[i].id].request
      BY DEF DownFits, DoneFor
  <2>1. CASE i = Len(link.down) + 1 BY <1>3, <2>1
  <2>2. CASE i \in 1 .. Len(link.down)
    <3> DEFINE b == link.down[i]
    <3>1. /\ b.type = "result" => /\ b \in ResultFrame /\ b.id \in 1 .. Len(call)
                                  /\ b.ok => DoneFor(b.of, call[b.id].key, call[b.id].request)
        BY <1>1, <2>2 DEF DownFits
    <3> HIDE DEF b
    <3>2. link'.down[i] = b BY <1>3, <2>2 DEF b
    <3> QED BY <3>1, <3>2 DEF DoneFor
  <2> QED BY <1>3, <2>1, <2>2
<1>6. StandsDown(frame.id)'
  <2>1. Len(link.down) + 1 \in 1 .. Len(link'.down) BY <1>3
  <2> QED BY <1>2, <1>3, <2>1 DEF StandsDown
<1>7. \A c \in 1 .. Len(call) : StandsDown(c) => StandsDown(c)' BY <1>3 DEF StandsDown
<1> QED BY <1>4, <1>5, <1>6, <1>7

\* The Host takes the next frame: a key that its cache does not hold is handled.
LEMMA CallsTakeFrame ==
    ASSUME CallsInv, link.peer = "peer", link.up # <<>>, ChainFree, Cached(link.up[1].key) = {},
           handling' = handling \cup {link.up[1]}, link' = [link EXCEPT !.up = Tail(link.up)],
           UNCHANGED <<cache, invoked, client, call>>
    PROVE  CallsInv'
<1> DEFINE f == link.up[1]
           u == Tail(link.up)
<1>1. /\ CallsTyped /\ InvokedOnce /\ LinkPhases /\ UpFits /\ HandlingFits /\ DownFits /\ CacheFits
      /\ HandledIsNew /\ ConnectionsFit /\ OwnAnswers /\ PendingFits
    BY DEF CallsInv
<1>2. /\ u \in Seq(UpFrame) /\ Len(link.up) \in Nat \ {0} /\ Len(u) = Len(link.up) - 1
      /\ \A i \in 1 .. Len(u) : i + 1 \in 1 .. Len(link.up) /\ u[i] = link.up[i + 1]
      /\ \A i \in 1 .. Len(link.up) : i # 1 => i - 1 \in 1 .. Len(u) /\ u[i - 1] = link.up[i]
    BY <1>1, CallsFields, TailElements
<1>3. f \in CallFrame /\ IsOf(f) /\ f.on = client.connection
  <2>1. 1 \in 1 .. Len(link.up) BY <1>2
  <2> QED BY <1>1, <2>1 DEF UpFits
<1> HIDE DEF u
<1>4. link'.peer = "peer" /\ link'.up = u /\ link'.down = link.down /\ link' \in LinkRecord
    BY <1>1, <1>2 DEF CallsTyped, LinkRecord, u
<1>5. handling' = handling \cup {f} /\ \A g \in handling : g.on # f.on BY <1>3 DEF ChainFree
<1>6. \A m \in 1 .. Len(cache) : cache[m].key # f.key BY DEF Cached
<1> HIDE DEF f
<1>7. CallsTyped' BY <1>1, <1>3, <1>4, <1>5 DEF CallsTyped
<1>8. InvokedOnce' BY <1>1 DEF InvokedOnce
<1>9. LinkPhases' BY <1>1, <1>4, NoLinkTyped DEF LinkPhases
<1>10. UpFits' BY <1>1, <1>2, <1>4 DEF UpFits, IsOf
<1>11. HandlingFits'
  <2>1. client.connection \in Nat BY <1>1, CallsFields
  <2>2. \A g \in handling' : IsOf(g) /\ g.on <= client.connection BY <1>1, <1>3, <1>5, <2>1 DEF HandlingFits
  <2>3. \A g, h \in handling' : g.on = h.on => g = h BY <1>1, <1>5 DEF HandlingFits
  <2> QED BY <2>2, <2>3 DEF HandlingFits, IsOf
<1>12. DownFits' BY <1>1, <1>4 DEF DownFits, DoneFor
<1>13. CacheFits' BY <1>1 DEF CacheFits, DoneFor
<1>14. \A i \in 1 .. Len(invoked) :
          invoked[i].connection = f.on /\ invoked[i].key = f.key => Cardinality(KeysAfter(i)) >= MaxEntries
  <2> SUFFICES ASSUME NEW i \in 1 .. Len(invoked), invoked[i].connection = f.on, invoked[i].key = f.key
               PROVE  Cardinality(KeysAfter(i)) >= MaxEntries
      OBVIOUS
  <2>1. ~\E m \in 1 .. Len(cache) : cache[m].of = i BY <1>1, <1>6 DEF CacheFits
  <2>2. Len(cache) = MaxEntries /\ i < cache[1].of BY <1>1, <1>3, <2>1 DEF CacheFits
  <2> QED BY <1>1, <2>2, CachedKeys
<1>15. HandledIsNew'
  <2>1. \A g \in handling' : g.on = client.connection => \A m \in 1 .. Len(cache) : cache[m].key # g.key
      BY <1>1, <1>5, <1>6 DEF HandledIsNew
  <2>2. \A g \in handling' : \A i \in 1 .. Len(invoked) :
           invoked[i].connection = g.on /\ invoked[i].key = g.key => Cardinality(KeysAfter(i)) >= MaxEntries
      BY <1>1, <1>5, <1>14 DEF HandledIsNew
  <2> QED BY <2>1, <2>2 DEF HandledIsNew, KeysAfter
<1>16. ConnectionsFit' BY <1>1, <1>4, NoLinkTyped DEF ConnectionsFit, NoLink
<1>17. OwnAnswers' BY <1>1 DEF OwnAnswers, DoneFor
<1>18. PendingFits'
  <2> SUFFICES ASSUME NEW c \in 1 .. Len(call), call[c].status = "pending", client.state # "left"
               PROVE  client.state = "accepted" /\ (StandsUp(c)' \/ StandsHandled(c)' \/ StandsDown(c)')
      BY DEF PendingFits
  <2>1. client.state = "accepted" /\ (StandsUp(c) \/ StandsHandled(c) \/ StandsDown(c)) BY <1>1 DEF PendingFits
  <2>2. StandsUp(c) => StandsUp(c)' \/ StandsHandled(c)'
    <3> SUFFICES ASSUME NEW i \in 1 .. Len(link.up), link.up[i].id = c PROVE StandsUp(c)' \/ StandsHandled(c)'
        BY DEF StandsUp
    <3>1. CASE i = 1 BY <1>3, <1>5, <3>1 DEF StandsHandled, f
    <3>2. CASE i # 1
      <4>1. i - 1 \in 1 .. Len(u) /\ u[i - 1] = link.up[i] BY <1>2, <3>2
      <4> QED BY <1>4, <4>1 DEF StandsUp
    <3> QED BY <3>1, <3>2
  <2>3. StandsHandled(c) => StandsHandled(c)' BY <1>5 DEF StandsHandled
  <2>4. StandsDown(c) => StandsDown(c)' BY <1>4 DEF StandsDown
  <2> QED BY <2>1, <2>2, <2>3, <2>4
<1> QED BY <1>7, <1>8, <1>9, <1>10, <1>11, <1>12, <1>13, <1>15, <1>16, <1>17, <1>18 DEF CallsInv

\* The Host takes the next frame and answers it at once.
LEMMA CallsAnswerFrame ==
    ASSUME CallsInv, link.peer = "peer", link.up # <<>>, NEW frame \in ResultFrame, frame.id = link.up[1].id,
           frame.ok => DoneFor(frame.of, link.up[1].key, link.up[1].request),
           NEW l, l = [link EXCEPT !.up = Tail(link.up)], Reply(frame, l),
           UNCHANGED <<cache, handling, invoked, client, call>>
    PROVE  CallsInv'
<1> DEFINE f == link.up[1]
           u == Tail(link.up)
<1>1. CallsTyped /\ LinkPhases /\ UpFits /\ ConnectionsFit /\ PendingFits /\ client \in ClientRecord
    BY DEF CallsInv, CallsTyped
<1>2. /\ u \in Seq(UpFrame) /\ Len(link.up) \in Nat \ {0} /\ Len(u) = Len(link.up) - 1
      /\ \A i \in 1 .. Len(u) : i + 1 \in 1 .. Len(link.up) /\ u[i] = link.up[i + 1]
      /\ \A i \in 1 .. Len(link.up) : i # 1 => i - 1 \in 1 .. Len(u) /\ u[i - 1] = link.up[i]
    BY <1>1, CallsFields, TailElements
<1>3. IsOf(f)
  <2>1. 1 \in 1 .. Len(link.up) BY <1>2
  <2> QED BY <1>1, <2>1 DEF UpFits
<1>4. frame.id \in 1 .. Len(call) /\ (frame.ok => DoneFor(frame.of, call[frame.id].key, call[frame.id].request))
    BY <1>3 DEF IsOf
<1> HIDE DEF u
<1>5. l.peer = "peer" /\ l.up = u /\ l.down = link.down /\ l \in LinkRecord
    BY <1>1, <1>2 DEF CallsTyped, LinkRecord, u
<1>6. CASE EndLink
  <2>1. EndedLink BY <1>1, <1>6, EndLinkEnds
  <2>2. CallsTyped' /\ InvokedOnce' /\ HandlingFits' /\ CacheFits' /\ HandledIsNew' /\ OwnAnswers'
      BY <2>1, CallsFrame DEF EndedLink
  <2>3. LinkPhases' /\ UpFits' /\ DownFits' /\ PendingFits' /\ link' # NoLink BY <2>1, EndedKeeps
  <2>4. link'.peer = "none" BY <2>1 DEF EndedLink
  <2>5. ConnectionsFit' BY <1>1, <2>3, <2>4 DEF ConnectionsFit, NoLink
  <2> QED BY <2>2, <2>3, <2>5 DEF CallsInv
<1>7. CASE link' = [l EXCEPT !.down = Append(l.down, frame)]
  <2>1. frame \in DownFrame BY DEF DownFrame
  <2>2. Append(link.down, frame) \in Seq(DownFrame) BY <1>1, <2>1, CallsFields, AppendElements
  <2>3. /\ link'.peer = "peer" /\ link'.up = u /\ link'.down = Append(link.down, frame) /\ link' \in LinkRecord
      BY <1>5, <1>7, <2>2 DEF LinkRecord
  <2>4. CallsTyped' /\ InvokedOnce' /\ HandlingFits' /\ CacheFits' /\ HandledIsNew' /\ OwnAnswers'
      BY <2>3, CallsFrame
  <2>5. /\ LinkPhases' /\ DownFits' /\ StandsDown(frame.id)'
        /\ \A c \in 1 .. Len(call) : StandsDown(c) => StandsDown(c)'
      BY <1>4, <2>3, AnsweredKeeps DEF DoneFor
  <2>6. UpFits'
    <3> SUFFICES ASSUME NEW i \in 1 .. Len(u)
                 PROVE  u[i] \in CallFrame /\ IsOf(u[i]) /\ u[i].on = client.connection
        BY <2>3 DEF UpFits, IsOf
    <3>1. i + 1 \in 1 .. Len(link.up) /\ u[i] = link.up[i + 1] BY <1>2
    <3> QED BY <1>1, <3>1 DEF UpFits
  <2>7. ConnectionsFit' BY <1>1, <2>3, NoLinkTyped DEF ConnectionsFit, NoLink
  <2>8. PendingFits'
    <3> SUFFICES ASSUME NEW c \in 1 .. Len(call), call[c].status = "pending", client.state # "left"
                 PROVE  client.state = "accepted" /\ (StandsUp(c)' \/ StandsHandled(c)' \/ StandsDown(c)')
        BY DEF PendingFits
    <3>1. client.state = "accepted" /\ (StandsUp(c) \/ StandsHandled(c) \/ StandsDown(c)) BY <1>1 DEF PendingFits
    <3>2. StandsUp(c) => StandsUp(c)' \/ StandsDown(c)'
      <4> SUFFICES ASSUME NEW i \in 1 .. Len(link.up), link.up[i].id = c PROVE StandsUp(c)' \/ StandsDown(c)'
          BY DEF StandsUp
      <4>1. CASE i = 1
        <5>1. c = frame.id BY <4>1
        <5> QED BY <2>5, <5>1
      <4>2. CASE i # 1
        <5>1. i - 1 \in 1 .. Len(u) /\ u[i - 1] = link.up[i] BY <1>2, <4>2
        <5> QED BY <2>3, <5>1 DEF StandsUp
      <4> QED BY <4>1, <4>2
    <3>3. StandsHandled(c) => StandsHandled(c)' BY DEF StandsHandled
    <3> QED BY <2>5, <3>1, <3>2, <3>3
  <2> QED BY <2>4, <2>5, <2>6, <2>7, <2>8 DEF CallsInv
<1> QED BY <1>5, <1>6, <1>7, ReplyCases

\* The Host takes the next frame of a connection.
LEMMA CallsHandleFrame ==
    ASSUME CallsInv, HandleCallFrame
    PROVE  CallsInv'
<1>1. /\ CallsTyped /\ UpFits /\ CacheFits /\ link.peer = "peer" /\ link.up # <<>> /\ ChainFree
      /\ UNCHANGED <<cache, invoked, client, call>>
    BY DEF CallsInv, HandleCallFrame
<1>2. Head(link.up) = link.up[1] /\ 1 \in 1 .. Len(link.up) BY <1>1, CallsFields, TailElements
<1>3. link.up[1] \in CallFrame BY <1>1, <1>2 DEF UpFits
<1> DEFINE f == link.up[1]
           l == [link EXCEPT !.up = Tail(link.up)]
           bad == [ok |-> FALSE, of |-> 0]
<1>4. \/ Cached(f.key) = {} /\ handling' = handling \cup {f} /\ link' = l
      \/ /\ UNCHANGED handling
         /\ \E i \in Cached(f.key) :
               \/ SameRequest(cache[i], f) /\ Reply(ResultMessage(f.id, cache[i]), l)
               \/ Reply(ResultMessage(f.id, bad), l)
    BY <1>2 DEF HandleCallFrame
<1>5. CASE Cached(f.key) = {} /\ handling' = handling \cup {f} /\ link' = l
    BY <1>1, <1>5, CallsTakeFrame
<1>6. ASSUME UNCHANGED handling, NEW i \in Cached(f.key), SameRequest(cache[i], f), Reply(ResultMessage(f.id, cache[i]), l)
      PROVE  CallsInv'
  <2> DEFINE frame == ResultMessage(f.id, cache[i])
  <2>1. i \in 1 .. Len(cache) /\ cache[i].key = f.key /\ cache[i].request = f.request
      BY <1>6 DEF Cached, SameRequest
  <2>2. cache[i].ok \in BOOLEAN /\ cache[i].of \in Nat /\ f.id \in Nat BY <1>1, <1>3, <2>1, CacheFields, FrameFields
  <2>3. frame \in ResultFrame /\ frame.id = f.id /\ frame.ok = cache[i].ok /\ frame.of = cache[i].of
      BY <2>2, ResultFrames
  <2>4. cache[i].ok => DoneFor(cache[i].of, f.key, f.request) BY <1>1, <2>1 DEF CacheFits
  <2> HIDE DEF frame
  <2>5. Reply(frame, l) BY <1>6 DEF frame
  <2>6. frame.ok => DoneFor(frame.of, f.key, f.request) BY <2>3, <2>4
  <2> HIDE DEF l
  <2>7. l = [link EXCEPT !.up = Tail(link.up)] BY DEF l
  <2> QED BY <1>1, <1>6, <2>3, <2>5, <2>6, <2>7, CallsAnswerFrame
<1>7. ASSUME UNCHANGED handling, Reply(ResultMessage(f.id, bad), l)
      PROVE  CallsInv'
  <2> DEFINE frame == ResultMessage(f.id, bad)
  <2>2. f.id \in Nat /\ bad.ok = FALSE /\ bad.of = 0 BY <1>3, FrameFields
  <2>3. frame \in ResultFrame /\ frame.id = f.id /\ frame.ok = FALSE BY <2>2 DEF ResultMessage, ResultFrame
  <2> HIDE DEF frame
  <2>5. Reply(frame, l) BY <1>7 DEF frame
  <2> HIDE DEF l
  <2>7. l = [link EXCEPT !.up = Tail(link.up)] BY DEF l
  <2> QED BY <1>1, <1>7, <2>3, <2>5, <2>7, CallsAnswerFrame
<1> QED BY <1>4, <1>5, <1>6, <1>7

-----------------------------------------------------------------------------
\* One more invocation.
LEMMA InvokedGrows ==
    ASSUME CallsTyped, NEW x \in Invocation, invoked' = Append(invoked, x)
    PROVE  /\ invoked' \in Seq(Invocation) /\ Len(invoked) \in Nat /\ Len(invoked') = Len(invoked) + 1
           /\ invoked'[Len(invoked) + 1] = x
           /\ \A i \in 1 .. Len(invoked) : i \in 1 .. Len(invoked') /\ invoked'[i] = invoked[i]
           /\ \A i \in 1 .. Len(invoked') : i = Len(invoked) + 1 \/ i \in 1 .. Len(invoked)
BY CallsFields, AppendElements

\* The keys that were invoked after a place become more.
LEMMA KeysGrow ==
    ASSUME CallsTyped, CallsTyped', NEW x \in Invocation, invoked' = Append(invoked, x), NEW i \in 1 .. Len(invoked)
    PROVE  Cardinality(KeysAfter(i)) >= MaxEntries => Cardinality(KeysAfter(i)') >= MaxEntries
<1>1. KeysAfter(i) \subseteq KeysAfter(i)'
  <2> SUFFICES ASSUME NEW m \in i + 1 .. Len(invoked) PROVE invoked[m].key \in {invoked'[n].key : n \in i + 1 .. Len(invoked')}
      BY DEF KeysAfter
  <2>1. m \in 1 .. Len(invoked) /\ m \in i + 1 .. Len(invoked') BY InvokedGrows
  <2> QED BY <2>1, InvokedGrows
<1> DEFINE D == i + 1 .. Len(invoked')
           g == [m \in D |-> invoked'[m].key]
<1>2. IsFiniteSet(D)
  <2>1. Len(invoked') \in Nat BY InvokedGrows
  <2> QED BY <2>1, FS_Interval
<1>3. g \in Surjection(D, KeysAfter(i)') BY DEF Surjection, KeysAfter
<1>4. IsFiniteSet(KeysAfter(i)') BY <1>2, <1>3, FS_Surjection
<1> DEFINE K == KeysAfter(i)'
<1>5. IsFiniteSet(K) /\ KeysAfter(i) \in SUBSET K BY <1>1, <1>4
<1> HIDE DEF K
<1>6. Cardinality(KeysAfter(i)) <= Cardinality(K) /\ Cardinality(K) \in Nat BY <1>5, FS_Subset, FS_CardinalityType
<1>7. Cardinality(KeysAfter(i)) \in Nat BY KeysFinite
<1> QED BY <1>6, <1>7, CallsConstants DEF K

\* A call that was handled is invoked for the first time, or after many others.
LEMMA InvokedOnceKept ==
    ASSUME CallsInv, NEW f \in handling, NEW x \in Invocation, x.connection = f.on, x.key = f.key,
           invoked' = Append(invoked, x)
    PROVE  InvokedOnce'
<1> DEFINE n == Len(invoked) + 1
<1>1. CallsTyped /\ InvokedOnce /\ HandledIsNew BY DEF CallsInv
<1>2. /\ Len(invoked) \in Nat /\ Len(invoked') = n /\ invoked'[n] = x
      /\ \A i \in 1 .. Len(invoked) : invoked'[i] = invoked[i]
      /\ \A i \in 1 .. Len(invoked') : i = n \/ i \in 1 .. Len(invoked)
    BY <1>1, InvokedGrows
<1> SUFFICES ASSUME NEW i \in 1 .. Len(invoked'), NEW j \in 1 .. Len(invoked'), i < j,
                    invoked'[i].key = invoked'[j].key, invoked'[i].connection = invoked'[j].connection
             PROVE  Cardinality({invoked'[m].key : m \in i + 1 .. j - 1}) >= MaxEntries
    BY DEF InvokedOnce
<1>3. {invoked'[m].key : m \in i + 1 .. j - 1} = {invoked[m].key : m \in i + 1 .. j - 1}
  <2>1. \A m \in i + 1 .. j - 1 : m \in 1 .. Len(invoked) BY <1>2
  <2>2. \A m \in i + 1 .. j - 1 : invoked'[m].key = invoked[m].key BY <1>2, <2>1
  <2> QED BY <2>2
<1>4. CASE j = n
  <2>1. i \in 1 .. Len(invoked) BY <1>2, <1>4
  <2>2. invoked[i].connection = f.on /\ invoked[i].key = f.key BY <1>2, <1>4, <2>1
  <2>3. Cardinality(KeysAfter(i)) >= MaxEntries BY <1>1, <2>1, <2>2 DEF HandledIsNew
  <2>4. j - 1 = Len(invoked) BY <1>2, <1>4
  <2> QED BY <1>3, <2>3, <2>4 DEF KeysAfter
<1>5. CASE j \in 1 .. Len(invoked)
  <2>1. i \in 1 .. Len(invoked) BY <1>2, <1>5
  <2>2. invoked[i].key = invoked[j].key /\ invoked[i].connection = invoked[j].connection BY <1>2, <1>5, <2>1
  <2>3. Cardinality({invoked[m].key : m \in i + 1 .. j - 1}) >= MaxEntries BY <1>1, <1>5, <2>1, <2>2 DEF InvokedOnce
  <2> QED BY <1>3, <2>3
<1> QED BY <1>2, <1>4, <1>5

\* The cache, before it is trimmed and after.
LEMMA CacheKept ==
    ASSUME CallsInv, NEW f \in handling, f.on = client.connection, client' = client, NEW x \in Invocation, NEW ok \in BOOLEAN,
           x.connection = f.on, x.key = f.key, x.request = f.request, ok => x.effect,
           invoked' = Append(invoked, x),
           cache' = Trimmed(Append(cache, [key |-> f.key, request |-> f.request, ok |-> ok, of |-> Len(invoked) + 1]))
    PROVE  cache' \in Seq(CacheEntry) /\ Len(cache') <= MaxEntries /\ CacheFits'
<1> DEFINE n == Len(invoked) + 1
           e == [key |-> f.key, request |-> f.request, ok |-> ok, of |-> n]
           t == Append(cache, e)
<1>1. CallsTyped /\ HandlingFits /\ CacheFits /\ HandledIsNew BY DEF CallsInv
<1>2. /\ Len(invoked) \in Nat /\ Len(invoked') = n /\ invoked'[n] = x
      /\ \A i \in 1 .. Len(invoked) : i \in 1 .. Len(invoked') /\ invoked'[i] = invoked[i]
      /\ \A i \in 1 .. Len(invoked') : i = n \/ i \in 1 .. Len(invoked)
    BY <1>1, InvokedGrows
<1>3. f.key \in IdempotencyKey /\ f.request \in Request /\ n \in Nat BY <1>1, <1>2, FrameFields DEF CallsTyped
<1>4. e \in CacheEntry /\ e.key = f.key /\ e.request = f.request /\ e.ok = ok /\ e.of = n BY <1>3 DEF CacheEntry
<1> HIDE DEF e
<1>5. /\ t \in Seq(CacheEntry) /\ Len(cache) \in Nat /\ Len(t) = Len(cache) + 1 /\ t[Len(cache) + 1] = e /\ t # <<>>
      /\ \A m \in 1 .. Len(cache) : m \in 1 .. Len(t) /\ t[m] = cache[m]
      /\ \A m \in 1 .. Len(t) : m = Len(cache) + 1 \/ m \in 1 .. Len(cache)
    BY <1>1, <1>4, CallsFields, AppendElements
<1>6. cache' = IF Len(t) > MaxEntries THEN Tail(t) ELSE t BY DEF Trimmed, t, e
<1>7. Len(cache) <= MaxEntries /\ MaxEntries \in Nat \ {0} BY <1>1, CallsFields, CallsConstants
<1> HIDE DEF t, n
<1>8. \A m \in 1 .. Len(t) :
         /\ t[m].of \in 1 .. Len(invoked') /\ invoked'[t[m].of].key = t[m].key
         /\ t[m].ok => /\ invoked'[t[m].of].effect /\ invoked'[t[m].of].request = t[m].request
  <2> SUFFICES ASSUME NEW m \in 1 .. Len(t)
               PROVE  /\ t[m].of \in 1 .. Len(invoked') /\ invoked'[t[m].of].key = t[m].key
                      /\ t[m].ok => /\ invoked'[t[m].of].effect /\ invoked'[t[m].of].request = t[m].request
      OBVIOUS
  <2>1. CASE m = Len(cache) + 1
    <3>1. n \in 1 .. Len(invoked') BY <1>2 DEF n
    <3> QED BY <1>2, <1>4, <1>5, <2>1, <3>1
  <2>2. CASE m \in 1 .. Len(cache)
    <3>1. /\ cache[m].of \in 1 .. Len(invoked) /\ invoked[cache[m].of].key = cache[m].key
          /\ cache[m].ok => DoneFor(cache[m].of, cache[m].key, cache[m].request)
        BY <1>1, <2>2 DEF CacheFits
    <3>2. t[m] = cache[m] /\ cache[m].of \in 1 .. Len(invoked') /\ invoked'[cache[m].of] = invoked[cache[m].of]
        BY <1>2, <1>5, <2>2, <3>1
    <3> QED BY <3>1, <3>2 DEF DoneFor
  <2> QED BY <1>5, <2>1, <2>2
<1>9. \A m, k \in 1 .. Len(t) : m < k => t[m].of < t[k].of /\ t[m].key # t[k].key
  <2> SUFFICES ASSUME NEW m \in 1 .. Len(t), NEW k \in 1 .. Len(t), m < k
               PROVE  t[m].of < t[k].of /\ t[m].key # t[k].key
      OBVIOUS
  <2>1. m \in 1 .. Len(cache) /\ t[m] = cache[m] BY <1>5
  <2>2. CASE k = Len(cache) + 1
    <3>1. cache[m].of \in 1 .. Len(invoked) /\ cache[m].key # f.key BY <1>1, <2>1 DEF CacheFits, HandledIsNew
    <3>2. cache[m].of < n BY <1>2, <3>1 DEF n
    <3> QED BY <1>4, <1>5, <2>1, <2>2, <3>1, <3>2
  <2>3. CASE k \in 1 .. Len(cache) BY <1>1, <1>5, <2>1, <2>3 DEF CacheFits
  <2> QED BY <1>5, <2>2, <2>3
<1>10. \A i \in 1 .. Len(invoked') : invoked'[i].connection = client.connection =>
          (\E m \in 1 .. Len(t) : t[m].of = i) \/ (Len(cache) = MaxEntries /\ i < t[1].of)
  <2> SUFFICES ASSUME NEW i \in 1 .. Len(invoked'), invoked'[i].connection = client.connection
               PROVE  (\E m \in 1 .. Len(t) : t[m].of = i) \/ (Len(cache) = MaxEntries /\ i < t[1].of)
      OBVIOUS
  <2>1. CASE i = n
    <3>1. Len(cache) + 1 \in 1 .. Len(t) BY <1>5
    <3> QED BY <1>4, <1>5, <2>1, <3>1
  <2>2. CASE i \in 1 .. Len(invoked)
    <3>1. (\E m \in 1 .. Len(cache) : cache[m].of = i) \/ (Len(cache) = MaxEntries /\ i < cache[1].of)
        BY <1>1, <1>2, <2>2 DEF CacheFits
    <3>2. CASE \E m \in 1 .. Len(cache) : cache[m].of = i BY <1>5, <3>2
    <3>3. CASE Len(cache) = MaxEntries /\ i < cache[1].of
      <4>1. 1 \in 1 .. Len(cache) BY <1>7, <3>3
      <4> QED BY <1>5, <3>3, <4>1
    <3> QED BY <3>1, <3>2, <3>3
  <2> QED BY <1>2, <2>1, <2>2
<1>11. CASE ~(Len(t) > MaxEntries)
  <2>1. cache' = t /\ Len(t) <= MaxEntries /\ Len(cache) # MaxEntries BY <1>5, <1>6, <1>7, <1>11
  <2>2. \A i \in 1 .. Len(invoked') : invoked'[i].connection = client.connection =>
           \E m \in 1 .. Len(cache') : cache'[m].of = i
      BY <1>10, <2>1
  <2>3. \A m, k \in 1 .. Len(cache') : m < k => cache'[m].of < cache'[k].of /\ cache'[m].key # cache'[k].key
      BY <1>9, <2>1
  <2>4. \A m \in 1 .. Len(cache') :
           /\ cache'[m].of \in 1 .. Len(invoked') /\ invoked'[cache'[m].of].key = cache'[m].key
           /\ cache'[m].ok => /\ invoked'[cache'[m].of].effect /\ invoked'[cache'[m].of].request = cache'[m].request
      BY <1>8, <2>1
  <2>5. CacheFits' BY <2>2, <2>3, <2>4 DEF CacheFits, DoneFor
  <2> QED BY <1>5, <2>1, <2>5
<1>12. CASE Len(t) > MaxEntries
  <2>1. cache' = Tail(t) /\ Len(cache) = MaxEntries BY <1>5, <1>6, <1>7, <1>12
  <2>8. /\ Tail(t) \in Seq(CacheEntry) /\ Len(Tail(t)) = Len(t) - 1
        /\ \A m \in 1 .. Len(Tail(t)) : m + 1 \in 1 .. Len(t) /\ Tail(t)[m] = t[m + 1]
        /\ \A m \in 1 .. Len(t) : m # 1 => m - 1 \in 1 .. Len(Tail(t)) /\ Tail(t)[m - 1] = t[m]
      BY <1>5, TailElements
  <2>2. /\ cache' \in Seq(CacheEntry) /\ Len(cache') = Len(t) - 1
        /\ \A m \in 1 .. Len(cache') : m + 1 \in 1 .. Len(t) /\ cache'[m] = t[m + 1]
        /\ \A m \in 1 .. Len(t) : m # 1 => m - 1 \in 1 .. Len(cache') /\ cache'[m - 1] = t[m]
      BY <2>1, <2>8
  <2>3. Len(cache') = MaxEntries BY <1>5, <2>1, <2>2
  <2>4. \A m, k \in 1 .. Len(cache') : m < k => cache'[m].of < cache'[k].of /\ cache'[m].key # cache'[k].key
    <3> SUFFICES ASSUME NEW m \in 1 .. Len(cache'), NEW k \in 1 .. Len(cache'), m < k
                 PROVE  cache'[m].of < cache'[k].of /\ cache'[m].key # cache'[k].key
        OBVIOUS
    <3>1. m + 1 \in 1 .. Len(t) /\ k + 1 \in 1 .. Len(t) /\ m + 1 < k + 1 BY <2>2
    <3> QED BY <1>9, <2>2, <3>1
  <2>5. \A i \in 1 .. Len(invoked') : invoked'[i].connection = client.connection =>
           (\E m \in 1 .. Len(cache') : cache'[m].of = i) \/ i < cache'[1].of
    <3> SUFFICES ASSUME NEW i \in 1 .. Len(invoked'), invoked'[i].connection = client.connection
                 PROVE  (\E m \in 1 .. Len(cache') : cache'[m].of = i) \/ i < cache'[1].of
        OBVIOUS
    <3>1. 1 \in 1 .. Len(t) /\ 2 \in 1 .. Len(t) /\ cache'[1] = t[2] BY <1>5, <1>7, <2>1, <2>2, <2>3
    <3>2. t[1].of < t[2].of /\ t[1].of \in Nat /\ t[2].of \in Nat BY <1>8, <1>9, <3>1
    <3>3. CASE i < t[1].of BY <3>1, <3>2, <3>3
    <3>4. ASSUME NEW m \in 1 .. Len(t), t[m].of = i
          PROVE  (\E k \in 1 .. Len(cache') : cache'[k].of = i) \/ i < cache'[1].of
      <4>1. CASE m = 1 BY <3>1, <3>2, <3>4, <4>1
      <4>2. CASE m # 1 BY <2>2, <3>4, <4>2
      <4> QED BY <4>1, <4>2
    <3> QED BY <1>10, <3>3, <3>4
  <2>6. \A m \in 1 .. Len(cache') :
           /\ cache'[m].of \in 1 .. Len(invoked') /\ invoked'[cache'[m].of].key = cache'[m].key
           /\ cache'[m].ok => /\ invoked'[cache'[m].of].effect /\ invoked'[cache'[m].of].request = cache'[m].request
    <3> SUFFICES ASSUME NEW m \in 1 .. Len(cache')
                 PROVE  /\ cache'[m].of \in 1 .. Len(invoked') /\ invoked'[cache'[m].of].key = cache'[m].key
                        /\ cache'[m].ok => /\ invoked'[cache'[m].of].effect
                                           /\ invoked'[cache'[m].of].request = cache'[m].request
        OBVIOUS
    <3>1. m + 1 \in 1 .. Len(t) /\ cache'[m] = t[m + 1] BY <2>2
    <3> QED BY <1>8, <3>1
  <2>7. CacheFits' BY <2>3, <2>4, <2>5, <2>6 DEF CacheFits, DoneFor
  <2> QED BY <1>7, <2>2, <2>3, <2>7
<1> QED BY <1>11, <1>12

\* The parts that an invocation leaves as they are, whatever its connection.
LEMMA InvokeKeeps ==
    ASSUME CallsInv, NEW f \in handling, NEW x \in Invocation,
           x.connection = f.on, x.key = f.key, invoked' = Append(invoked, x), CallsTyped', handling' = handling \ {f},
           f.on # client.connection => cache' = cache, UNCHANGED <<client, call>>
    PROVE  /\ InvokedOnce' /\ HandlingFits' /\ HandledIsNew' /\ OwnAnswers'
           /\ \A i \in 1 .. Len(invoked') : invoked'[i].connection <= client.connection
<1> DEFINE n == Len(invoked) + 1
<1>1. CallsTyped /\ HandlingFits /\ HandledIsNew /\ OwnAnswers /\ ConnectionsFit BY DEF CallsInv
<1>2. /\ Len(invoked) \in Nat /\ Len(invoked') = n /\ invoked'[n] = x
      /\ \A i \in 1 .. Len(invoked) : i \in 1 .. Len(invoked') /\ invoked'[i] = invoked[i]
      /\ \A i \in 1 .. Len(invoked') : i = n \/ i \in 1 .. Len(invoked)
    BY <1>1, InvokedGrows
<1>3. InvokedOnce' BY InvokedOnceKept
<1>4. HandlingFits' BY <1>1 DEF HandlingFits, IsOf
<1>5. \A g \in handling' : g \in handling /\ g.on # f.on BY <1>1 DEF HandlingFits
<1>6. HandledIsNew'
  <2>1. \A g \in handling' : g.on = client.connection => \A m \in 1 .. Len(cache') : cache'[m].key # g.key
      BY <1>1, <1>5 DEF HandledIsNew
  <2>2. ASSUME NEW g \in handling', NEW i \in 1 .. Len(invoked'),
               invoked'[i].connection = g.on, invoked'[i].key = g.key
        PROVE  Cardinality(KeysAfter(i)') >= MaxEntries
    <3>1. i # n BY <1>2, <1>5, <2>2
    <3>2. i \in 1 .. Len(invoked) /\ invoked'[i] = invoked[i] BY <1>2, <3>1
    <3>3. Cardinality(KeysAfter(i)) >= MaxEntries BY <1>1, <1>5, <2>2, <3>2 DEF HandledIsNew
    <3> QED BY <1>1, <3>2, <3>3, KeysGrow
  <2>3. \A g \in handling' : \A i \in 1 .. Len(invoked') :
           invoked'[i].connection = g.on /\ invoked'[i].key = g.key => Cardinality(KeysAfter(i)') >= MaxEntries
      BY <2>2
  <2> QED BY <2>1, <2>3 DEF HandledIsNew
<1>7. OwnAnswers'
  <2> SUFFICES ASSUME NEW c \in 1 .. Len(call), call[c].status = "ok"
               PROVE  /\ call[c].value \in 1 .. Len(invoked') /\ invoked'[call[c].value].effect
                      /\ invoked'[call[c].value].key = call[c].key /\ invoked'[call[c].value].request = call[c].request
      BY DEF OwnAnswers, DoneFor
  <2>1. DoneFor(call[c].value, call[c].key, call[c].request) BY <1>1 DEF OwnAnswers
  <2> QED BY <1>2, <2>1 DEF DoneFor
<1>8. \A i \in 1 .. Len(invoked') : invoked'[i].connection <= client.connection
  <2> SUFFICES ASSUME NEW i \in 1 .. Len(invoked') PROVE invoked'[i].connection <= client.connection OBVIOUS
  <2>1. CASE i = n BY <1>1, <1>2, <2>1 DEF HandlingFits
  <2>2. CASE i \in 1 .. Len(invoked) BY <1>1, <1>2, <2>2 DEF ConnectionsFit
  <2> QED BY <1>2, <2>1, <2>2
<1> QED BY <1>3, <1>4, <1>6, <1>7, <1>8

\* An operation of a connection that is over ends: nobody is answered.
LEMMA CallsInvokeLate ==
    ASSUME CallsInv, NEW f \in handling, f.on # client.connection, NEW x \in Invocation,
           x.connection = f.on, x.key = f.key, invoked' = Append(invoked, x), handling' = handling \ {f},
           UNCHANGED <<link, cache, client, call>>
    PROVE  CallsInv'
<1> DEFINE n == Len(invoked) + 1
<1>1. /\ CallsTyped /\ LinkPhases /\ UpFits /\ DownFits /\ HandlingFits /\ CacheFits /\ ConnectionsFit /\ PendingFits
    BY DEF CallsInv
<1>2. /\ invoked' \in Seq(Invocation) /\ Len(invoked) \in Nat /\ Len(invoked') = n /\ invoked'[n] = x
      /\ \A i \in 1 .. Len(invoked) : i \in 1 .. Len(invoked') /\ invoked'[i] = invoked[i]
      /\ \A i \in 1 .. Len(invoked') : i = n \/ i \in 1 .. Len(invoked)
    BY <1>1, InvokedGrows
<1> HIDE DEF n
<1>3. CallsTyped' BY <1>1, <1>2 DEF CallsTyped
<1>4. /\ InvokedOnce' /\ HandlingFits' /\ HandledIsNew' /\ OwnAnswers'
      /\ \A i \in 1 .. Len(invoked') : invoked'[i].connection <= client.connection
    BY <1>3, InvokeKeeps
<1>5. LinkPhases' BY <1>1 DEF LinkPhases, Closing
<1>6. UpFits' BY <1>1 DEF UpFits, IsOf
<1>7. DownFits'
  <2> SUFFICES ASSUME NEW i \in 1 .. Len(link.down), link.down[i].type = "result"
               PROVE  /\ link.down[i] \in ResultFrame /\ link.down[i].id \in 1 .. Len(call)
                      /\ link.down[i].ok =>
                            /\ link.down[i].of \in 1 .. Len(invoked') /\ invoked'[link.down[i].of].effect
                            /\ invoked'[link.down[i].of].key = call[link.down[i].id].key
                            /\ invoked'[link.down[i].of].request = call[link.down[i].id].request
      BY DEF DownFits, DoneFor
  <2>1. /\ link.down[i] \in ResultFrame /\ link.down[i].id \in 1 .. Len(call)
        /\ link.down[i].ok => DoneFor(link.down[i].of, call[link.down[i].id].key, call[link.down[i].id].request)
      BY <1>1 DEF DownFits
  <2> QED BY <1>2, <2>1 DEF DoneFor
<1>8. CacheFits'
  <2>1. \A m \in 1 .. Len(cache) :
           /\ cache[m].of \in 1 .. Len(invoked') /\ invoked'[cache[m].of].key = cache[m].key
           /\ cache[m].ok => /\ invoked'[cache[m].of].effect /\ invoked'[cache[m].of].request = cache[m].request
    <3> SUFFICES ASSUME NEW m \in 1 .. Len(cache)
                 PROVE  /\ cache[m].of \in 1 .. Len(invoked') /\ invoked'[cache[m].of].key = cache[m].key
                        /\ cache[m].ok => /\ invoked'[cache[m].of].effect
                                          /\ invoked'[cache[m].of].request = cache[m].request
        OBVIOUS
    <3>1. /\ cache[m].of \in 1 .. Len(invoked) /\ invoked[cache[m].of].key = cache[m].key
          /\ cache[m].ok => DoneFor(cache[m].of, cache[m].key, cache[m].request)
        BY <1>1 DEF CacheFits
    <3> QED BY <1>2, <3>1 DEF DoneFor
  <2>2. \A i \in 1 .. Len(invoked') : invoked'[i].connection = client.connection =>
           (\E m \in 1 .. Len(cache) : cache[m].of = i) \/ (Len(cache) = MaxEntries /\ i < cache[1].of)
    <3> SUFFICES ASSUME NEW i \in 1 .. Len(invoked'), invoked'[i].connection = client.connection
                 PROVE  (\E m \in 1 .. Len(cache) : cache[m].of = i) \/ (Len(cache) = MaxEntries /\ i < cache[1].of)
        OBVIOUS
    <3>1. i \in 1 .. Len(invoked) /\ invoked[i].connection = client.connection BY <1>2
    <3> QED BY <1>1, <3>1 DEF CacheFits
  <2>3. \A m, k \in 1 .. Len(cache) : m < k => cache[m].of < cache[k].of /\ cache[m].key # cache[k].key
      BY <1>1 DEF CacheFits
  <2> QED BY <2>1, <2>2, <2>3 DEF CacheFits, DoneFor
<1>9. ConnectionsFit'
  <2> SUFFICES ASSUME client.state = "opening", link = NoLink \/ link.peer = "raw"
               PROVE  /\ \A i \in 1 .. Len(invoked') : invoked'[i].connection < client.connection
                      /\ \A g \in handling' : g.on < client.connection
      BY <1>4 DEF ConnectionsFit
  <2>1. /\ \A i \in 1 .. Len(invoked) : invoked[i].connection < client.connection
        /\ \A g \in handling : g.on < client.connection
      BY <1>1 DEF ConnectionsFit
  <2> QED BY <1>2, <2>1
<1>10. PendingFits'
  <2> SUFFICES ASSUME NEW c \in 1 .. Len(call), call[c].status = "pending", client.state # "left"
               PROVE  /\ client.state = "accepted"
                      /\ link.peer = "none" \/ StandsUp(c)' \/ StandsHandled(c)' \/ StandsDown(c)'
      BY DEF PendingFits
  <2>1. /\ client.state = "accepted" /\ (link.peer = "none" \/ StandsUp(c) \/ StandsHandled(c) \/ StandsDown(c))
      BY <1>1 DEF PendingFits
  <2>2. StandsUp(c) => StandsUp(c)' BY DEF StandsUp
  <2>3. StandsHandled(c) => StandsHandled(c)' BY DEF StandsHandled
  <2>4. StandsDown(c) => StandsDown(c)' BY DEF StandsDown
  <2> QED BY <2>1, <2>2, <2>3, <2>4
<1> QED BY <1>3, <1>4, <1>5, <1>6, <1>7, <1>8, <1>9, <1>10 DEF CallsInv

\* An operation of the connection ends: its result is kept and sent.
LEMMA CallsInvokeOwn ==
    ASSUME CallsInv, NEW f \in handling, f.on = client.connection, NEW x \in Invocation, NEW ok \in BOOLEAN,
           x.connection = f.on, x.key = f.key, x.request = f.request, ok => x.effect,
           invoked' = Append(invoked, x), handling' = handling \ {f},
           NEW r, r.ok = ok, r.of = Len(invoked) + 1, Reply(ResultMessage(f.id, r), link),
           cache' = Trimmed(Append(cache, [key |-> f.key, request |-> f.request, ok |-> ok, of |-> Len(invoked) + 1])),
           UNCHANGED <<client, call>>
    PROVE  CallsInv'
<1> DEFINE n == Len(invoked) + 1
           frame == ResultMessage(f.id, r)
<1>1. /\ CallsTyped /\ LinkPhases /\ UpFits /\ DownFits /\ HandlingFits /\ ConnectionsFit /\ PendingFits
    BY DEF CallsInv
<1>2. /\ invoked' \in Seq(Invocation) /\ Len(invoked) \in Nat /\ Len(invoked') = n /\ invoked'[n] = x
      /\ \A i \in 1 .. Len(invoked) : i \in 1 .. Len(invoked') /\ invoked'[i] = invoked[i]
      /\ \A i \in 1 .. Len(invoked') : i = n \/ i \in 1 .. Len(invoked)
    BY <1>1, InvokedGrows
<1>3. f.id \in 1 .. Len(call) /\ call[f.id].key = f.key /\ call[f.id].request = f.request /\ f.id \in Nat
    BY <1>1, FrameFields DEF HandlingFits, IsOf, CallsTyped
<1>4. frame \in ResultFrame /\ frame \in DownFrame /\ frame.id = f.id /\ frame.ok = ok /\ frame.of = n
    BY <1>2, <1>3, ResultFrames
<1> HIDE DEF frame
<1>5. frame.ok => /\ frame.of \in 1 .. Len(invoked') /\ invoked'[frame.of].effect
                  /\ invoked'[frame.of].key = call[frame.id].key
                  /\ invoked'[frame.of].request = call[frame.id].request
  <2>1. n \in 1 .. Len(invoked') BY <1>2
  <2> QED BY <1>2, <1>3, <1>4, <2>1
<1>6. Reply(frame, link) BY DEF frame
<1> HIDE DEF n
<1>7. cache' \in Seq(CacheEntry) /\ Len(cache') <= MaxEntries /\ CacheFits' BY CacheKept
<1>8. ~(client.state = "opening" /\ (link = NoLink \/ link.peer = "raw"))
  <2>1. SUFFICES ASSUME client.state = "opening", link = NoLink \/ link.peer = "raw" PROVE FALSE OBVIOUS
  <2>2. f.on < client.connection BY <1>1, <2>1 DEF ConnectionsFit
  <2> QED BY <1>1, <2>2, CallsFields
<1>9. ASSUME link' \in LinkRecord, LinkPhases', UpFits', DownFits', PendingFits', link' # NoLink \/ link' = link,
             link'.peer # "raw"
      PROVE  CallsInv'
  <2>1. CallsTyped' BY <1>1, <1>2, <1>7, <1>9 DEF CallsTyped
  <2>2. /\ InvokedOnce' /\ HandlingFits' /\ HandledIsNew' /\ OwnAnswers'
        /\ \A i \in 1 .. Len(invoked') : invoked'[i].connection <= client.connection
      BY <2>1, InvokeKeeps
  <2>3. ~(client.state = "opening" /\ (link' = NoLink \/ link'.peer = "raw")) BY <1>8, <1>9
  <2>4. ConnectionsFit' BY <2>2, <2>3 DEF ConnectionsFit, NoLink
  <2> QED BY <1>7, <1>9, <2>1, <2>2, <2>4 DEF CallsInv
<1>10. CASE link.peer = "none" /\ link' = link
  <2>1. LinkPhases' BY <1>1, <1>10 DEF LinkPhases, Closing
  <2>2. UpFits' BY <1>10 DEF UpFits
  <2>3. DownFits'
    <3> SUFFICES ASSUME NEW i \in 1 .. Len(link.down), link.down[i].type = "result"
                 PROVE  /\ link.down[i] \in ResultFrame /\ link.down[i].id \in 1 .. Len(call)
                        /\ link.down[i].ok =>
                              /\ link.down[i].of \in 1 .. Len(invoked') /\ invoked'[link.down[i].of].effect
                              /\ invoked'[link.down[i].of].key = call[link.down[i].id].key
                              /\ invoked'[link.down[i].of].request = call[link.down[i].id].request
        BY <1>10 DEF DownFits, DoneFor
    <3>1. /\ link.down[i] \in ResultFrame /\ link.down[i].id \in 1 .. Len(call)
          /\ link.down[i].ok => DoneFor(link.down[i].of, call[link.down[i].id].key, call[link.down[i].id].request)
        BY <1>1 DEF DownFits
    <3> QED BY <1>2, <3>1 DEF DoneFor
  <2>4. PendingFits' BY <1>1, <1>10 DEF PendingFits
  <2>5. link' \in LinkRecord BY <1>1, <1>10 DEF CallsTyped
  <2> QED BY <1>9, <1>10, <2>1, <2>2, <2>3, <2>4, <2>5
<1>11. CASE link.peer # "none" /\ EndLink
  <2>1. EndedLink BY <1>1, <1>11, EndLinkEnds
  <2>2. LinkPhases' /\ UpFits' /\ DownFits' /\ PendingFits' /\ link' # NoLink BY <1>2, <1>11, <2>1, EndedKeeps
  <2>3. link' \in LinkRecord /\ link'.peer = "none" BY <2>1 DEF EndedLink
  <2> QED BY <1>9, <2>2, <2>3
<1>12. CASE link.peer # "none" /\ link' = [link EXCEPT !.down = Append(link.down, frame)]
  <2>1. link.peer = "peer"
    <3>1. link.peer = "raw" => client.state = "opening" BY <1>1 DEF LinkPhases
    <3> QED BY <1>1, <1>8, <1>12, <3>1, CallsFields
  <2>2. Append(link.down, frame) \in Seq(DownFrame) BY <1>1, <1>4, CallsFields, AppendElements
  <2>3. /\ link'.peer = "peer" /\ link'.up = link.up /\ link'.down = Append(link.down, frame) /\ link' \in LinkRecord
      BY <1>1, <1>12, <2>1, <2>2 DEF CallsTyped, LinkRecord
  <2>4. frame.id \in 1 .. Len(call) BY <1>3, <1>4
  <2>5. /\ LinkPhases' /\ DownFits' /\ StandsDown(frame.id)'
        /\ \A c \in 1 .. Len(call) : StandsDown(c) => StandsDown(c)'
      BY <1>2, <1>4, <1>5, <2>1, <2>3, <2>4, AnsweredKeeps
  <2>6. UpFits' BY <1>1, <2>1, <2>3 DEF UpFits, IsOf
  <2>7. PendingFits'
    <3> SUFFICES ASSUME NEW c \in 1 .. Len(call), call[c].status = "pending", client.state # "left"
                 PROVE  client.state = "accepted" /\ (StandsUp(c)' \/ StandsHandled(c)' \/ StandsDown(c)')
        BY DEF PendingFits
    <3>1. client.state = "accepted" /\ (StandsUp(c) \/ StandsHandled(c) \/ StandsDown(c))
        BY <1>1, <2>1 DEF PendingFits
    <3>2. StandsUp(c) => StandsUp(c)' BY <2>3 DEF StandsUp
    <3>3. StandsHandled(c) => StandsHandled(c)' \/ StandsDown(c)'
      <4> SUFFICES ASSUME NEW g \in handling, g.id = c, g.on = client.connection
                   PROVE  StandsHandled(c)' \/ StandsDown(c)'
          BY DEF StandsHandled
      <4>1. CASE g = f
        <5>1. c = frame.id BY <1>4, <4>1
        <5> QED BY <2>5, <5>1
      <4>2. CASE g # f BY <4>2 DEF StandsHandled
      <4> QED BY <4>1, <4>2
    <3> QED BY <2>5, <3>1, <3>2, <3>3
  <2>8. link' # NoLink BY <2>3, NoLinkTyped
  <2> QED BY <1>9, <2>3, <2>5, <2>6, <2>7, <2>8
<1> QED BY <1>6, <1>10, <1>11, <1>12, ReplyCases

\* An operation ends.
LEMMA CallsInvoke ==
    ASSUME CallsInv, NEW f \in handling, InvokeReturns(f)
    PROVE  CallsInv'
<1>1. PICK o \in InvokeOutcome :
         LET reply == [ok |-> o.ok, of |-> Len(invoked) + 1]
         IN  /\ invoked' = Append(invoked, [connection |-> f.on, key |-> f.key, request |-> f.request, effect |-> o.effect])
             /\ IF f.on = client.connection
                THEN /\ cache' = CacheResult(f, reply)
                     /\ Reply(ResultMessage(f.id, reply), link)
                ELSE UNCHANGED <<cache, link>>
    BY DEF InvokeReturns
<1>2. handling' = handling \ {f} /\ UNCHANGED <<client, call>> BY DEF InvokeReturns
<1>3. o.ok \in BOOLEAN /\ o.effect \in BOOLEAN /\ (o.ok => o.effect)
  <2>1. \/ o.effect = FALSE /\ o.ok = FALSE
        \/ o.effect = TRUE /\ o.ok = FALSE
        \/ o.effect = TRUE /\ o.ok = TRUE
      BY DEF InvokeOutcome
  <2> QED BY <2>1, Zenon
<1> DEFINE x == [connection |-> f.on, key |-> f.key, request |-> f.request, effect |-> o.effect]
           r == [ok |-> o.ok, of |-> Len(invoked) + 1]
<1>4. f.key \in IdempotencyKey /\ f.request \in Request /\ f.on \in Nat BY FrameFields DEF CallsInv, CallsTyped
<1>5. /\ x \in Invocation /\ x.connection = f.on /\ x.key = f.key /\ x.request = f.request /\ x.effect = o.effect
    BY <1>3, <1>4 DEF Invocation
<1>6. invoked' = Append(invoked, x) BY <1>1
<1>7. r.ok = o.ok /\ r.of = Len(invoked) + 1 OBVIOUS
<1>8. f.on = client.connection =>
         /\ cache' = Trimmed(Append(cache, [key |-> f.key, request |-> f.request, ok |-> o.ok, of |-> Len(invoked) + 1]))
         /\ Reply(ResultMessage(f.id, r), link)
    BY <1>1 DEF CacheResult
<1>9. f.on # client.connection => UNCHANGED <<cache, link>> BY <1>1
<1> HIDE DEF x, r
<1>10. CASE f.on = client.connection
  <2>1. o.ok => x.effect BY <1>3, <1>5
  <2> QED BY <1>2, <1>3, <1>5, <1>6, <1>7, <1>8, <1>10, <2>1, CallsInvokeOwn
<1>11. CASE f.on # client.connection BY <1>2, <1>5, <1>6, <1>9, <1>11, CallsInvokeLate
<1> QED BY <1>10, <1>11

-----------------------------------------------------------------------------
\* Every step of the protocol keeps the invariant.
LEMMA CallsNextKeeps ==
    ASSUME CallsInv, [CallsNext]_callVars
    PROVE  CallsInv'
<1>1. CASE CallsNext
  <2>1. ASSUME NEW f \in handling, InvokeReturns(f) PROVE CallsInv' BY <2>1, CallsInvoke
  <2>2. ASSUME NEW k \in IdempotencyKey, NEW r \in Request, SendCall(k, r) PROVE CallsInv' BY <2>2, CallsSend
  <2>3. ASSUME NEW c \in DOMAIN call, CallTimeout(c) PROVE CallsInv' BY <2>3, CallsTimeout
  <2> QED
    BY <1>1, <2>1, <2>2, <2>3, CallsRefuseUpgrade, CallsAcceptUpgrade, CallsOpenFrame, CallsHandshakeTimeout,
       CallsHandleFrame, CallsPeerCloses, CallsOpenConnection, CallsConnectTimeout, CallsReceiveFrame,
       CallsCloseClient, CallsReopen
       DEF CallsNext
<1>2. CASE UNCHANGED callVars
  <2>1. /\ link' = link /\ cache' = cache /\ handling' = handling /\ invoked' = invoked /\ client' = client
        /\ call' = call
      BY <1>2 DEF callVars
  <2>2. link' \in LinkRecord BY <2>1 DEF CallsInv, CallsTyped
  <2>3. CallsTyped' /\ InvokedOnce' /\ HandlingFits' /\ CacheFits' /\ HandledIsNew' /\ OwnAnswers'
      BY <2>1, <2>2, CallsFrame
  <2>4. LinkPhases' BY <2>1 DEF CallsInv, LinkPhases, Closing
  <2>5. UpFits' BY <2>1 DEF CallsInv, UpFits, IsOf
  <2>6. DownFits' BY <2>1 DEF CallsInv, DownFits, DoneFor
  <2>7. ConnectionsFit' BY <2>1 DEF CallsInv, ConnectionsFit
  <2>8. PendingFits' BY <2>1 DEF CallsInv, PendingFits, StandsUp, StandsHandled, StandsDown
  <2> QED BY <2>3, <2>4, <2>5, <2>6, <2>7, <2>8 DEF CallsInv
<1> QED BY <1>1, <1>2

\* The strengthened invariant holds of every behaviour of the protocol
\* (protocol-server.ts, operation-registry.ts, local-protocol-client.ts).
THEOREM CallsInductive == CallsSpec => []CallsInv
<1>1. CallsInit => CallsInv BY CallsInitKeeps
<1>2. CallsInv /\ [CallsNext]_callVars => CallsInv' BY CallsNextKeeps
<1> QED BY <1>1, <1>2, PTL DEF CallsSpec

\* On one connection a key is invoked again only after as many other keys as the
\* cache holds, a call that succeeds has the result of its own operation, and no
\* call stays pending on a connection that is over, unless the client closed it:
\* for any number of connections, calls, entries and frames on the way.
THEOREM CallsCorrect == CallsSpec => []CallsAgree
<1>1. CallsInv => CallsAgree BY CallsInvImplies
<1> QED BY <1>1, CallsInductive, PTL
=============================================================================
