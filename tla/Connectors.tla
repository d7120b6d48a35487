----------------------------- MODULE Connectors -----------------------------
(***************************************************************************)
(* The durable connector runtime: packages/connectors (service and         *)
(* adapter registry) over state/connector-repository, with the provider    *)
(* behind the Mattermost client.                                           *)
(*                                                                         *)
(* One account of one connector.  An external event becomes an ingress     *)
(* row, is claimed under a lease and adopted as a message and a Run; the   *)
(* answer of the Run becomes a delivery, which is claimed, marked as       *)
(* dispatched, posted and finished.  A claim token is the worker that took *)
(* it, or NoClaim; a token whose worker died with the Host is Orphan.      *)
(*                                                                         *)
(* Clocks are left out: any claim may have reached its deadline when the   *)
(* next claim looks for expired ones, since a handler may take longer than *)
(* the lease, and a row that waits for its retry is available again.       *)
(***************************************************************************)
EXTENDS Naturals, FiniteSets

CONSTANTS
    Inbound,          \* external event ids
    Reader,           \* the drains of ingress that may overlap
    Sender,           \* the drains of deliveries: the pump's and the terminal hook's
    MaxDeliveryAttempts,
    MaxConnCrashes,   \* bound on the crashes of the Host
    MaxDisabled       \* bound on the times the account loses its authority

ASSUME ConnectorAssumption ==
    /\ MaxDeliveryAttempts \in Nat \ {0}
    /\ MaxConnCrashes \in Nat /\ MaxDisabled \in Nat
    /\ Reader \cap Sender = {}

VARIABLES
    account,          \* whether the account is ENABLED and its workspace configured
    ingress,          \* connector_ingress_events: status and claim
    crun,             \* the Run of an event: NONE, QUEUED, COMPLETED or OTHER
    outbound,         \* connector_deliveries with the attempt of the current claim
    letters,          \* the OPEN dead letters, by kind and event
    receipts,         \* events whose delivery has a receipt
    posted,           \* external: the posts the provider accepted, per event
    at,               \* where a worker is, and the event it holds
    projected,        \* Runs that ended and whose terminal hook is due
    connHost,         \* "up" or "down"
    connCrashes, disabled

connRow == <<account, ingress, crun, outbound, letters, receipts>>
connVars == <<connRow, posted, at, projected, connHost, connCrashes, disabled>>

NoClaim == "NONE"
Orphan == "ORPHAN"
AtRest == [pc |-> "idle", event |-> "NONE"]
Answers == {"accepted", "suppressed", "maybe", "again", "never"}
Disposition == {"message", "ignored", "invalid"}
Settled == {"DELIVERED", "SUPPRESSED", "UNCERTAIN", "DEAD"}

IngressRow == [status : {"ABSENT", "RECEIVED", "CLAIMED", "ADOPTED", "IGNORED", "DEAD"},
               claim : Reader \cup {NoClaim, Orphan}, says : Disposition]
\* A delivery with its current attempt.
OutboundRow == [status : {"ABSENT", "PENDING", "DELIVERING"} \cup Settled, tries : 0 .. MaxDeliveryAttempts,
                attempt : {"NONE", "CLAIMED", "DISPATCHED", "ACCEPTED", "REJECTED", "ABANDONED", "UNCERTAIN"},
                claim : Sender \cup {NoClaim, Orphan}]
Letter == {"INGRESS", "DELIVERY"} \X Inbound

ConnTypeOK ==
    /\ account \in BOOLEAN
    /\ ingress \in [Inbound -> IngressRow]
    /\ crun \in [Inbound -> {"NONE", "QUEUED", "COMPLETED", "OTHER"}]
    /\ outbound \in [Inbound -> OutboundRow]
    /\ letters \subseteq Letter
    /\ receipts \subseteq Inbound /\ projected \subseteq Inbound
    /\ posted \in [Inbound -> 0 .. MaxDeliveryAttempts]
    /\ at \in [Reader \cup Sender ->
                 [pc : {"idle", "normalizing", "claimed", "posting"} \cup Answers, event : Inbound \cup {"NONE"}]]
    /\ connHost \in {"up", "down"}
    /\ connCrashes \in 0 .. MaxConnCrashes /\ disabled \in 0 .. MaxDisabled

ConnInit ==
    /\ account = TRUE
    /\ ingress = [e \in Inbound |-> [status |-> "ABSENT", claim |-> NoClaim, says |-> "ignored"]]
    /\ crun = [e \in Inbound |-> "NONE"]
    /\ outbound = [e \in Inbound |-> [status |-> "ABSENT", tries |-> 0, attempt |-> "NONE", claim |-> NoClaim]]
    /\ letters = {} /\ receipts = {} /\ projected = {}
    /\ posted = [e \in Inbound |-> 0]
    /\ at = [w \in Reader \cup Sender |-> AtRest]
    /\ connHost = "up" /\ connCrashes = 0 /\ disabled = 0

\* A worker between its claim and its dispatch holds the event loop.
MayAct(w) == connHost = "up" /\ \A v \in Sender : at[v].pc = "claimed" => v = w
Goes(w, pc, e) == at' = [at EXCEPT ![w] = [pc |-> pc, event |-> e]]
Rests(w) == at' = [at EXCEPT ![w] = AtRest]

----------------------------------------------------------------------------
\* Accounts: registerAccount sets the status, a new configuration the workspace.
RegisterAccount(on) ==
    /\ account # on /\ (~on => disabled < MaxDisabled)
    /\ account' = on
    /\ disabled' = IF on THEN disabled ELSE disabled + 1
    /\ UNCHANGED <<ingress, crun, outbound, letters, receipts, posted, at, projected, connHost, connCrashes>>

\* What an event of the provider can be: a post or not, well formed, consistent
\* with its broadcast, by the bot or the system, direct, with a mention, empty.
Shape == [posted : BOOLEAN, valid : BOOLEAN, own : BOOLEAN, system : BOOLEAN,
          addressed : BOOLEAN, empty : BOOLEAN]

\* normalizeMattermostIngress: what a claim of this payload will be told.
NormalizeIngress(p) ==
    CASE ~p.posted -> "ignored"
      [] p.posted /\ ~p.valid -> "invalid"
      [] p.posted /\ p.valid /\ (p.own \/ p.system \/ ~p.addressed \/ p.empty) -> "ignored"
      [] OTHER -> "message"

\* receiveIngress: the event is stored once; a redelivery is a replay, and one
\* with another content is refused.
ReceiveIngress(e, p) ==
    /\ connHost = "up" /\ account /\ ingress[e].status = "ABSENT"
    /\ ingress' = [ingress EXCEPT ![e].status = "RECEIVED", ![e].says = NormalizeIngress(p)]
    /\ UNCHANGED <<account, crun, outbound, letters, receipts, posted, at, projected, connHost, connCrashes, disabled>>

----------------------------------------------------------------------------
\* Ingress.

Claimed(rows) == {e \in Inbound : rows[e].status \in {"CLAIMED", "DELIVERING"}}

\* #recoverExpiredIngressWithRepositories for the claims X that expired.
IngressRecovered(X) ==
    [e \in Inbound |-> IF e \in X THEN [ingress[e] EXCEPT !.status = "RECEIVED", !.claim = NoClaim] ELSE ingress[e]]

\* claimIngress and updateIngressClaim of the repository: both ask for the row
\* as it was read, and set or release its claim.
TakeIngress(rows, e, w) == [rows EXCEPT ![e].status = "CLAIMED", ![e].claim = w]
UpdateIngressClaim(e, s) == ingress' = [ingress EXCEPT ![e].status = s, ![e].claim = NoClaim]

\* claimIngress: expired claims first, then the oldest row that is available.
ClaimIngress(w, X, e) ==
    /\ MayAct(w) /\ account /\ at[w] = AtRest /\ X \subseteq Claimed(ingress)
    /\ IngressRecovered(X)[e].status = "RECEIVED"
    /\ ingress' = TakeIngress(IngressRecovered(X), e, w)
    /\ Goes(w, "normalizing", e)
    /\ UNCHANGED <<account, crun, outbound, letters, receipts, posted, projected, connHost, connCrashes, disabled>>

\* #requireIngressClaim and updateIngressClaim: the token still owns the row.
OwnsIngress(w) == LET i == ingress[at[w].event] IN i.status = "CLAIMED" /\ i.claim = w

\* adoptIngress: binding, message, Run and row in one transaction.
AdoptIngress(w) ==
    LET e == at[w].event
    IN  /\ MayAct(w) /\ at[w].pc = "normalizing" /\ OwnsIngress(w) /\ account
        /\ ingress[e].says = "message"
        /\ UpdateIngressClaim(e, "ADOPTED")
        /\ crun' = [crun EXCEPT ![e] = "QUEUED"]
        /\ Rests(w)
        /\ UNCHANGED <<account, outbound, letters, receipts, posted, projected, connHost, connCrashes, disabled>>

\* #deadLetter
DeadLetter(kind, e) == letters \cup {<<kind, e>>}

\* ignoreIngress.
IgnoreIngress(w) ==
    /\ MayAct(w) /\ at[w].pc = "normalizing" /\ OwnsIngress(w)
    /\ ingress[at[w].event].says = "ignored"
    /\ UpdateIngressClaim(at[w].event, "IGNORED")
    /\ Rests(w)
    /\ UNCHANGED <<account, crun, outbound, letters, receipts, posted, projected, connHost, connCrashes, disabled>>

\* failIngress: an invalid event is a dead letter, any other error (an adoption
\* that was refused, a handler that failed) is tried again for ever.
FailIngress(w, retryable) ==
    LET e == at[w].event
    IN  /\ MayAct(w) /\ at[w].pc = "normalizing" /\ OwnsIngress(w)
        /\ ~retryable <=> ingress[e].says = "invalid"
        /\ UpdateIngressClaim(e, IF retryable THEN "RECEIVED" ELSE "DEAD")
        /\ letters' = IF retryable THEN letters ELSE DeadLetter("INGRESS", e)
        /\ Rests(w)
        /\ UNCHANGED <<account, crun, outbound, receipts, posted, projected, connHost, connCrashes, disabled>>

\* A worker whose claim was taken over throws, and its drain ends.
LoseIngress(w) ==
    /\ MayAct(w) /\ at[w].pc = "normalizing" /\ ~OwnsIngress(w)
    /\ Rests(w)
    /\ UNCHANGED <<connRow, posted, projected, connHost, connCrashes, disabled>>

----------------------------------------------------------------------------
\* The Run and the projection of its answer.

\* external: the Run ends, with or without a completion text.
ConnRunEnds(e, outcome) ==
    /\ connHost = "up" /\ crun[e] = "QUEUED"
    /\ crun' = [crun EXCEPT ![e] = outcome]
    /\ projected' = projected \cup {e}
    /\ UNCHANGED <<account, ingress, outbound, letters, receipts, posted, at, connHost, connCrashes, disabled>>

\* projectRunOutput asks for an adopted row, and enqueueDelivery for the account
\* before it looks for the delivery of an earlier projection.
Enqueued(d) == IF d.status = "ABSENT" THEN [d EXCEPT !.status = "PENDING"] ELSE d
Refused(e) == crun[e] = "COMPLETED" /\ ingress[e].status = "ADOPTED" /\ ~account
ProjectRunOutput(e) ==
    IF crun[e] = "COMPLETED" /\ ingress[e].status = "ADOPTED" THEN Enqueued(outbound[e]) ELSE outbound[e]

\* recoverRunOutputs: the same for all adopted Runs that completed.
RecoverRunOutputs(rows) ==
    [e \in Inbound |-> IF crun[e] = "COMPLETED" THEN Enqueued(rows[e]) ELSE rows[e]]

\* onRunTerminal begins with the projection; it throws without the account.
HookProjects(e) ==
    /\ connHost = "up" /\ e \in projected
    /\ projected' = projected \ {e}
    /\ outbound' = IF Refused(e) THEN outbound ELSE [outbound EXCEPT ![e] = ProjectRunOutput(e)]
    /\ UNCHANGED <<account, ingress, crun, letters, receipts, posted, at, connHost, connCrashes, disabled>>

----------------------------------------------------------------------------
\* Deliveries.

\* Mutant: every expired claim is safe to repeat.
LapsedSafe(d) == [d EXCEPT !.status = "PENDING", !.attempt = "ABANDONED", !.claim = NoClaim]

\* #recoverExpiredDeliveriesWithRepositories: a dispatched one is UNCERTAIN, with
\* a dead letter, the others are PENDING again.
Lapsed(d) ==
    IF d.attempt = "DISPATCHED"
    THEN [d EXCEPT !.status = "UNCERTAIN", !.attempt = "UNCERTAIN", !.claim = NoClaim]
    ELSE [d EXCEPT !.status = "PENDING", !.attempt = "ABANDONED", !.claim = NoClaim]

DeliveriesRecovered(X) == [e \in Inbound |-> IF e \in X THEN Lapsed(outbound[e]) ELSE outbound[e]]
LapsedLetters(X) == letters \cup {<<"DELIVERY", e>> : e \in {x \in X : Lapsed(outbound[x]).status = "UNCERTAIN"}}

\* claimDelivery of the repository: the row and the attempt of the claim.
TakeDelivery(rows, e, w) ==
    [rows EXCEPT ![e] = [status |-> "DELIVERING", tries |-> @.tries + 1, attempt |-> "CLAIMED", claim |-> w]]

\* claimDelivery: expired claims first, then a PENDING row and its attempt.
\* The number of attempts is asked for by failDelivery alone: a delivery whose
\* claims keep expiring before dispatch counts on, and the model stops there.
ClaimDelivery(w, X, e) ==
    /\ MayAct(w) /\ account /\ at[w] = AtRest /\ X \subseteq Claimed(outbound)
    /\ DeliveriesRecovered(X)[e].status = "PENDING" /\ outbound[e].tries < MaxDeliveryAttempts
    /\ outbound' = TakeDelivery(DeliveriesRecovered(X), e, w)
    /\ letters' = LapsedLetters(X)
    /\ Goes(w, "claimed", e)
    /\ UNCHANGED <<account, ingress, crun, receipts, posted, projected, connHost, connCrashes, disabled>>

\* A claim that finds nothing to send still recovers the expired ones.
RecoverDeliveries(w, X) ==
    /\ MayAct(w) /\ account /\ at[w] = AtRest /\ X # {} /\ X \subseteq Claimed(outbound)
    /\ \A e \in Inbound : DeliveriesRecovered(X)[e].status # "PENDING"
    /\ outbound' = DeliveriesRecovered(X) /\ letters' = LapsedLetters(X)
    /\ UNCHANGED <<account, ingress, crun, receipts, posted, at, projected, connHost, connCrashes, disabled>>

\* markDeliveryDispatched, before anything leaves the Host.
MarkDispatched(w) ==
    LET e == at[w].event
    IN  /\ MayAct(w) /\ at[w].pc = "claimed"
        /\ outbound' = [outbound EXCEPT ![e].attempt = "DISPATCHED"]
        /\ Goes(w, "posting", e)
        /\ UNCHANGED <<account, ingress, crun, letters, receipts, posted, projected, connHost, connCrashes, disabled>>

\* What a request of the client meets: no route to the provider, a rejection for
\* good or for now, a post that is answered, one whose answer is broken, too
\* large or missing, and none at all because the payload is invalid or the
\* adapter suppresses it.
Http == {"unresolved", "forbidden", "rejected", "busy", "created", "garbled", "silent", "unsendable", "suppressed"}
\* request, createPost and deliver: the certainty and the retryability of it.
CreatePost(h) ==
    CASE h = "created" -> "accepted"
      [] h \in {"garbled", "silent"} -> "maybe"
      [] h \in {"unresolved", "busy"} -> "again"
      [] h \in {"forbidden", "rejected", "unsendable"} -> "never"
      [] h = "suppressed" -> "suppressed"

\* external: the provider posts what it answers for; a silence may hide a post.
Post(w, h) ==
    LET e == at[w].event
    IN  /\ MayAct(w) /\ at[w].pc = "posting"
        /\ \/ h \in {"created", "garbled", "silent"} /\ posted' = [posted EXCEPT ![e] = @ + 1]
           \/ h # "created" /\ h # "garbled" /\ UNCHANGED posted
        /\ Goes(w, CreatePost(h), e)
        /\ UNCHANGED <<connRow, projected, connHost, connCrashes, disabled>>

\* The certainty of an error decides whether the delivery may be repeated:
\* createPost of the client and failDelivery of the service.
Retried(a, tries) == a = "again" /\ tries < MaxDeliveryAttempts

Outcome(a, tries) ==
    CASE a = "accepted" -> [status |-> "DELIVERED", attempt |-> "ACCEPTED"]
      [] a = "suppressed" -> [status |-> "SUPPRESSED", attempt |-> "REJECTED"]
      [] Retried(a, tries) -> [status |-> "PENDING", attempt |-> "REJECTED"]
      [] a = "maybe" /\ ~Retried(a, tries) -> [status |-> "UNCERTAIN", attempt |-> "UNCERTAIN"]
      [] OTHER -> [status |-> "DEAD", attempt |-> "REJECTED"]

OwnsDelivery(w) ==
    LET d == outbound[at[w].event] IN d.claim = w /\ d.attempt \in {"CLAIMED", "DISPATCHED"}

\* finishDeliveryAttempt of the repository.
FinishAttempt(e, o) ==
    outbound' = [outbound EXCEPT ![e] = [@ EXCEPT !.status = o.status, !.attempt = o.attempt, !.claim = NoClaim]]
\* The receipt of an accepted delivery, the letter of one that is lost.
InsertReceipt(e, o) == receipts' = IF o.status = "DELIVERED" THEN receipts \cup {e} ELSE receipts
LetterOf(e, o) == letters' = IF o.status \in {"UNCERTAIN", "DEAD"} THEN DeadLetter("DELIVERY", e) ELSE letters

\* Mutant: a late answer is written over what became of the delivery.
FinishDeliveryLate(w) ==
    LET e == at[w].event
        o == Outcome(at[w].pc, outbound[e].tries)
    IN  /\ MayAct(w) /\ at[w].pc \in Answers
        /\ FinishAttempt(e, o) /\ InsertReceipt(e, o) /\ LetterOf(e, o)
        /\ Rests(w)
        /\ UNCHANGED <<account, ingress, crun, posted, projected, connHost, connCrashes, disabled>>

\* finishDeliveryAttempt: the attempt, the delivery, the receipt and the letter.
FinishDelivery(w) ==
    LET e == at[w].event
        o == Outcome(at[w].pc, outbound[e].tries)
    IN  /\ MayAct(w) /\ at[w].pc \in Answers
        /\ IF OwnsDelivery(w)
           THEN FinishAttempt(e, o) /\ InsertReceipt(e, o) /\ LetterOf(e, o)
           ELSE UNCHANGED <<outbound, receipts, letters>>
        /\ Rests(w)
        /\ UNCHANGED <<account, ingress, crun, posted, projected, connHost, connCrashes, disabled>>

----------------------------------------------------------------------------
\* Crash and start-up.

ConnCrash ==
    /\ connHost = "up" /\ connCrashes < MaxConnCrashes
    /\ connHost' = "down" /\ connCrashes' = connCrashes + 1
    /\ at' = [w \in Reader \cup Sender |-> AtRest] /\ projected' = {}
    /\ ingress' = [e \in Inbound |-> IF ingress[e].status = "CLAIMED" THEN [ingress[e] EXCEPT !.claim = Orphan] ELSE ingress[e]]
    /\ outbound' = [e \in Inbound |-> IF outbound[e].status = "DELIVERING" THEN [outbound[e] EXCEPT !.claim = Orphan] ELSE outbound[e]]
    /\ UNCHANGED <<account, crun, letters, receipts, posted, disabled>>

\* Mutant: only the claims are recovered.
ConnStartupPartly(X, Y) ==
    /\ connHost = "down" /\ X \subseteq Claimed(ingress) /\ Y \subseteq Claimed(outbound)
    /\ ingress' = IngressRecovered(X) /\ letters' = LapsedLetters(Y)
    /\ outbound' = DeliveriesRecovered(Y)
    /\ connHost' = "up"
    /\ UNCHANGED <<account, crun, receipts, posted, at, projected, connCrashes, disabled>>

\* Start-up: expired claims are recovered, the extensions started, and the
\* answers of all adopted Runs projected again.  It fails where that throws.
ConnStartup(X, Y) ==
    /\ connHost = "down" /\ X \subseteq Claimed(ingress) /\ Y \subseteq Claimed(outbound)
    /\ \A e \in Inbound : ~Refused(e)
    /\ ingress' = IngressRecovered(X) /\ letters' = LapsedLetters(Y)
    /\ outbound' = RecoverRunOutputs(DeliveriesRecovered(Y))
    /\ connHost' = "up"
    /\ UNCHANGED <<account, crun, receipts, posted, at, projected, connCrashes, disabled>>

----------------------------------------------------------------------------
ReaderStep(w) ==
    \/ \E X \in SUBSET Inbound, e \in Inbound : ClaimIngress(w, X, e)
    \/ AdoptIngress(w) \/ IgnoreIngress(w) \/ LoseIngress(w)
    \/ \E r \in BOOLEAN : FailIngress(w, r)

SenderStep(w) ==
    \/ \E X \in SUBSET Inbound, e \in Inbound : ClaimDelivery(w, X, e)
    \/ \E X \in SUBSET Inbound : RecoverDeliveries(w, X)
    \/ MarkDispatched(w) \/ FinishDelivery(w)
    \/ \E h \in Http : Post(w, h)

ConnNext ==
    \/ \E on \in BOOLEAN : RegisterAccount(on)
    \/ \E e \in Inbound, p \in Shape : ReceiveIngress(e, p)
    \/ \E e \in Inbound : HookProjects(e) \/ \E o \in {"COMPLETED", "OTHER"} : ConnRunEnds(e, o)
    \/ \E w \in Reader : ReaderStep(w)
    \/ \E w \in Sender : SenderStep(w)
    \/ ConnCrash
    \/ \E X, Y \in SUBSET Inbound : ConnStartup(X, Y)

\* The pump drains both queues for ever, a lease expires, a post is answered
\* within its time-out, hooks are called and a Host that is down is started.
ClaimTurn(w, e) == \E X \in SUBSET Inbound : ClaimDelivery(w, X, e) /\ e \notin X
TakeOver(w) ==
    \E e \in Inbound : /\ outbound[e].claim = Orphan
                      /\ (RecoverDeliveries(w, {e}) \/ \E d \in Inbound : ClaimDelivery(w, {e}, d))

ConnFairness ==
    /\ \A w \in Sender : /\ WF_connVars(MarkDispatched(w) \/ FinishDelivery(w))
                         /\ WF_connVars(\E h \in Http : Post(w, h))
                         /\ WF_connVars(TakeOver(w))
    /\ \A w \in Sender, e \in Inbound : SF_connVars(ClaimTurn(w, e))
    /\ \A e \in Inbound : WF_connVars(HookProjects(e))
    /\ WF_connVars(\E X, Y \in SUBSET Inbound : ConnStartup(X, Y))

ConnSpec == ConnInit /\ [][ConnNext]_connVars /\ ConnFairness

----------------------------------------------------------------------------
\* The provider accepts the answer of a Run at most once, with two drains that
\* overlap, leases that expire while a post is under way, late answers and
\* crashes at any point (drainDeliveries, markDeliveryDispatched).
PostedAtMostOnce == \A e \in Inbound : posted[e] <= 1

\* What is known of a delivery is true: DELIVERED exactly with a receipt and a
\* post, and a delivery that may be sent again was never posted.
DeliveryIsTruthful ==
    \A e \in Inbound :
        /\ outbound[e].status = "DELIVERED" <=> e \in receipts
        /\ e \in receipts => posted[e] = 1
        /\ outbound[e].status \in {"ABSENT", "PENDING", "SUPPRESSED", "DEAD"} => posted[e] = 0

\* Whatever ended without its effect, or without knowing of it, has an OPEN
\* dead letter for the operator, and nothing else has.
DeadIsLettered ==
    \A e \in Inbound :
        /\ ingress[e].status = "DEAD" <=> <<"INGRESS", e>> \in letters
        /\ outbound[e].status \in {"UNCERTAIN", "DEAD"} <=> <<"DELIVERY", e>> \in letters

\* An event has a Run exactly if its row is ADOPTED: neither a lease that
\* expired under its worker nor a crash separates them (adoptIngress).
AdoptedHasRun == \A e \in Inbound : ingress[e].status = "ADOPTED" <=> crun[e] # "NONE"

\* A row that is settled stays so, and a worker that lost its claim changes
\* nothing (#requireIngressClaim, finishDeliveryAttempt).
SettledIsFinal ==
    [][\A e \in Inbound :
        /\ ingress[e].status \in {"ADOPTED", "IGNORED", "DEAD"} => ingress'[e] = ingress[e]
        /\ outbound[e].status \in Settled => outbound'[e] = outbound[e]]_connVars

\* The answer of an adopted event reaches an end: posted, refused, or with the
\* operator; the hook, the pump and the projection at start-up leave no gap.
AnswerIsSettled ==
    \A e \in Inbound : crun[e] = "COMPLETED" ~>
        (outbound[e].status \in Settled \/ outbound[e].tries = MaxDeliveryAttempts)

\* The rows of a connector and what the outside saw: a post is not repeated once
\* it may have happened, no row claims a delivery that did not happen, what is
\* dead has its letter, and an adopted event has its message and Run.
ConnectorsAgree ==
    /\ ConnTypeOK
    /\ PostedAtMostOnce /\ DeliveryIsTruthful /\ DeadIsLettered /\ AdoptedHasRun
=============================================================================
