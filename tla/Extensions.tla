----------------------------- MODULE Extensions -----------------------------
(***************************************************************************)
(* The registry of local extensions: agent-host/extension-runtime.ts, with *)
(* the adapter registry of packages/connectors that an extension's         *)
(* connector registers with and extension-sdk/validation.ts.               *)
(*                                                                         *)
(* A call of the registry (startConfigured, enable, disable, close) is a   *)
(* process that gives the event loop away while a secret is inspected, a   *)
(* module is imported and activated, or a runtime is deactivated.          *)
(*                                                                         *)
(* The extensions are visited in any order instead of by their names.      *)
(***************************************************************************)
EXTENDS Naturals, Sequences, FiniteSets

CONSTANTS
    Ext, Cap,         \* extensions and capability keys
    Declares,         \* the capabilities an extension declares
    Connector,        \* the capabilities that are connectors
    Intrinsic,        \* extensions whose manifest, entry or settings are invalid
    Secretive,        \* extensions that declare a secret
    Configured,       \* extensions.enabled of the configuration
    Client,           \* callers of the registry
    Overlap,          \* whether a call may begin while another is under way
    MaxCalls,         \* bound on the calls of the clients
    MaxTimeouts       \* bound on activations and deactivations that time out

NoExt == "NONE"

ASSUME ExtensionAssumption ==
    /\ NoExt \notin Ext
    /\ Declares \in [Ext -> SUBSET Cap] /\ Connector \subseteq Cap
    /\ Intrinsic \subseteq Ext /\ Secretive \subseteq Ext /\ Configured \subseteq Ext
    /\ Overlap \in BOOLEAN /\ MaxCalls \in Nat /\ MaxTimeouts \in Nat

VARIABLES
    rec,              \* #records: enabled, state, issue and whether runtime is set
    owner,            \* #activeCapabilityOwners
    order,            \* #activationOrder
    adapters,         \* the registrations of ConnectorAdapterRegistry, by capability
    live,             \* runtimes of an extension that run, recorded or not
    leaked,           \* those of them the registry gave up on after a time-out
    call,             \* the call of every client
    extCalls, timeouts

extRow == <<rec, owner, order, adapters>>
extVars == <<extRow, live, leaked, call, extCalls, timeouts>>

Boot == "boot"
NoCall == [op |-> "none", ext |-> NoExt, pc |-> "idle", todo |-> {}, requested |-> FALSE]
InTransit == {"ACTIVATING", "DEACTIVATING"}

ExtRecord == [enabled : BOOLEAN, runtime : BOOLEAN,
              state : {"DISCOVERED", "BLOCKED", "DISABLED", "READY", "FAILED"} \cup InTransit,
              issue : {"none", "intrinsic", "conflict", "secret", "failed"}]

ExtTypeOK ==
    /\ rec \in [Ext -> ExtRecord]
    /\ owner \in [Cap -> Ext \cup {NoExt}] /\ adapters \in [Connector -> Ext \cup {NoExt}]
    /\ order \in Seq(Ext)
    /\ live \in [Ext -> Nat] /\ leaked \in [Ext -> Nat]
    /\ call \in [Client \cup {Boot} ->
         [op : {"none", "start", "enable", "disable", "close"}, ext : Ext \cup {NoExt},
          pc : {"idle", "next", "secret", "import", "cleanup", "deactivate", "done"},
          todo : SUBSET Ext, requested : BOOLEAN]]
    /\ extCalls \in 0 .. MaxCalls /\ timeouts \in 0 .. MaxTimeouts

----------------------------------------------------------------------------
\* #reconcileCapabilityConflicts.

\* Every record that does not move begins anew.
Restated(r, x) ==
    IF r.state \in InTransit \cup {"READY"} THEN r
    ELSE IF x \in Intrinsic THEN [r EXCEPT !.state = "BLOCKED", !.issue = "intrinsic"]
    ELSE [r EXCEPT !.state = IF r.enabled THEN "DISCOVERED" ELSE "DISABLED", !.issue = "none"]

\* Enabled records that are not READY and want a capability that is owned by
\* another, or that nobody owns and two want, are blocked; one that is just
\* being activated too.
Reconciled(R, own) ==
    LET S == [x \in Ext |-> Restated(R[x], x)]
        cand == {x \in Ext : S[x].enabled /\ x \notin Intrinsic /\ S[x].state # "READY"}
        wants(c) == {x \in cand : c \in Declares[x]}
        lost(x) == \E c \in Declares[x] :
                      IF own[c] # NoExt THEN own[c] # x ELSE Cardinality(wants(c)) > 1
    IN  [x \in Ext |-> IF x \in cand /\ lost(x)
                       THEN [S[x] EXCEPT !.state = "BLOCKED", !.issue = "conflict"] ELSE S[x]]

\* discover: validateExtensionManifest and validateExtensionSettings are what
\* Intrinsic stands for.
Discover ==
    Reconciled([x \in Ext |-> [enabled |-> x \in Configured, runtime |-> FALSE,
                               state |-> "DISCOVERED", issue |-> "none"]], [c \in Cap |-> NoExt])

ExtInit ==
    /\ rec = Discover
    /\ owner = [c \in Cap |-> NoExt] /\ adapters = [c \in Connector |-> NoExt]
    /\ order = <<>>
    /\ live = [x \in Ext |-> 0] /\ leaked = [x \in Ext |-> 0]
    /\ call = [c \in Client \cup {Boot} |->
         IF c = Boot THEN [NoCall EXCEPT !.op = "start", !.pc = "next", !.todo = Ext] ELSE NoCall]
    /\ extCalls = 0 /\ timeouts = 0

\* The Host serves clients once startConfigured has returned.
CallBegins(c) ==
    /\ call[Boot].pc = "idle" /\ call[c].pc = "idle" /\ extCalls < MaxCalls
    /\ ~Overlap => \A d \in Client : call[d].pc = "idle"
    /\ extCalls' = extCalls + 1

CallAt(c, pc) == call' = [call EXCEPT ![c].pc = pc]
CallEnds(c) == call' = [call EXCEPT ![c] = NoCall]
\* After the extension at hand: a requested activation ends its call.
Continued(c) == IF call[c].requested THEN NoCall ELSE [call[c] EXCEPT !.pc = "next", !.ext = NoExt]
CallContinues(c) == call' = [call EXCEPT ![c] = Continued(c)]

----------------------------------------------------------------------------
\* Activation.

\* inspectSecretReference answers.
SecretInspected(c, available) ==
    LET x == call[c].ext
    IN  /\ call[c].pc = "secret"
        /\ IF available
           THEN rec' = [rec EXCEPT ![x].state = "ACTIVATING", ![x].issue = "none"] /\ CallAt(c, "import")
           ELSE rec' = [rec EXCEPT ![x].state = "BLOCKED", ![x].issue = "secret"] /\ CallContinues(c)
        /\ UNCHANGED <<owner, order, adapters, live, leaked, extCalls, timeouts>>

\* claim and register: a connector is registered once.
CanRegister(x) == \A k \in Declares[x] \cap Connector : adapters[k] = NoExt
Registered(x) == [k \in Connector |-> IF k \in Declares[x] THEN x ELSE adapters[k]]
\* The abort signal of an activation unregisters its adapters.
Unregistered(x) == [k \in Connector |-> IF adapters[k] = x THEN NoExt ELSE adapters[k]]

\* The module is imported and activated, and has claimed what it declares.
Activated(c) ==
    LET x == call[c].ext
    IN  /\ call[c].pc = "import" /\ CanRegister(x)
        /\ rec' = [rec EXCEPT ![x].state = "READY", ![x].runtime = TRUE]
        /\ owner' = [k \in Cap |-> IF k \in Declares[x] THEN x ELSE owner[k]]
        /\ order' = Append(order, x)
        /\ adapters' = Registered(x)
        /\ live' = [live EXCEPT ![x] = @ + 1]
        /\ CallContinues(c)
        /\ UNCHANGED <<leaked, extCalls, timeouts>>

\* A claim is missing: the runtime that was returned is deactivated first.
ClaimMissing(c) ==
    /\ call[c].pc = "import"
    /\ live' = [live EXCEPT ![call[c].ext] = @ + 1]
    /\ CallAt(c, "cleanup")
    /\ UNCHANGED <<extRow, leaked, extCalls, timeouts>>

ActivationFailed(x) == rec' = [rec EXCEPT ![x].state = "FAILED", ![x].issue = "failed", ![x].runtime = FALSE]

\* The module is invalid, or throws (a connector that is registered already).
ActivationFails(c) ==
    /\ call[c].pc = "import"
    /\ ActivationFailed(call[c].ext)
    /\ adapters' = IF CanRegister(call[c].ext) THEN Unregistered(call[c].ext) ELSE adapters
    /\ CallContinues(c)
    /\ UNCHANGED <<owner, order, live, leaked, extCalls, timeouts>>

\* The activation is given up after its time-out and goes on by itself.
ActivationTimesOut(c) ==
    LET x == call[c].ext
    IN  /\ call[c].pc = "import" /\ timeouts < MaxTimeouts
        /\ timeouts' = timeouts + 1
        /\ ActivationFailed(x) /\ adapters' = Unregistered(x)
        /\ live' = [live EXCEPT ![x] = @ + 1] /\ leaked' = [leaked EXCEPT ![x] = @ + 1]
        /\ CallContinues(c)
        /\ UNCHANGED <<owner, order, extCalls>>

CleanedUp(c) ==
    LET x == call[c].ext
    IN  /\ call[c].pc = "cleanup"
        /\ ActivationFailed(x) /\ adapters' = Unregistered(x)
        /\ live' = [live EXCEPT ![x] = @ - 1]
        /\ CallContinues(c)
        /\ UNCHANGED <<owner, order, leaked, extCalls, timeouts>>

\* startConfigured and #activateNewlyUnblocked: the next extension of the loop.
ActivateNext(c) ==
    /\ call[c].pc = "next" /\ call[c].op # "close"
    /\ IF call[c].todo = {}
       THEN CallEnds(c) /\ UNCHANGED rec
       ELSE \E x \in call[c].todo :
              LET rest == [call EXCEPT ![c].todo = @ \ {x}]
              IN  IF ~(rec[x].enabled /\ rec[x].state = "DISCOVERED")
                  THEN call' = rest /\ UNCHANGED rec
                  ELSE IF \E k \in Declares[x] : owner[k] \notin {NoExt, x}
                  THEN rec' = [rec EXCEPT ![x].state = "BLOCKED", ![x].issue = "conflict"] /\ CallEnds(c)
                  ELSE IF x \in Secretive
                  THEN call' = [rest EXCEPT ![c].pc = "secret", ![c].ext = x] /\ UNCHANGED rec
                  ELSE /\ rec' = [rec EXCEPT ![x].state = "ACTIVATING", ![x].issue = "none"]
                       /\ call' = [rest EXCEPT ![c].pc = "import", ![c].ext = x]
    /\ UNCHANGED <<owner, order, adapters, live, leaked, extCalls, timeouts>>

----------------------------------------------------------------------------
\* Deactivation.

\* lastIndexOf and splice.
WithoutLast(s, x) ==
    IF \A i \in DOMAIN s : s[i] # x THEN s
    ELSE LET last == CHOOSE i \in DOMAIN s : s[i] = x /\ \A j \in DOMAIN s : s[j] = x => j <= i
         IN  [i \in 1 .. Len(s) - 1 |-> IF i < last THEN s[i] ELSE s[i + 1]]

\* The end of #deactivate: whatever the runtime did, it is forgotten.
Forgotten(x, ok) ==
    /\ owner' = [k \in Cap |-> IF owner[k] = x THEN NoExt ELSE owner[k]]
    /\ order' = WithoutLast(order, x)
    /\ live' = IF ok THEN [live EXCEPT ![x] = @ - 1] ELSE live
    /\ leaked' = IF ok THEN leaked ELSE [leaked EXCEPT ![x] = @ + 1]

Deactivating(x, R) == [R EXCEPT ![x].state = "DEACTIVATING"]

Deactivated(c, ok) ==
    LET x == call[c].ext
        R == [rec EXCEPT ![x].state = IF ok THEN "DISABLED" ELSE "FAILED",
                         ![x].issue = IF ok THEN "none" ELSE "failed", ![x].runtime = FALSE]
    IN  /\ call[c].pc = "deactivate"
        /\ ~ok => timeouts < MaxTimeouts
        /\ timeouts' = IF ok THEN timeouts ELSE timeouts + 1
        /\ Forgotten(x, ok)
        /\ call' = [call EXCEPT ![c].pc = "next", ![c].ext = NoExt]
        /\ rec' = IF call[c].op = "disable" THEN Reconciled(R, owner') ELSE R
        /\ UNCHANGED <<adapters, extCalls>>

----------------------------------------------------------------------------
\* The calls.

\* Mutant: the state of the record is not asked for.
EnableAgain(c, x) ==
    /\ CallBegins(c)
    /\ call' = [call EXCEPT ![c] = [NoCall EXCEPT !.op = "enable", !.ext = x, !.requested = TRUE, !.pc = "import"]]
    /\ rec' = [rec EXCEPT ![x].enabled = TRUE, ![x].state = "ACTIVATING"]
    /\ UNCHANGED <<owner, order, adapters, live, leaked, timeouts>>

Enable(c, x) ==
    /\ CallBegins(c) /\ rec[x].state \notin InTransit
    /\ LET R == Reconciled([rec EXCEPT ![x].enabled = TRUE], owner)
       IN  IF R[x].state \in {"READY", "BLOCKED"}
           THEN rec' = R /\ UNCHANGED call
           ELSE IF x \in Secretive
           THEN /\ rec' = R
                /\ call' = [call EXCEPT ![c] = [NoCall EXCEPT !.op = "enable", !.ext = x, !.requested = TRUE, !.pc = "secret"]]
           ELSE /\ rec' = [R EXCEPT ![x].state = "ACTIVATING"]
                /\ call' = [call EXCEPT ![c] = [NoCall EXCEPT !.op = "enable", !.ext = x, !.requested = TRUE, !.pc = "import"]]
    /\ UNCHANGED <<owner, order, adapters, live, leaked, timeouts>>

Disable(c, x) ==
    /\ CallBegins(c) /\ rec[x].state \notin InTransit
    /\ IF rec[x].state = "READY"
       THEN /\ rec' = Deactivating(x, [rec EXCEPT ![x].enabled = FALSE])
            /\ adapters' = Unregistered(x)
            /\ call' = [call EXCEPT ![c] = [NoCall EXCEPT !.op = "disable", !.ext = x, !.pc = "deactivate", !.todo = Ext]]
       ELSE /\ rec' = Reconciled([rec EXCEPT ![x].enabled = FALSE], owner)
            /\ call' = [call EXCEPT ![c] = [NoCall EXCEPT !.op = "disable", !.pc = "next", !.todo = Ext]]
            /\ UNCHANGED adapters
    /\ UNCHANGED <<owner, order, live, leaked, timeouts>>

\* close: the READY ones in the reverse order of their activation.
CloseRegistry(c) ==
    /\ CallBegins(c)
    /\ call' = [call EXCEPT ![c] = [NoCall EXCEPT !.op = "close", !.pc = "next"]]
    /\ UNCHANGED <<extRow, live, leaked, timeouts>>

CloseNext(c) ==
    /\ call[c].pc = "next" /\ call[c].op = "close"
    /\ IF \E i \in DOMAIN order : rec[order[i]].state = "READY"
       THEN LET i == CHOOSE i \in DOMAIN order : rec[order[i]].state = "READY"
                          /\ \A j \in DOMAIN order : j > i => rec[order[j]].state # "READY"
            IN  /\ rec' = Deactivating(order[i], rec)
                /\ adapters' = Unregistered(order[i])
                /\ call' = [call EXCEPT ![c].ext = order[i], ![c].pc = "deactivate"]
       ELSE CallEnds(c) /\ UNCHANGED <<rec, adapters>>
    /\ UNCHANGED <<owner, order, live, leaked, extCalls, timeouts>>

ExtStep(c) ==
    \/ ActivateNext(c) \/ CloseNext(c) \/ Activated(c) \/ ClaimMissing(c) \/ ActivationFails(c)
    \/ ActivationTimesOut(c) \/ CleanedUp(c)
    \/ \E b \in BOOLEAN : SecretInspected(c, b) \/ Deactivated(c, b)

ExtNext ==
    \/ \E c \in Client : (\E x \in Ext : Enable(c, x) \/ Disable(c, x)) \/ CloseRegistry(c)
    \/ \E c \in Client \cup {Boot} : ExtStep(c)

ExtSpec == ExtInit /\ [][ExtNext]_extVars

----------------------------------------------------------------------------
RegistryRests == \A c \in Client \cup {Boot} : call[c].pc = "idle"

\* "Duplicate configured or active capability ownership is rejected": a
\* capability is offered by at most one active extension, the map of owners
\* names exactly the active ones, and a connector's adapter is that of its owner
\* (#reconcileCapabilityConflicts, #activate, ConnectorAdapterRegistry).
OneOwner ==
    /\ \A k \in Cap, x, y \in Ext :
         rec[x].state = "READY" /\ rec[y].state = "READY" /\ k \in Declares[x] \cap Declares[y] => x = y
    /\ \A k \in Cap, x \in Ext :
         owner[k] = x <=> k \in Declares[x] /\ rec[x].state \in {"READY", "DEACTIVATING"}
    /\ \A k \in Connector : adapters[k] # NoExt => adapters[k] = owner[k]

\* Every runtime that runs is the recorded one of an extension that is active,
\* except those the registry gave up on after a time-out: none is started
\* twice and none outlives its record (#activate, #deactivate).
RuntimesAccounted ==
    \A x \in Ext :
        /\ rec[x].runtime <=> rec[x].state \in {"READY", "DEACTIVATING"}
        /\ live[x] - leaked[x] =
             Cardinality({c \in Client \cup {Boot} : call[c].pc = "cleanup" /\ call[c].ext = x})
             + IF rec[x].runtime THEN 1 ELSE 0

\* An extension waits for a capability only as long as a rival that wants it is
\* enabled: the end of a rival activates who waited (#activateNewlyUnblocked).
BlockedHasRival ==
    RegistryRests => \A x \in Ext :
        rec[x].issue = "conflict" =>
            \E y \in Ext \ {x} : rec[y].enabled /\ Declares[x] \cap Declares[y] # {}

\* At rest, an extension runs only if it is enabled, and the order in which
\* close deactivates is a permutation of the active ones.
OrderIsActive ==
    RegistryRests =>
        /\ \A x \in Ext : rec[x].state = "READY" => rec[x].enabled
        /\ {order[i] : i \in DOMAIN order} = {x \in Ext : rec[x].state = "READY"}
        /\ Len(order) = Cardinality({x \in Ext : rec[x].state = "READY"})

\* The registry after any sequence of enabling, disabling, failures and closing:
\* every identity has one owner, every runtime is accounted for, what is blocked
\* has a rival, and the order of activation lists what is active.
ExtensionsAgree ==
    /\ ExtTypeOK
    /\ OneOwner /\ RuntimesAccounted /\ BlockedHasRival /\ OrderIsActive
=============================================================================
