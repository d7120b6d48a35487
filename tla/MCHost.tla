------------------------------- MODULE MCHost -------------------------------
(***************************************************************************)
(* The Host process around its Runs: the coordinator with its crashes, the *)
(* start and stop of the process, the configuration, the processes,        *)
(* skills, memory, the Mattermost socket, the model stream, and the two    *)
(* directions of the protocol.  As in MCOrchestration, one behaviour runs  *)
(* one part.                                                               *)
(***************************************************************************)
EXTENDS AgentHost, HostBoot, Settings, ConfigIncludes, Processes, Skills, Memory,
        MattermostSocket, ModelStream, NoticeFeed, ProtocolCalls

CONSTANTS r1, h1, h2, k1, q1, big, small, other, key

VARIABLE part

allVars == <<part, vars, bootVars, settingsVars, includeVars, processVars, skillVars,
              memoryVars, socketVars, streamVars, feedVars, callVars>>

\* h2 is the newer build: it knows one migration more.
MCMigs == [p \in Proc |-> IF p = h1 THEN <<"a", "b">> ELSE <<"a", "b", "c">>]
MCLeft == {<<>>, <<"a", "x">>}

Document(b, s) == [body |-> b, skill |-> s]
MCFirstDocs == {Missing, Document("invalid", FALSE), Document("including", FALSE)}
MCEditDocs == {Missing, Document("plain", TRUE), Document("broken", FALSE),
               Document("circular", FALSE)}

MCIncludeLists ==
    {<<>>} \cup {<<f>> : f \in File} \cup {<<f, g>> : f \in File, g \in File}

\* big and small differ in their case only.
MCHashOf == (big :> 1) @@ (small :> 1) @@ (other :> 2) @@ (key :> 3)
MCTermsOf == (big :> {"x"}) @@ (small :> {"x"}) @@ (other :> {"x", "y"}) @@ (key :> {"y"})

\* What providers leave out of the Responses stream: the identities each kind of
\* event carries, and the events they omit.
Both == {"call", "item"}
MCDialect ==
    {[added |-> Both, delta |-> {"item"}, args |-> {"item"}, item |-> Both, omits |-> {}],
     [added |-> Both, delta |-> {"call"}, args |-> {}, item |-> {"call"}, omits |-> {"args"}],
     [added |-> Both, delta |-> {"item"}, args |-> {"item"}, item |-> Both, omits |-> {"added"}],
     [added |-> Both, delta |-> Both, args |-> Both, item |-> Both, omits |-> {"item"}],
     [added |-> Both, delta |-> {"item"}, args |-> {"item"}, item |-> {}, omits |-> {}]}

\* The parts that wait start from one state.
HostPartsInit ==
    /\ part \in {"runs", "boots", "stop", "settings", "includes", "processes", "skills",
                 "memory", "socket", "stream", "feed", "calls"}
    /\ part \notin {"boots", "stop"} => lockFile = NoFile /\ metaFile = NoFile /\ schema = <<>>
    /\ part # "settings" => source = Missing /\ lkg = Missing /\ vault = "none"
    /\ part # "includes" => /\ includes = [f \in File |-> <<>>]
                            /\ flawed = [file |-> Nowhere, kind |-> "escape"]
    /\ part # "skills" =>
           files = [s \in Source |-> [j \in Skill |-> [manifest |-> 0, text |-> 1]]]
    /\ part # "stream" => /\ hashed = [t \in Encoded |-> "x"]
                          /\ dialect = CHOOSE d \in Dialect : d.omits = {"added"}
                          /\ meant = [c \in StreamCall |-> "plain"]
    /\ HostInit /\ BootInit /\ SettingsInit /\ IncludesInit /\ ProcessInit /\ SkillsInit
    /\ MemoryInit /\ SocketInit /\ StreamInit /\ FeedInit /\ CallsInit

Runs ==
    /\ part = "runs" /\ HostNext
    /\ UNCHANGED <<bootVars, settingsVars, includeVars, processVars, skillVars,
                   memoryVars, socketVars, streamVars, feedVars, callVars>>
\* Two starters and no CLI, until one that raced past the lock serves; and one
\* Host that the CLI stops.
Boots ==
    /\ part = "boots" /\ BootNext
    /\ cli'.pc = "idle"
    /\ ~(raced /\ \E p \in Proc : bt[p].pc = "up" \/ bt[p].cl # "no")
    /\ UNCHANGED <<vars, settingsVars, includeVars, processVars, skillVars, memoryVars,
                   socketVars, streamVars, feedVars, callVars>>
Stops ==
    /\ part = "stop" /\ BootNext
    /\ bt'[h2].pc = "new"
    /\ UNCHANGED <<vars, settingsVars, includeVars, processVars, skillVars, memoryVars,
                   socketVars, streamVars, feedVars, callVars>>
\* One edit, crash or fault.
Configs ==
    /\ part = "settings" /\ SettingsNext
    /\ budget'.edits + budget'.crashes + budget'.faults <= 1
    /\ UNCHANGED <<vars, bootVars, includeVars, processVars, skillVars, memoryVars,
                   socketVars, streamVars, feedVars, callVars>>
Includes ==
    /\ part = "includes" /\ IncludesNext
    /\ UNCHANGED <<vars, bootVars, settingsVars, processVars, skillVars, memoryVars,
                   socketVars, streamVars, feedVars, callVars>>
\* One call at a time is at work; its record and its process live on.
Procs ==
    /\ part = "processes" /\ ProcessNext
    /\ repeated' + downed' <= 1
    /\ Cardinality({c \in ProcessCall : at'[c] # "idle"}) <= 1
    /\ UNCHANGED <<vars, bootVars, settingsVars, includeVars, skillVars, memoryVars,
                   socketVars, streamVars, feedVars, callVars>>
SkillSets ==
    /\ part = "skills" /\ SkillsNext
    /\ UNCHANGED <<vars, bootVars, settingsVars, includeVars, processVars, memoryVars,
                   socketVars, streamVars, feedVars, callVars>>
Memories ==
    /\ part = "memory" /\ MemoryNext
    /\ UNCHANGED <<vars, bootVars, settingsVars, includeVars, processVars, skillVars,
                   socketVars, streamVars, feedVars, callVars>>
Sockets ==
    /\ part = "socket" /\ SocketNext
    /\ UNCHANGED <<vars, bootVars, settingsVars, includeVars, processVars, skillVars,
                   memoryVars, streamVars, feedVars, callVars>>
Streams ==
    /\ part = "stream" /\ StreamNext
    /\ UNCHANGED <<vars, bootVars, settingsVars, includeVars, processVars, skillVars,
                   memoryVars, socketVars, feedVars, callVars>>
Feeds ==
    /\ part = "feed" /\ FeedNext
    /\ spent'.restarts + spent'.errors <= 1
    /\ UNCHANGED <<vars, bootVars, settingsVars, includeVars, processVars, skillVars,
                   memoryVars, socketVars, streamVars, callVars>>
\* Two connections with two calls each way of sharing them; the first call's key
\* and request are fixed, since the names may be swapped.
Protocol ==
    /\ part = "calls" /\ CallsNext
    /\ client'.connection + Len(call') <= 4
    /\ (call' # <<>> => call'[1].key = k1 /\ call'[1].request = q1)
    /\ UNCHANGED <<vars, bootVars, settingsVars, includeVars, processVars, skillVars,
                   memoryVars, socketVars, streamVars, feedVars>>

HostPartsNext ==
    /\ UNCHANGED part
    /\ \/ Runs \/ Boots \/ Stops \/ Configs \/ Includes \/ Procs
       \/ SkillSets \/ Memories \/ Sockets \/ Streams \/ Feeds \/ Protocol
HostPartsSpec == HostPartsInit /\ [][HostPartsNext]_allVars

\* What the Host reads in pieces: the configuration, as written by commands and as
\* merged of its files, the model stream and the notices of the local protocol.
InputsAgree == SettingsAgree /\ IncludesAgree /\ StreamAgrees /\ FeedAgrees

\* Replies that no later state shows: a search answers with what is remembered,
\* and a reload that was lost is tried again.
RepliesAreExact == SearchIsExact /\ LostIsRetried
=============================================================================
