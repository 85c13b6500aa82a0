------------------------------ MODULE Workspace ------------------------------
(***************************************************************************)
(* config-parser.ts, class WorkspaceConfigParser: the connections of a     *)
(* DBeaver workspace, read from one file per project or from the single    *)
(* file of the old format, and cached under the stat of the files read;    *)
(* with those of connections-config.ts, which every call reads again.      *)
(* Node runs one action at a time, other programs edit files in between.   *)
(***************************************************************************)
EXTENDS Naturals, Sequences, FiniteSets

CONSTANTS
  Loader,          (* calls that need the connections                      *)
  Project,         (* the project directories                              *)
  Default,         (* the one named General, or by OMNISQL_PROJECT         *)
  Version,         (* contents of a file; its stat stands for its content  *)
  holds,           (* the connection ids in a file, for the sound contents *)
  discover         (* OMNISQL_DISCOVER_WORKSPACE                           *)

Missing == 0                                   (* the file does not exist  *)
Metadata == "metadata"                         (* place of the old format  *)
Place == Project \cup {Metadata}
Sound == DOMAIN holds
NotAsked == [signature |-> <<>>, configured |-> Missing]

ASSUME WorkspaceAssumption ==
    /\ Default \in Project /\ Metadata \notin Project
    /\ Missing \notin Version /\ Sound \subseteq Version
    /\ discover \in BOOLEAN

Contents == Version \cup {Missing}
Connection == [id : UNION {holds[v] : v \in Sound}, place : Place \cup {"config"},
               settings : Version, secret : Contents]

\* A parse: the places left to read, the connections file just read, what was
\* found; first until it gives way to other calls, clean until a file changes.
ParseState == [left : SUBSET Place, sees : SUBSET [place : Place, settings : Sound],
               found : SUBSET Connection, first : BOOLEAN, failed : BOOLEAN, clean : BOOLEAN]

VARIABLES
  disk,            (* the connections and credentials files of each place  *)
  configured,      (* the file OMNISQL_CONFIG_FILE names                   *)
  newFormat,       (* isNewFormat                                          *)
  cache,           (* workspaceCache: empty or one record                  *)
  pending,         (* pendingWorkspace: empty or the parse under way       *)
  joined,          (* the calls that await it, in order                    *)
  asked,           (* the signature and configuration a call has read      *)
  loading,         (* how far a call has got                               *)
  loaded           (* the connections it was given                         *)

workspaceVars == <<disk, configured, newFormat, cache, pending, joined, asked, loading, loaded>>

-----------------------------------------------------------------------------
\* getProjectDirs: projects with a connections file, or the default one.
ProjectDirs == LET found == {p \in Project : disk[p].connections # Missing}
               IN IF found = {} THEN {Default} ELSE found

\* The places a parse in this format reads.
Places(new) == IF new THEN ProjectDirs ELSE {Metadata}

\* getConnectionsFilePath of this format leads to a file.
Exists(new) == \E p \in Places(new) : disk[p].connections # Missing

\* Mutant: the credentials files are left out.
SignatureConnections == [p \in Places(newFormat) |-> [disk[p] EXCEPT !.credentials = Missing]]

\* The stat of every file the detected format reads.
Signature == [p \in Places(newFormat) |-> disk[p]]

\* What one place contributes; unreadable credentials are left out.
Read(place, settings, credentials) ==
    [id : holds[settings], place : {place}, settings : {settings},
     secret : {IF credentials \in Sound THEN credentials ELSE Missing}]

Ids(connections) == {c.id : c \in connections}

\* loadConfiguredConnections, when its file is sound.
Configured(v) == IF v = Missing THEN {} ELSE Read("config", v, Missing)

\* detectNewFormat: the files decide, without files the directories do.
DetectNewFormat == IF Exists(TRUE) THEN {TRUE}
                   ELSE IF Exists(FALSE) THEN {FALSE} ELSE BOOLEAN

WorkspaceInit ==
    /\ disk \in [Place -> [connections : Contents, credentials : Contents]]
    /\ configured \in Contents
    /\ newFormat \in DetectNewFormat
    /\ cache = {} /\ pending = {} /\ joined = <<>>
    /\ asked = [c \in Loader |-> NotAsked]
    /\ loading = [c \in Loader |-> "no"]
    /\ loaded = [c \in Loader |-> {}]

-----------------------------------------------------------------------------
\* A call is given the workspace's connections beside the configured ones, or
\* an error when an id is in both.
Given(c, own, discovered) ==
    IF Ids(own) \cap Ids(discovered) = {}
    THEN /\ loading' = [loading EXCEPT ![c] = "loaded"]
         /\ loaded' = [loaded EXCEPT ![c] = own \cup discovered]
    ELSE /\ loading' = [loading EXCEPT ![c] = "failed"]
         /\ UNCHANGED loaded

\* The configuration is unreadable or invalid.
ConfigFails(c) ==
    /\ loading[c] = "no" /\ configured \notin Sound \cup {Missing}
    /\ loading' = [loading EXCEPT ![c] = "failed"]
    /\ UNCHANGED <<disk, configured, newFormat, cache, pending, joined, asked, loaded>>

\* The workspace is not looked at, or is cached under today's signature.
Cached(c) ==
    /\ loading[c] = "no" /\ configured \in Sound \cup {Missing}
    /\ \/ ~discover /\ Given(c, Configured(configured), {})
       \/ /\ discover
          /\ \E m \in cache : m.signature = Signature
                              /\ Given(c, Configured(configured), m.content)
    /\ UNCHANGED <<disk, configured, newFormat, cache, pending, joined, asked>>

\* parseWorkspaceConnections picks the format: the detected one, or the other
\* one when only that has its file.  With neither there is nothing to read.
StartParse ==
    LET new == IF Exists(newFormat) \/ ~Exists(~newFormat) THEN newFormat ELSE ~newFormat
    IN /\ newFormat' = new
       /\ pending' = {[left |-> IF Exists(new) THEN Places(new) ELSE {}, sees |-> {},
                       found |-> {}, first |-> TRUE, failed |-> FALSE, clean |-> TRUE]}

\* Otherwise the call waits for the parse under way, or starts one.  A parse
\* reads its first file in the turn it is started in, before any other call.
Load(c) ==
    /\ loading[c] = "no" /\ configured \in Sound \cup {Missing} /\ discover
    /\ \A m \in cache : m.signature # Signature
    /\ \A p \in pending : ~p.first
    /\ asked' = [asked EXCEPT ![c] = [signature |-> Signature, configured |-> configured]]
    /\ loading' = [loading EXCEPT ![c] = "waiting"]
    /\ joined' = Append(joined, c)
    /\ IF pending = {} THEN StartParse ELSE UNCHANGED <<newFormat, pending>>
    /\ UNCHANGED <<disk, configured, cache, loaded>>

\* The next connections file: skipped if it has gone, fatal if it is broken.
\* The order of the projects is left open; it only decides which error is met.
ReadConnections == \E p \in pending : \E place \in p.left :
    /\ p.sees = {} /\ ~p.failed
    /\ LET v == disk[place].connections IN
       pending' = {[p EXCEPT !.first = FALSE, !.left = p.left \ {place},
                             !.failed = v \notin Sound \cup {Missing},
                             !.sees = IF v \in Sound THEN {[place |-> place, settings |-> v]} ELSE {}]}
    /\ UNCHANGED <<disk, configured, newFormat, cache, joined, asked, loading, loaded>>

\* loadCredentials, a few promise reactions later.  An id of another project
\* is an error.
ReadCredentials == \E p \in pending : \E s \in p.sees :
    /\ LET new == Read(s.place, s.settings, disk[s.place].credentials) IN
       pending' = {[p EXCEPT !.sees = {}, !.found = p.found \cup new,
                             !.failed = Ids(p.found) \cap Ids(new) # {}]}
    /\ UNCHANGED <<disk, configured, newFormat, cache, joined, asked, loading, loaded>>

\* The calls that joined go on one after the other; each stores the result
\* under its own signature.  A new parse can begin when none is left pending.
ParseEnds(p, rest) ==
    /\ \/ p.left = {} /\ p.sees = {}
       \/ p.failed
    /\ pending' = rest /\ joined' = <<>> /\ asked' = [c \in Loader |-> NotAsked]
    /\ IF p.failed
       THEN /\ loading' = [c \in Loader |-> IF loading[c] = "waiting" THEN "failed" ELSE loading[c]]
            /\ UNCHANGED <<cache, loaded>>
       ELSE /\ cache' = {[signature |-> asked[joined[Len(joined)]].signature,
                          content |-> p.found, clean |-> p.clean]}
            /\ LET own(c) == Configured(asked[c].configured)
                   ambiguous(c) == Ids(own(c)) \cap Ids(p.found) # {} IN
               /\ loading' = [c \in Loader |->
                      IF loading[c] # "waiting" THEN loading[c]
                      ELSE IF ambiguous(c) THEN "failed" ELSE "loaded"]
               /\ loaded' = [c \in Loader |->
                      IF loading[c] # "waiting" \/ ambiguous(c) THEN loaded[c]
                      ELSE own(c) \cup p.found]
    /\ UNCHANGED <<disk, configured, newFormat>>

\* Mutant: a parse that failed stays pending.
SettleKeepsFailed == \E p \in pending : ParseEnds(p, {q \in pending : q.failed})

Settle == \E p \in pending : ParseEnds(p, {})

\* What a call was given, or its error, is used.
Used(c) == /\ loading[c] \in {"loaded", "failed"}
           /\ loading' = [loading EXCEPT ![c] = "no"]
           /\ loaded' = [loaded EXCEPT ![c] = {}]
           /\ UNCHANGED <<disk, configured, newFormat, cache, pending, joined, asked>>

\* DBeaver or the operator writes or removes a file, whatever the server does.
EditFile == /\ \E p \in Place, v \in Contents :
                  \/ disk[p].connections # v /\ disk' = [disk EXCEPT ![p].connections = v]
                  \/ disk[p].credentials # v /\ disk' = [disk EXCEPT ![p].credentials = v]
            /\ pending' = {[p EXCEPT !.clean = FALSE] : p \in pending}
            /\ UNCHANGED <<configured, newFormat, cache, joined, asked, loading, loaded>>

EditConfig == /\ \E v \in Contents : v # configured /\ configured' = v
              /\ UNCHANGED <<disk, newFormat, cache, pending, joined, asked, loading, loaded>>

\* The process ends and is started again.
WorkspaceRestart ==
    /\ newFormat' \in DetectNewFormat
    /\ cache' = {} /\ pending' = {} /\ joined' = <<>>
    /\ asked' = [c \in Loader |-> NotAsked]
    /\ loading' = [c \in Loader |-> "no"]
    /\ loaded' = [c \in Loader |-> {}]
    /\ UNCHANGED <<disk, configured>>

Parse == ReadConnections \/ ReadCredentials \/ Settle

WorkspaceNext == \/ \E c \in Loader : ConfigFails(c) \/ Cached(c) \/ Load(c) \/ Used(c)
                 \/ Parse
                 \/ EditFile \/ EditConfig \/ WorkspaceRestart

WorkspaceSpec == WorkspaceInit /\ [][WorkspaceNext]_workspaceVars

-----------------------------------------------------------------------------
WorkspaceTypeOK ==
    /\ disk \in [Place -> [connections : Contents, credentials : Contents]]
    /\ configured \in Contents
    /\ newFormat \in BOOLEAN
    /\ \A m \in cache : m.content \subseteq Connection /\ m.clean \in BOOLEAN
    /\ pending \subseteq ParseState
    /\ joined \in Seq(Loader)
    /\ loading \in [Loader -> {"no", "waiting", "loaded", "failed"}]
    /\ loaded \in [Loader -> SUBSET Connection]

\* What a parse in this format that nobody disturbs would find now.
Current(new) == UNION {Read(p, disk[p].connections, disk[p].credentials) :
                          p \in {q \in Places(new) : disk[q].connections \in Sound}}

\* While the detected format has its file, a parse that no file was edited
\* under is served for exactly as long as the files are those it read: though
\* the format may switch between the signature and the reading, parses fail,
\* and calls share a parse and store it under their own signatures
\* (config-parser.ts:254).
CacheFresh == \A m \in cache :
    m.signature = Signature /\ m.clean /\ Exists(newFormat) => m.content = Current(newFormat)

\* "Workspace data is cached until its connection or credential files change"
\* (docs-site/docs/getting-started/configuration.md:67): what is cached under
\* the stat of today's files is what they say.
CachedUntilChanged == \A m \in cache :
    m.signature = Signature =>
        m.content = Current(IF Exists(newFormat) THEN newFormat ELSE ~newFormat)

\* A call waits only for a parse under way, and each call that waits will be
\* told its end, however many share it and whether it succeeds
\* (config-parser.ts:252).
WaitsJoined == /\ {c \in Loader : loading[c] = "waiting"} = {joined[i] : i \in DOMAIN joined}
               /\ joined # <<>> <=> pending # {}

=============================================================================
