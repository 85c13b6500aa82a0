-------------------------------- MODULE Notes --------------------------------
(***************************************************************************)
(* runtime/notes.ts, class PrivateNotes, and what server.ts does with it:  *)
(* one bounded list of insights per scope, a digest of the configuration   *)
(* files and the access policy.  A call looks at the scope first, loads    *)
(* the list of a new one, and waits for its connection before it uses the  *)
(* list; other calls and changes of the scope come in between.             *)
(***************************************************************************)
EXTENDS Naturals, Sequences, FiniteSets

CONSTANTS
  NoteCall,        (* calls of append_insight and list_insights            *)
  Scope,           (* values of privateStateScope                          *)
  maxInsights      (* MAX_INSIGHTS; save's limit in bytes drops alike      *)

ASSUME NotesAssumption == maxInsights \in Nat \ {0}

VARIABLES
  scope,           (* the scope of the configuration and policy now        *)
  files,           (* insights.json of the scopes that have one            *)
  notesScope,      (* the scope the last refresh saw                       *)
  store,           (* the scope whose directory this.notes writes to       *)
  insights,        (* this.insights: who appended each                     *)
  noting,          (* how far a call has got                               *)
  during,          (* the scopes there were since a call refreshed         *)
  spoilt           (* directories written to after a refresh failed        *)

notesVars == <<scope, files, notesScope, store, insights, noting, during, spoilt>>

\* The constructor of the server loads what there is for its scope.
NotesInit ==
    /\ scope \in Scope
    /\ files = <<>>
    /\ notesScope = scope /\ store = scope /\ insights = <<>>
    /\ noting = [c \in NoteCall |-> "no"]
    /\ during = [c \in NoteCall |-> {}]
    /\ spoilt = {}

-----------------------------------------------------------------------------
\* saveInsights and save keep the newest.
Retained(list) == IF Len(list) <= maxInsights THEN list
                  ELSE SubSeq(list, Len(list) - maxInsights + 1, Len(list))

\* load: no notes without a file.
Filed(s) == IF s \in DOMAIN files THEN Retained(files[s]) ELSE <<>>

Enters(c) == /\ noting[c] = "no"
             /\ noting' = [noting EXCEPT ![c] = "fresh"]
             /\ during' = [during EXCEPT ![c] = {scope}]

Fails(c) == /\ noting' = [noting EXCEPT ![c] = "failed"]
            /\ during' = [during EXCEPT ![c] = {}]

\* Mutant: the list of the old scope is kept in memory.
RefreshKeeps(c) ==
    /\ Enters(c)
    /\ notesScope' = scope /\ store' = scope
    /\ UNCHANGED <<scope, files, insights, spoilt>>

\* refreshNotes: nothing to do in the scope it knows, otherwise the directory
\* and the list of the new one.
Refresh(c) ==
    /\ Enters(c)
    /\ IF scope = notesScope THEN UNCHANGED <<notesScope, store, insights>>
       ELSE /\ notesScope' = scope /\ store' = scope
            /\ insights' = Filed(scope)
    /\ UNCHANGED <<scope, files, spoilt>>

\* The scope is taken over before the directory is made and the list is read.
\* If one of them fails, the next call sees no change and uses what is there.
RefreshFails(c) ==
    /\ noting[c] = "no" /\ scope # notesScope
    /\ notesScope' = scope
    /\ \/ UNCHANGED store
       \/ store' = scope
    /\ spoilt' = spoilt \cup {store'}
    /\ Fails(c)
    /\ UNCHANGED <<scope, files, insights>>

\* The scope cannot be computed, the text is empty, or the connection of the
\* insight is unknown or not allowed.
NoteRefused(c) == /\ noting[c] \in {"no", "fresh"}
                  /\ Fails(c)
                  /\ UNCHANGED <<scope, files, notesScope, store, insights, spoilt>>

\* handleAppendInsight after its await.  A failed save is only logged: the
\* insight is then in memory alone.
AppendInsight(c) ==
    /\ noting[c] = "fresh"
    /\ insights' = Retained(Append(insights, c))
    /\ \/ files' = [s \in DOMAIN files \cup {store} |-> IF s = store THEN insights' ELSE files[s]]
       \/ UNCHANGED files
    /\ noting' = [noting EXCEPT ![c] = "done"]
    /\ UNCHANGED <<scope, notesScope, store, during, spoilt>>

\* handleListInsights after its await shows what the list has then.
ListInsights(c) == /\ noting[c] = "fresh"
                   /\ noting' = [noting EXCEPT ![c] = "done"]
                   /\ UNCHANGED <<scope, files, notesScope, store, insights, during, spoilt>>

\* The operator edits the configuration or the policy.
ScopeBecomes(s) ==
    /\ scope' = s
    /\ during' = [c \in NoteCall |-> IF noting[c] = "fresh" THEN during[c] \cup {s} ELSE during[c]]

ScopeChanges == /\ \E s \in Scope : ScopeBecomes(s)
                /\ UNCHANGED <<files, notesScope, store, insights, noting, spoilt>>

\* The process ends and is started again, maybe in another scope.  Notes that
\* cannot be read then are taken for none.
NotesRestart ==
    /\ scope' \in Scope /\ notesScope' = scope' /\ store' = scope'
    /\ insights' \in {Filed(scope'), <<>>}
    /\ noting' = [c \in NoteCall |-> IF noting[c] = "fresh" THEN "failed" ELSE noting[c]]
    /\ UNCHANGED <<files, during, spoilt>>

NotesNext == \/ \E c \in NoteCall : \/ Refresh(c) \/ RefreshFails(c) \/ NoteRefused(c)
                                    \/ AppendInsight(c) \/ ListInsights(c)
             \/ ScopeChanges \/ NotesRestart

NotesSpec == NotesInit /\ [][NotesNext]_notesVars

-----------------------------------------------------------------------------
Elements(list) == {list[i] : i \in DOMAIN list}

NotesTypeOK ==
    /\ scope \in Scope /\ notesScope \in Scope /\ store \in Scope
    /\ DOMAIN files \subseteq Scope /\ \A s \in DOMAIN files : files[s] \in Seq(NoteCall)
    /\ insights \in Seq(NoteCall)
    /\ noting \in [NoteCall -> {"no", "fresh", "done", "failed"}]
    /\ during \in [NoteCall -> SUBSET Scope]
    /\ spoilt \subseteq Scope

\* "Changing that scope starts a separate note collection"
\* (docs-site/docs/guides/access.md:108): a file of a scope holds insights of
\* calls that ran in it, and whoever reads the list, a scope of its own call is
\* one of the call that wrote the insight.  The code breaks this: a refresh
\* that fails has taken the new scope over already (server.ts:246), and the
\* next call uses the old list, or writes to the old directory.
NotesApart ==
    /\ \A s \in DOMAIN files : \A c \in Elements(files[s]) : s \in during[c]
    /\ \A c \in NoteCall : noting[c] = "fresh" =>
          \A d \in Elements(insights) : during[c] \cap during[d] # {}

\* How far that goes wrong (server.ts:246, 1849): notes are apart, however
\* calls and changes of the scope overlap, until a refresh fails, and then
\* only the file of the directory written to after it holds insights of other
\* scopes.
ApartUnlessFailed ==
    /\ spoilt = {} => NotesApart
    /\ \A s \in DOMAIN files \ spoilt : \A c \in Elements(files[s]) : s \in during[c]

=============================================================================
