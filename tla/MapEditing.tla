------------------------------ MODULE MapEditing ------------------------------
(* One tab of the web client editing a map (apps/web/src/features/my-maps/model) against a server
   that other tabs write to as well. The tab holds copies that age apart from one another: the cached
   map detail, whose revision its writes carry; the features drawn on the map; an open form. Requests
   and answers take time, and an answer may be lost while its request travels on.

   The map has one layer with a style and one feature. A style is the number of the user's choice, a
   feature the revision of the write that last changed it. *)
EXTENDS Integers, Sequences, FiniteSets

CONSTANTS
    MaxElsewhere, \* other tabs write while the map's revision is below this
    MaxChoices,   \* bound on the style changes of the user
    MaxForms,     \* bound on the forms saved
    Null, Sent

\* Where the write that runs is: before its request, with the server, answered, reading again.
Stages == {"reading", "read", "sent", "done", "gone", "refused", "listing", "rereading", "reread"}

\* No number is Null, and no running write is.
ASSUME MapEditingAssumption ==
    /\ MaxElsewhere \in Nat /\ MaxChoices \in Nat /\ MaxForms \in Nat
    /\ Null \notin Nat
    /\ Null \notin [request : [kind : {"style", "feature"}, value : Nat, expected : Nat],
                    stage : Stages, revision : Nat]

VARIABLES
    server,    \* [revision, style, feature, gone]
    cached,    \* the detail in the query cache: [revision, style], or Null
    get,       \* the GET of the detail under way: Null, Sent, or the detail it answers
    pending,   \* the style whose save waits for a quiet moment, or Null
    queue,     \* the writes waiting behind the current one (chains)
    writing,   \* the write that runs: [request, stage, revision], or Null
    lost,      \* requests whose answer the client has given up on, and the server may still see
    shown,     \* the feature in the source of the map, or Null
    reads,     \* viewport reads under way: [current, value]
    form,      \* the feature the open form was filled with, or Null
    chosen,    \* the number of the last style choice
    settled,   \* the style choices saved, or reported as failed
    applied,   \* the style choices that reached the server
    forms,     \* the number of forms saved
    ownSave    \* the feature as last saved, once the client knows

sending == <<cached, get, pending, queue, writing, lost>>
viewing == <<shown, reads, form, forms, ownSave>>
styles == <<chosen, settled>>
tabVars == <<server, sending, viewing, styles, applied>>

Some(x) == x # Null

TabInit ==
    /\ server = [revision |-> 0, style |-> 0, feature |-> 0, gone |-> FALSE]
    /\ cached = Null /\ get = Null /\ pending = Null
    /\ queue = <<>> /\ writing = Null /\ lost = {}
    /\ shown = Null /\ reads = {} /\ form = Null
    /\ chosen = 0 /\ settled = {} /\ applied = {} /\ forms = 0 /\ ownSave = 0

\* Mutant of Accepts: a write of any revision is taken.
AcceptsAnyRevision(request) == ~ server.gone

------------------------------------------------------------------------------
(* The server: one revision for the map, compared by every write under the map's lock. *)
Accepts(request) == ~ server.gone /\ server.revision = request.expected

Applies(request) ==
    LET next == server.revision + 1
    IN IF request.kind = "style"
         THEN /\ server' = [server EXCEPT !.revision = next, !.style = request.value]
              /\ applied' = applied \cup {request.value}
         ELSE /\ server' = [server EXCEPT !.revision = next, !.feature = next]
              /\ UNCHANGED applied

\* Another tab reshapes the feature, sets the style (to no choice of this user's), or removes the map.
Elsewhere ==
    /\ ~ server.gone
    /\ server.revision < MaxElsewhere
    /\ \/ server' = [server EXCEPT !.revision = @ + 1, !.feature = server.revision + 1]
       \/ server' = [server EXCEPT !.revision = @ + 1, !.style = 0]
       \/ server' = [server EXCEPT !.gone = TRUE]
    /\ UNCHANGED <<sending, viewing, styles, applied>>

------------------------------------------------------------------------------
(* The detail query (useMapDetail, mapDetailQuery). *)

\* A component that mounts on a stale query reads it again.
SendGet ==
    /\ ~ Some(get)
    /\ get' = Sent
    /\ UNCHANGED <<server, cached, pending, queue, writing, lost, viewing, styles, applied>>

AnswerGet ==
    /\ get = Sent
    /\ ~ server.gone
    /\ get' = [revision |-> server.revision, style |-> server.style]
    /\ UNCHANGED <<server, cached, pending, queue, writing, lost, viewing, styles, applied>>

\* Mutant of GetEnds: the write that waits for the read is not told of its end.
GetEndsUnheard == get' = Null /\ UNCHANGED writing

\* The write that waits for a refetch goes on once it ended, whichever way.
GetEnds ==
    /\ get' = Null
    /\ writing' = IF Some(writing) /\ writing.stage \in {"reading", "rereading"}
                     THEN [writing EXCEPT !.stage = IF @ = "reading" THEN "read" ELSE "reread"]
                     ELSE writing

DeliverGet ==
    /\ get \notin {Null, Sent}
    /\ cached' = get
    /\ GetEnds
    /\ UNCHANGED <<server, pending, queue, lost, viewing, styles, applied>>

GetFails ==
    /\ get = Sent
    /\ GetEnds
    /\ UNCHANGED <<server, cached, pending, queue, lost, viewing, styles, applied>>

\* forgetMap: the layers leave the map, the table with its form closes.
Forget ==
    /\ cached' = Null
    /\ shown' = Null /\ reads' = {} /\ form' = Null
    /\ UNCHANGED <<forms, ownSave>>

\* The map's own 404: dropGoneMap.
GetGone ==
    /\ get = Sent
    /\ server.gone
    /\ GetEnds
    /\ Forget
    /\ UNCHANGED <<server, pending, queue, lost, styles, applied>>

------------------------------------------------------------------------------
(* Style changes (useLayerEditorPresenter). *)

\* setStyle: shown at once, saved after a quiet moment; a newer change takes the older one's place.
ChangeStyle ==
    /\ chosen < MaxChoices
    /\ Some(cached)
    /\ chosen' = chosen + 1
    /\ pending' = chosen + 1
    /\ cached' = [cached EXCEPT !.style = chosen + 1]
    /\ settled' = settled \cup (IF Some(pending) THEN {pending} ELSE {})
    /\ UNCHANGED <<server, get, queue, writing, lost, viewing, applied>>

\* The quiet moment is over, or the dialog closes inside it.
SaveStyle ==
    /\ Some(pending)
    /\ queue' = Append(queue, [kind |-> "style", value |-> pending])
    /\ pending' = Null
    /\ UNCHANGED <<server, cached, get, writing, lost, viewing, styles, applied>>

\* reapplyPending: a choice still waiting goes back over what a refetch brought in.
Reapplied(detail) ==
    IF Some(pending) /\ Some(detail) THEN [detail EXCEPT !.style = pending] ELSE detail

------------------------------------------------------------------------------
(* The writes of the map, one at a time (useMapWrite). *)

Settle(write) == settled' = IF write.kind = "style" THEN settled \cup {write.value} ELSE settled

\* runNow with the cached revision; without a cached detail it is read first (or a GET joined).
Runs(write, stage, expected) ==
    writing' = [request |-> [kind |-> write.kind, value |-> write.value, expected |-> expected],
                stage |-> stage, revision |-> 0]

StartWrite ==
    /\ ~ Some(writing)
    /\ queue # <<>>
    /\ queue' = Tail(queue)
    /\ IF Some(cached)
         THEN Runs(Head(queue), "sent", cached.revision) /\ UNCHANGED get
         ELSE /\ Runs(Head(queue), "reading", 0)
              /\ get' = IF Some(get) THEN get ELSE Sent
    /\ UNCHANGED <<server, cached, pending, lost, viewing, styles, applied>>

\* That read ended; its failure, or the 404 of a map that is gone, is the write's.
ReadFirst ==
    /\ Some(writing) /\ writing.stage = "read"
    /\ IF Some(cached)
         THEN Runs(writing.request, "sent", cached.revision) /\ UNCHANGED settled
         ELSE writing' = Null /\ Settle(writing.request)
    /\ UNCHANGED <<server, cached, get, pending, queue, lost, viewing, chosen, applied>>

\* The request reaches the server, and its answer the client.
Answered ==
    /\ Some(writing) /\ writing.stage = "sent"
    /\ IF Accepts(writing.request)
         THEN /\ Applies(writing.request)
              /\ writing' = [writing EXCEPT !.stage = "done", !.revision = server.revision + 1]
         ELSE /\ writing' = [writing EXCEPT !.stage = IF server.gone THEN "gone" ELSE "refused"]
              /\ UNCHANGED <<server, applied>>
    /\ UNCHANGED <<cached, get, pending, queue, lost, viewing, styles>>

\* Mutant of LoseAnswer: the error goes nowhere.
LoseAnswerSilently ==
    /\ Some(writing) /\ writing.stage = "sent"
    /\ lost' = lost \cup {writing.request}
    /\ writing' = Null
    /\ cached' = Reapplied(cached)
    /\ UNCHANGED <<server, get, pending, queue, viewing, styles, applied>>

\* The connection breaks: runNow throws and reads nothing again. The server may still see the request.
LoseAnswer ==
    /\ Some(writing) /\ writing.stage = "sent"
    /\ lost' = lost \cup {writing.request}
    /\ writing' = Null
    /\ cached' = Reapplied(cached)
    /\ Settle(writing.request)
    /\ UNCHANGED <<server, get, pending, queue, viewing, chosen, applied>>

Late(request) ==
    /\ lost' = lost \ {request}
    /\ IF Accepts(request) THEN Applies(request) ELSE UNCHANGED <<server, applied>>
    /\ UNCHANGED <<cached, get, pending, queue, writing, viewing, styles>>

\* refreshPersonalLayer: a new generation, an empty source, the view read again.
RefreshLayer ==
    /\ shown' = Null
    /\ reads' = {[r EXCEPT !.current = FALSE] : r \in reads} \cup {[current |-> TRUE, value |-> Null]}

\* invalidateQueries on a query in use: a GET under way is dropped and another one sent.
Reread ==
    /\ get' = Sent
    /\ writing' = [writing EXCEPT !.stage = "rereading"]

\* The answered revision goes into the cache; a style save leaves the detail at that.
MoveRevision ==
    /\ Some(writing) /\ writing.stage = "done"
    /\ cached' = IF Some(cached) THEN [cached EXCEPT !.revision = writing.revision] ELSE cached
    /\ IF writing.request.kind = "style"
         THEN writing' = [writing EXCEPT !.stage = "listing"] /\ UNCHANGED get
         ELSE Reread
    /\ UNCHANGED <<server, pending, queue, lost, viewing, styles, applied>>

\* The lists are read again; then `after`: the saved layer goes into the cache, a newer choice over it.
StyleSaved ==
    /\ Some(writing) /\ writing.stage = "listing"
    /\ cached' = IF Some(cached)
                    THEN Reapplied([cached EXCEPT !.style = writing.request.value]) ELSE cached
    /\ writing' = Null
    /\ Settle(writing.request)
    /\ UNCHANGED <<server, get, pending, queue, lost, viewing, chosen, applied>>

\* MAP_CHANGED: everything is read again, then MapChangedError.
MapChanged ==
    /\ Some(writing) /\ writing.stage = "refused"
    /\ Reread
    /\ UNCHANGED <<server, cached, pending, queue, lost, viewing, styles, applied>>

\* The refetch ended: a refused write is reported, its form keeping what was typed; a saved feature's
\* layer is read again, and the form stays open on it.
WriteEnds ==
    /\ Some(writing) /\ writing.stage = "reread"
    /\ writing' = Null
    /\ cached' = Reapplied(cached)
    /\ IF writing.revision = 0
         THEN Settle(writing.request) /\ UNCHANGED viewing
         ELSE /\ ownSave' = writing.revision
              /\ form' = IF Some(form) THEN writing.revision ELSE form
              /\ RefreshLayer
              /\ UNCHANGED <<settled, forms>>
    /\ UNCHANGED <<server, get, pending, queue, lost, chosen, applied>>

\* The map's own 404: the query is removed, with any GET it had under way. A form's save forgets the map,
\* a style's only reports it: the next read of the map is what forgets it.
WriteGone ==
    /\ Some(writing) /\ writing.stage = "gone"
    /\ writing' = Null /\ get' = Null
    /\ IF writing.request.kind = "feature" THEN Forget ELSE cached' = Null /\ UNCHANGED viewing
    /\ Settle(writing.request)
    /\ UNCHANGED <<server, pending, queue, lost, chosen, applied>>

------------------------------------------------------------------------------
(* The features on the map and the form (personalLayers, usePersonalEditingPresenter). *)

\* The view needs features it has not read.
SendRead ==
    /\ reads' = reads \cup {[current |-> TRUE, value |-> Null]}
    /\ UNCHANGED <<server, sending, shown, form, forms, ownSave, styles, applied>>

AnswerRead(r) ==
    /\ ~ Some(r.value)
    /\ ~ server.gone
    /\ reads' = (reads \ {r}) \cup {[r EXCEPT !.value = server.feature]}
    /\ UNCHANGED <<server, sending, shown, form, forms, ownSave, styles, applied>>

\* Mutant of DeliverRead: a read of an older generation counts too.
DeliverAnyRead(r) ==
    /\ Some(r.value)
    /\ reads' = reads \ {r}
    /\ shown' = IF ~ Some(shown) THEN r.value ELSE shown
    /\ UNCHANGED <<server, sending, form, forms, ownSave, styles, applied>>

\* The loader: a read of an older generation is dropped, and a feature already there stays.
DeliverRead(r) ==
    /\ Some(r.value)
    /\ reads' = reads \ {r}
    /\ shown' = IF r.current /\ ~ Some(shown) THEN r.value ELSE shown
    /\ UNCHANGED <<server, sending, form, forms, ownSave, styles, applied>>

\* openFeature: the form takes the shape the map shows.
OpenForm ==
    /\ ~ Some(form)
    /\ Some(shown) /\ Some(cached)
    /\ form' = shown
    /\ UNCHANGED <<server, sending, shown, reads, forms, ownSave, styles, applied>>

LeaveForm ==
    /\ Some(form)
    /\ form' = Null
    /\ UNCHANGED <<server, sending, shown, reads, forms, ownSave, styles, applied>>

Saving ==
    \/ \E i \in DOMAIN queue : queue[i].kind = "feature"
    \/ Some(writing) /\ writing.request.kind = "feature"

\* The user moves the form's shape and saves it: the whole shape is sent.
SaveForm ==
    /\ Some(form)
    /\ ~ Saving
    /\ forms < MaxForms
    /\ forms' = forms + 1
    /\ queue' = Append(queue, [kind |-> "feature", value |-> form])
    /\ UNCHANGED <<server, cached, get, pending, writing, lost, shown, reads, form, ownSave, styles, applied>>

------------------------------------------------------------------------------
TabNext ==
    \/ Elsewhere
    \/ SendGet \/ AnswerGet \/ DeliverGet \/ GetFails \/ GetGone
    \/ ChangeStyle \/ SaveStyle \/ StartWrite \/ ReadFirst \/ Answered \/ LoseAnswer
    \/ MoveRevision \/ StyleSaved \/ MapChanged \/ WriteEnds \/ WriteGone
    \/ \E request \in lost : Late(request)
    \/ SendRead \/ \E r \in reads : AnswerRead(r) \/ DeliverRead(r)
    \/ OpenForm \/ LeaveForm \/ SaveForm

TabSpec == TabInit /\ [][TabNext]_tabVars

\* Timers fire, the promise chain goes on, and a request is answered or breaks off.
FairTab ==
    /\ TabSpec
    /\ WF_tabVars(SaveStyle) /\ WF_tabVars(StartWrite) /\ WF_tabVars(ReadFirst)
    /\ WF_tabVars(Answered) /\ WF_tabVars(AnswerGet \/ GetGone) /\ WF_tabVars(DeliverGet)
    /\ WF_tabVars(MoveRevision) /\ WF_tabVars(StyleSaved) /\ WF_tabVars(MapChanged)
    /\ WF_tabVars(WriteEnds) /\ WF_tabVars(WriteGone)

------------------------------------------------------------------------------
(* The user's last style choice is never dropped without a word: it waits, it is queued, it is being
   written, or it has been saved or reported as failed, through replaced timers, refetches that bring
   the old style back, refused writes, broken connections and a map that goes. *)
LastChoiceKept ==
    \/ chosen = 0 \/ chosen = pending \/ chosen \in settled
    \/ \E i \in DOMAIN queue : queue[i] = [kind |-> "style", value |-> chosen]
    \/ Some(writing) /\ writing.request.kind = "style" /\ writing.request.value = chosen

(* The user's choices reach the server in the order they were made: a request the client gave up on
   and the one after it carry revisions that only one of them can still match. *)
ChoicesInOrder ==
    [][\A new \in applied' \ applied : \A old \in applied : old < new]_tabVars

(* After a save is through, neither the map nor the form shows the feature from before it: a viewport
   read that was under way when the layer was read again is dropped, however late it comes, and a form
   opened on the old shape in the meantime takes the saved one. *)
OwnSaveShown == \A copy \in {shown, form} : Some(copy) => copy >= ownSave

(* Every change settles: what the user chose or saved is in the end on the server or reported, with
   nothing left waiting in the chain of the map, also when the map goes away beneath it. *)
EveryWriteSettles ==
    Some(pending) \/ queue # <<>> \/ Some(writing) ~> ~ Some(pending) /\ queue = <<>> /\ ~ Some(writing)
===============================================================================
