----------------------------- MODULE UiSession -----------------------------
(***************************************************************************)
(* The main thread (src/ui/app.js) and its web worker (src/ui/worker.js).  *)
(*                                                                         *)
(* The main thread holds what the user sees; the worker holds the parsed   *)
(* capture.  They share nothing: the page posts numbered requests, the     *)
(* worker posts one numbered reply to each, and a promise per request      *)
(* (`pending`) runs the rest of the handler that made it.  A handler runs  *)
(* to its next await without interruption, so a step below is one handler  *)
(* up to its await, or one reply and the code after the await.             *)
(*                                                                         *)
(* A capture is an element of Captures; what the page learns of it is its  *)
(* identity and its packet numbers.  Rendering, progress percentages and   *)
(* the suggestion box are left out, and so is the download of one carved   *)
(* file, which changes no state on either side.                            *)
(***************************************************************************)
EXTENDS Integers, Sequences, FiniteSets

CONSTANTS
    Captures,   \* the files a user may open
    Unreadable, \* those readCapture rejects
    PacketNos,  \* packet numbers
    PacketsOf,  \* PacketsOf[c]: the packet numbers of capture c
    Exprs,      \* non-empty filter texts
    Invalid,    \* those that do not compile
    Matches,    \* Matches[e]: the packet numbers filter e selects
    NoText,     \* the empty filter text
    Bundled,    \* TRUE: the dist build, where import() needs no event-loop turn
    None,       \* JavaScript's null / undefined
    MaxCalls,   \* bound: requests one session makes
    MaxGen      \* bound: times the user goes home

ASSUME SessionAssumption ==
    /\ Unreadable \subseteq Captures
    /\ PacketsOf \in [Captures -> SUBSET PacketNos]
    /\ Invalid \subseteq Exprs
    /\ Matches \in [Exprs -> SUBSET PacketNos]
    /\ Bundled \in BOOLEAN
    /\ MaxCalls \in Nat /\ MaxGen \in Nat
    /\ None \notin Captures /\ None \notin PacketNos
    /\ NoText \notin Exprs

VARIABLES
    \* the page
    reqId,      \* state.reqId, never reset
    pending,    \* state.pending: the calls whose promise is unresolved
    view,       \* rows, meta and analysis of a capture, and the load that set them
    filtered,   \* state.filtered with state.filterMatched
    box,        \* the text of the filter input
    selected,   \* state.selected
    cache,      \* state.detailCache
    shown,      \* the detail pane
    follow,     \* the follow-stream overlay (follow.js: current)
    loadGen,    \* state.loadGen
    reading,    \* files chosen whose arrayBuffer() (or sample import) is unresolved
    timers,     \* packets a setTimeout is going to select
    progress,   \* the progress bar is visible
    \* the worker and the two message queues
    inbox, outbox,
    packets,    \* PACKETS, STATE and CAPTURE: the capture they describe
    modules,    \* the lazily imported modules it has
    suspended,  \* handlers waiting for an import()
    \* history, for the properties only
    loads       \* the loads begun since the last goHome

page == <<reqId, pending, view, filtered, box, selected, cache, shown, follow,
          loadGen, reading, timers, progress>>
worker == <<inbox, outbox, packets, modules, suspended>>
vars == <<page, worker, loads>>

-----------------------------------------------------------------------------
(* Types *)

Kinds == {"load", "detail", "filter", "validate", "stream", "export"}
Args == Captures \cup PacketNos \cup Exprs \cup {NoText, None}
Texts == Exprs \cup {NoText}

\* What a request of each kind is about.
ArgsOf(kind) ==
    CASE kind \in {"load", "stream"} -> Captures
      [] kind = "detail" -> PacketNos
      [] kind \in {"filter", "validate"} -> Exprs
      [] kind = "export" -> Texts

Fits(q) == q.arg \in ArgsOf(q.kind)

Request == {q \in [id : Nat, kind : Kinds, arg : Args] : Fits(q)}
Call == {q \in [id : Nat, kind : Kinds, arg : Args, seen : Texts] : Fits(q)}
Task == {q \in [id : Nat, kind : Kinds, arg : Args,
                need : {"analysis", "filter", "reader"}] : Fits(q)}
Reply == [id : Nat, type : {"loaded", "answer", "invalid", "error"},
          arg : Args, cap : Captures \cup {None}]
\* An error reply is cached and shown like a detail; it has no capture.
Detail == [cap : Captures \cup {None}, n : Args]

TypeOK ==
    /\ reqId \in Nat
    /\ pending \subseteq Call
    /\ view \in [load : Nat, cap : Captures \cup {None}] \cup {None}
    /\ filtered \in [expr : Exprs, cap : Captures \cup {None}] \cup {None}
    /\ box \in Texts
    /\ selected \in PacketNos \cup {None}
    /\ cache \in [PacketNos -> Detail \cup {None}]
    /\ shown \in Detail \cup {None}
    /\ follow \in Captures \cup {None}
    /\ loadGen \in Nat
    /\ reading \subseteq [cap : Captures, gen : Nat, sample : BOOLEAN]
    /\ timers \subseteq PacketNos
    /\ progress \in BOOLEAN
    /\ inbox \in Seq(Request)
    /\ outbox \in Seq(Reply)
    /\ packets \in Captures \cup {None}
    /\ modules \subseteq {"analysis", "filter"}
    /\ suspended \in Seq(Task)
    /\ loads \subseteq [id : Nat, cap : Captures, gen : Nat, failed : BOOLEAN]

-----------------------------------------------------------------------------
(* The page: what its handlers share *)

\* state.filtered's expression; no text when the whole capture is listed.
Applied == IF filtered = None THEN NoText ELSE filtered.expr

\* call(): number the request, remember who waits for it, post it.
Post(kind, arg) ==
    /\ reqId' = reqId + 1
    /\ pending' = pending \cup
         {[id |-> reqId + 1, kind |-> kind, arg |-> arg, seen |-> Applied]}
    /\ inbox' = Append(inbox, [id |-> reqId + 1, kind |-> kind, arg |-> arg])

NoPost == UNCHANGED <<reqId, pending, inbox>>

\* Every step that leads to a call reserves it, so that the bound never cuts a
\* handler in two.
Budget == reqId + Cardinality(reading) + Cardinality(timers) < MaxCalls

\* Faulty variant: the details of the old capture survive.
ResetViewKeepingCache ==
    /\ view' = None
    /\ filtered' = None
    /\ selected' = None
    /\ shown' = None
    /\ box' = NoText
    /\ UNCHANGED cache

ResetView ==
    /\ view' = None
    /\ filtered' = None
    /\ selected' = None
    /\ cache' = [n \in PacketNos |-> None]
    /\ shown' = None
    /\ box' = NoText

\* The packets the list shows: state.filtered || state.rows.
ActiveRows ==
    IF view = None THEN {}
    ELSE LET rows == IF view.cap = None THEN {} ELSE PacketsOf[view.cap]
         IN  IF filtered = None THEN rows
             ELSE rows \cap Matches[filtered.expr]

\* selectPacket(n) up to its await; a cached detail is drawn at once.
SelectPacket(n) ==
    /\ selected' = n
    /\ \/ /\ cache[n] # None
          /\ shown' = cache[n]
          /\ NoPost
       \/ /\ cache[n] = None
          /\ Post("detail", n)
          /\ UNCHANGED shown

-----------------------------------------------------------------------------
(* User actions *)

\* openFile up to `await file.arrayBuffer()`, loadSample up to its import.
ChooseFile(c, sample) ==
    /\ Budget
    /\ reading' = reading \cup {[cap |-> c, gen |-> loadGen, sample |-> sample]}
    /\ [cap |-> c, gen |-> loadGen, sample |-> sample] \notin reading
    /\ progress' = (progress \/ sample)
    /\ UNCHANGED <<reqId, pending, view, filtered, box, selected, cache, shown,
                   follow, loadGen, timers, worker, loads>>

\* Faulty variant: the generation captured before the await is not compared.
AnyRead(r) == TRUE

\* The check after the await: no goHome since the file was chosen.
StillWanted(r) == r.gen = loadGen

\* Reads end in any order.  A read begun before goHome is dropped; any other
\* clears the view and posts the load.
ReadDone(r) ==
    /\ r \in reading
    /\ reading' = reading \ {r}
    /\ StillWanted(r)
    /\ ResetView
    /\ Post("load", r.cap)
    /\ progress' = TRUE
    /\ loads' = loads \cup
         {[id |-> reqId + 1, cap |-> r.cap, gen |-> r.gen, failed |-> FALSE]}
    /\ UNCHANGED <<follow, loadGen, timers, outbox, packets, modules, suspended>>

ReadDropped(r) ==
    /\ r \in reading
    /\ reading' = reading \ {r}
    /\ ~StillWanted(r)
    /\ UNCHANGED <<reqId, pending, view, filtered, box, selected, cache, shown,
                   follow, loadGen, timers, progress, worker, loads>>

\* arrayBuffer() or the sample's import rejects; only loadSample catches it.
ReadFails(r) ==
    /\ r \in reading
    /\ reading' = reading \ {r}
    /\ progress' = (progress /\ ~r.sample)
    /\ UNCHANGED <<reqId, pending, view, filtered, box, selected, cache, shown,
                   follow, loadGen, timers, worker, loads>>

\* Faulty variant: the promises of the terminated worker's calls stay.
KeepCalls == UNCHANGED pending

ForgetCalls == pending' = {}

\* terminate() discards what either side had queued for the other.
GoHome ==
    /\ loadGen < MaxGen
    /\ loadGen' = loadGen + 1
    /\ ForgetCalls
    /\ inbox' = <<>> /\ outbox' = <<>> /\ suspended' = <<>>
    /\ packets' = None
    /\ modules' = IF Bundled THEN {"analysis", "filter"} ELSE {}
    /\ progress' = FALSE
    /\ ResetView
    /\ loads' = {}
    /\ UNCHANGED <<reqId, follow, reading, timers>>

ClickRow(n) ==
    /\ Budget
    /\ n \in ActiveRows
    /\ SelectPacket(n)
    /\ UNCHANGED <<view, filtered, box, cache, follow, loadGen, reading, timers,
                   progress, outbox, packets, modules, suspended, loads>>

\* An arrow key moves to a listed packet and selects it 10 ms later.
ArrowKey(n) ==
    /\ Budget
    /\ n \in ActiveRows \ timers
    /\ timers' = timers \cup {n}
    /\ UNCHANGED <<reqId, pending, view, filtered, box, selected, cache, shown,
                   follow, loadGen, reading, progress, worker, loads>>

\* goToPacket, from a link in a panel: it drops a filter that hides packet n and
\* selects n 30 ms later.
GoToPacket(n) ==
    /\ Budget
    /\ view # None /\ view.cap # None
    /\ n \in PacketsOf[view.cap] \ timers
    /\ timers' = timers \cup {n}
    /\ \/ n \in ActiveRows /\ UNCHANGED <<filtered, box>>
       \/ n \notin ActiveRows /\ filtered' = None /\ box' = NoText
    /\ UNCHANGED <<reqId, pending, view, selected, cache, shown, follow, loadGen,
                   reading, progress, worker, loads>>

\* The timer looks at nothing but the packet number it was given.
TimerFires(n) ==
    /\ n \in timers
    /\ timers' = timers \ {n}
    /\ SelectPacket(n)
    /\ UNCHANGED <<view, filtered, box, cache, follow, loadGen, reading, progress,
                   outbox, packets, modules, suspended, loads>>

\* onFilterInput: an edit is validated by the worker, an emptied box is not.
EditFilter(e) ==
    /\ Budget
    /\ e # box
    /\ box' = e
    /\ \/ e = NoText /\ NoPost
       \/ e # NoText /\ Post("validate", e)
    /\ UNCHANGED <<view, filtered, selected, cache, shown, follow, loadGen, reading,
                   timers, progress, outbox, packets, modules, suspended, loads>>

\* clearFilter, and applyFilter on an empty box.
ClearFilter ==
    /\ box' = NoText /\ filtered' = None
    /\ UNCHANGED <<reqId, pending, view, selected, cache, shown, follow, loadGen,
                   reading, timers, progress, worker, loads>>

\* applyFilter up to its await; a panel's applyFilterExpr(e) sets the box first.
ApplyFilter(e) ==
    /\ Budget
    /\ e \in Exprs
    /\ e = box \/ view # None
    /\ box' = e
    /\ Post("filter", e)
    /\ UNCHANGED <<view, filtered, selected, cache, shown, follow, loadGen, reading,
                   timers, progress, outbox, packets, modules, suspended, loads>>

\* followStream, of a stream in the conversations panel: the request carries its
\* number in the capture on screen.
FollowStream ==
    /\ Budget
    /\ view # None /\ view.cap # None
    /\ Post("stream", view.cap)
    /\ UNCHANGED <<view, filtered, box, selected, cache, shown, follow, loadGen,
                   reading, timers, progress, outbox, packets, modules, suspended,
                   loads>>

CloseFollow ==
    /\ follow # None
    /\ follow' = None
    /\ UNCHANGED <<reqId, pending, view, filtered, box, selected, cache, shown,
                   loadGen, reading, timers, progress, worker, loads>>

\* doExport up to its await.  The button is enabled while a capture is loaded.
DoExport ==
    /\ Budget
    /\ view # None
    /\ Post("export", IF filtered = None THEN NoText ELSE box)
    /\ UNCHANGED <<view, filtered, box, selected, cache, shown, follow, loadGen,
                   reading, timers, progress, outbox, packets, modules, suspended,
                   loads>>

-----------------------------------------------------------------------------
(* The worker: one message at a time, except that an import() lets the next *)
(* message in before the handler goes on                                    *)

\* The import() that a request awaits next; "" when it has none to wait for.
Awaits(kind) ==
    LET need == CASE kind \in {"load", "stream"} -> "analysis"
                  [] kind \in {"filter", "validate", "export"} -> "filter"
                  [] OTHER -> ""
    IN  IF need \in modules THEN (IF kind = "export" /\ ~Bundled THEN "reader" ELSE "")
        ELSE need

\* What the handler posts once it has run to its end, with `loaded` the capture
\* that PACKETS holds at that moment.
Answer(t, loaded) ==
    [id |-> t.id, arg |-> t.arg, cap |-> loaded,
     type |->
       IF t.kind = "load" THEN "loaded"
       ELSE IF t.kind = "validate" THEN "answer"
       ELSE IF t.kind = "filter" /\ t.arg \in Invalid THEN "invalid"
       ELSE IF loaded = None THEN "error"
       ELSE IF t.kind = "detail" /\ t.arg \notin PacketsOf[loaded] THEN "error"
       ELSE "answer"]

\* Faulty variant: a filter that does not compile is answered by a bare return.
PostsUnlessInvalid(t, loaded) ==
    IF Answer(t, loaded).type = "invalid" THEN <<>> ELSE <<Answer(t, loaded)>>

\* Every path through the handler posts one reply, the catch clause included.
Posts(t, loaded) == <<Answer(t, loaded)>>

\* Faulty variant: the globals are replaced before the file is known to be readable.
ParsesInPlace(m) == IF m.kind = "load" THEN m.arg ELSE packets

\* PACKETS once the synchronous part of the handler of m has run: readCapture throws
\* on a file it rejects, before anything is assigned.
PacketsAfter(m) ==
    IF m.kind = "load" /\ m.arg \notin Unreadable THEN m.arg ELSE packets

\* A load parses the capture and replaces the old one before it awaits anything;
\* a file readCapture rejects leaves the old one in place.
WorkerTakes ==
    /\ inbox # <<>>
    /\ LET m == Head(inbox)
           bad == m.kind = "load" /\ m.arg \in Unreadable
           loaded == PacketsAfter(m)
       IN  /\ inbox' = Tail(inbox)
           /\ packets' = loaded
           /\ \/ /\ bad
                 /\ outbox' = Append(outbox, [id |-> m.id, arg |-> m.arg,
                                              cap |-> None, type |-> "error"])
                 /\ UNCHANGED suspended
              \/ /\ ~bad /\ Awaits(m.kind) = ""
                 /\ outbox' = outbox \o Posts(m, loaded)
                 /\ UNCHANGED suspended
              \/ /\ ~bad /\ Awaits(m.kind) # ""
                 /\ suspended' = Append(suspended,
                      [id |-> m.id, kind |-> m.kind, arg |-> m.arg,
                       need |-> Awaits(m.kind)])
                 /\ UNCHANGED outbox
    /\ UNCHANGED <<page, modules, loads>>

\* The import() a suspended handler waits for resolves: the handler goes on with
\* the globals as they are now.  Handlers waiting for one module resume in order.
WorkerResumes(i) ==
    /\ i \in DOMAIN suspended
    /\ \A j \in 1..(i - 1) : suspended[j].need # suspended[i].need
    /\ LET t == suspended[i]
           rest == [j \in 1..(Len(suspended) - 1) |->
                      IF j < i THEN suspended[j] ELSE suspended[j + 1]]
       IN  /\ modules' = modules \cup ({t.need} \cap {"analysis", "filter"})
           /\ \/ /\ t.kind = "export" /\ t.need = "filter"
                 /\ suspended' = Append(rest, [t EXCEPT !.need = "reader"])
                 /\ UNCHANGED outbox
              \/ /\ ~(t.kind = "export" /\ t.need = "filter")
                 /\ suspended' = rest
                 /\ outbox' = outbox \o Posts(t, packets)
    /\ UNCHANGED <<page, inbox, packets, loads>>

-----------------------------------------------------------------------------
(* The page: worker.onmessage, and the code after each await *)

\* Faulty variant: replies are taken to come in the order of their calls.
OldestCall(r) == {p \in pending : \A q \in pending : p.id <= q.id}

\* The promise a reply resolves: the one filed under the reply's id.
CallOf(r) == {p \in pending : p.id = r.id}

\* Faulty variant: a filter that came in while the capture was loading stays on.
LoadEndsKeepingFilter(r) ==
    \/ /\ r.type = "error"
       /\ loads' = {IF l.id = r.id THEN [l EXCEPT !.failed = TRUE] ELSE l : l \in loads}
       /\ UNCHANGED <<view, filtered>>
    \/ /\ r.type # "error"
       /\ view' = [load |-> r.id, cap |-> r.cap]
       /\ UNCHANGED <<filtered, loads>>

\* Faulty variant: a capture already on screen is not replaced.
LoadEndsOnce(r) ==
    \/ /\ r.type = "error" \/ view # None
       /\ loads' = {IF l.id = r.id /\ r.type = "error" THEN [l EXCEPT !.failed = TRUE]
                    ELSE l : l \in loads}
       /\ UNCHANGED <<view, filtered>>
    \/ /\ r.type # "error" /\ view = None
       /\ view' = [load |-> r.id, cap |-> r.cap]
       /\ filtered' = None
       /\ UNCHANGED loads

\* loadBuffer after its await.
LoadEnds(r) ==
    \/ /\ r.type = "error"
       /\ loads' = {IF l.id = r.id THEN [l EXCEPT !.failed = TRUE] ELSE l : l \in loads}
       /\ UNCHANGED <<view, filtered>>
    \/ /\ r.type # "error"
       /\ view' = [load |-> r.id, cap |-> r.cap]
       /\ filtered' = None
       /\ UNCHANGED loads

\* Faulty variant: the message itself is cached, not the detail in it.
CachesTheMessage(p, r) ==
    /\ cache' = [cache EXCEPT ![p.arg] = r]
    /\ shown' = r

\* selectPacket after its await: whatever came back is cached and drawn.
DetailEnds(p, r) ==
    LET d == [cap |-> IF r.type = "error" THEN None ELSE r.cap, n |-> r.arg]
    IN  /\ cache' = [cache EXCEPT ![p.arg] = d]
        /\ shown' = d

\* applyFilter after its await: a text that does not compile, or an error, leaves the
\* list as it is.
FilterEnds(p, r) ==
    filtered' = IF r.type = "answer" THEN [expr |-> p.arg, cap |-> r.cap] ELSE filtered

\* followStream after its await.  Another capture than the one the number was taken
\* from need not have a stream of that number: "no such stream".
FollowEnds(p, r) == follow' = r.cap \/ (r.cap # p.arg /\ UNCHANGED follow)

\* Faulty variant: a failed load leaves the progress bar up.
HidesProgressIfLoaded(r) == r.type = "loaded"

\* hideProgress, in worker.onmessage.
HidesProgress(r) == r.type \in {"loaded", "error"}

Deliver ==
    /\ outbox # <<>>
    /\ LET r == Head(outbox)
       IN  /\ outbox' = Tail(outbox)
           /\ progress' = (progress /\ ~HidesProgress(r))
           /\ pending' = pending \ CallOf(r)
           /\ \/ /\ \A p \in CallOf(r) : p.kind \in {"validate", "export"}
                 /\ UNCHANGED <<view, filtered, cache, shown, follow, loads>>
              \/ \E p \in CallOf(r) :
                    \/ /\ p.kind = "load"
                       /\ LoadEnds(r)
                       /\ UNCHANGED <<cache, shown, follow>>
                    \/ /\ p.kind = "detail"
                       /\ DetailEnds(p, r)
                       /\ UNCHANGED <<view, filtered, follow, loads>>
                    \/ /\ p.kind = "filter"
                       /\ FilterEnds(p, r)
                       /\ UNCHANGED <<view, cache, shown, follow, loads>>
                    \/ /\ p.kind = "stream"
                       /\ FollowEnds(p, r)
                       /\ UNCHANGED <<view, filtered, cache, shown, loads>>
    /\ UNCHANGED <<reqId, box, selected, loadGen, reading, timers, inbox, packets,
                   modules, suspended>>

-----------------------------------------------------------------------------
(* The specification *)

Init ==
    /\ reqId = 0 /\ pending = {}
    /\ view = None /\ filtered = None /\ box = NoText /\ selected = None
    /\ cache = [n \in PacketNos |-> None]
    /\ shown = None /\ follow = None
    /\ loadGen = 0 /\ reading = {} /\ timers = {} /\ progress = FALSE
    /\ inbox = <<>> /\ outbox = <<>> /\ suspended = <<>>
    /\ packets = None
    /\ modules = IF Bundled THEN {"analysis", "filter"} ELSE {}
    /\ loads = {}

User ==
    \/ \E c \in Captures, sample \in BOOLEAN : ChooseFile(c, sample)
    \/ \E n \in PacketNos : ClickRow(n) \/ ArrowKey(n) \/ GoToPacket(n)
    \/ \E e \in Texts : EditFilter(e) \/ ApplyFilter(e)
    \/ ClearFilter \/ FollowStream \/ CloseFollow \/ DoExport \/ GoHome

\* What the browser does on its own.
ReadOf(c, sample) == \E r \in reading :
    /\ r.cap = c /\ r.sample = sample
    /\ ReadDone(r) \/ ReadDropped(r) \/ ReadFails(r)
ReadEnds == \E c \in Captures, sample \in BOOLEAN : ReadOf(c, sample)
Timer == \E n \in timers : TimerFires(n)
WorkerResume == \E i \in DOMAIN suspended : WorkerResumes(i)

Next == User \/ ReadEnds \/ Timer \/ WorkerTakes \/ WorkerResume \/ Deliver

Spec == Init /\ [][Next]_vars

\* The browser ends every read (one file's need not wait for another's), fires every
\* timer, runs the worker and delivers its messages; nothing obliges the user to do
\* anything.
FairSpec ==
    /\ Spec
    /\ \A c \in Captures, sample \in BOOLEAN : WF_vars(ReadOf(c, sample))
    /\ WF_vars(Timer)
    /\ WF_vars(WorkerTakes) /\ WF_vars(WorkerResume) /\ WF_vars(Deliver)

-----------------------------------------------------------------------------
(* Properties *)

SeqIds(s) == {s[i].id : i \in DOMAIN s}
InFlight == SeqIds(inbox) \cup SeqIds(suspended) \cup SeqIds(outbox)
LoadPending == \E p \in pending : p.kind = "load"

\* The worker answers every request exactly once, on every path of its handler:
\* the unresolved promises of the page are, one to one, the requests queued, those
\* suspended in an import() and the replies on their way (app.js:20-33,
\* worker.js:40-113).
OneReplyPerCall ==
    /\ {p.id : p \in pending} = InFlight
    /\ Cardinality(pending) = Len(inbox) + Len(suspended) + Len(outbox)
    /\ Cardinality(pending) = Cardinality(InFlight)

\* After goHome nothing of the time before it reaches the screen, however late a
\* file read or a reply ends: the rows on screen were set by a load begun since,
\* of a file chosen since (app.js:54-59 and 81-90).
GoHomeIsolation ==
    /\ \A l \in loads : l.gen = loadGen
    /\ \A p \in pending : p.kind = "load" => \E l \in loads : l.id = p.id
    /\ view # None => \E l \in loads : l.id = view.load

\* Once no load is outstanding, the rows on screen are those of the capture the
\* worker answers from, whatever overtook what: a detail, a filter or an export
\* asked for now is about what the user sees (app.js:36-52, worker.js:43-78).
ViewMatchesWorker == (view # None /\ ~LoadPending) => view.cap = packets

\* Loads that overlap end with the last one on screen, under its own name, unless
\* it failed (app.js:36-52, worker.js:43-68).  This needs the bundled worker: with
\* real import()s a third load can overtake a second one that waits for its import.
LatestLoadWins ==
    (Bundled /\ view # None /\ ~LoadPending) =>
        \E l \in loads :
            /\ l.id = view.load /\ l.cap = view.cap
            /\ \A k \in loads : k.id > l.id => k.failed

\* A filter on screen selects from the capture whose rows it is applied to, even
\* when its evaluation waited for an import() (app.js:245-257, worker.js:72-78).
FilterOfShownCapture ==
    (view # None /\ filtered # None) => filtered.cap = view.cap

\* Replies overtake one another while a handler waits for an import(), and still
\* the detail filed under a packet number is that packet's (app.js:20-33, 158-165).
DetailOfItsPacket == \A n \in PacketNos : cache[n] # None => cache[n].n = n

\* As long as captures are opened one per worker, as goHome arranges, the page
\* never shows or caches anything of another capture than the one on screen.
OneCapturePerWorkerIsSound ==
    (view # None /\ Cardinality(loads) = 1) =>
        \A d \in {cache[n] : n \in PacketNos} \cup {shown} :
            d # None => d.cap \in {view.cap, None}

\* app.js:61 says of resetView that it clears "everything tied to the loaded
\* capture": once the next capture is on screen and no load is outstanding, the
\* cache holds no packet of another one.
CacheOfShownCapture ==
    (view # None /\ ~LoadPending) =>
        \A n \in PacketNos : cache[n] # None => cache[n].cap \in {view.cap, None}

\* README.md:37: "Export - save the current (optionally filtered) packet set": the
\* expression an export asks for is the one the list on screen was filtered by.
ExportsWhatIsListed == \A p \in pending : p.kind = "export" => p.arg = p.seen

\* No promise of the page stays unresolved, whatever the worker meets, and the
\* progress bar does not stay up for ever (app.js:20-59, 356-360, 404-413).
EveryCallEnds == \A id \in 1..MaxCalls :
    (\E p \in pending : p.id = id) ~> ~(\E p \in pending : p.id = id)
ProgressEnds == progress ~> ~progress
=============================================================================
