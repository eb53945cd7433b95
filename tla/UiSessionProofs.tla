-------------------------- MODULE UiSessionProofs --------------------------
(***************************************************************************)
(* What holds of a UI session for every set of captures, packets and       *)
(* filters, in both builds of the worker: its variables keep their types,  *)
(* and goHome cuts the new screen off from everything begun before it;     *)
(* every call has one reply, a reply is about what its call was about, and *)
(* what comes back describes the capture it is taken to describe.          *)
(***************************************************************************)
EXTENDS UiSession, SeqLemmas, FiniteSetTheorems

USE SessionAssumption DEF Args

-----------------------------------------------------------------------------
(* Types *)

\* A call made in a well-typed state is well typed.
LEMMA PostType ==
    ASSUME TypeOK, NEW kind \in Kinds, NEW arg \in ArgsOf(kind), arg \in Args,
           Post(kind, arg)
    PROVE  reqId' \in Nat /\ pending' \subseteq Call /\ inbox' \in Seq(Request)
<1>1. Applied \in Texts
  BY DEF Applied, TypeOK, Texts
<1>2. reqId' \in Nat
  BY DEF Post, TypeOK
<1> DEFINE call == [id |-> reqId + 1, kind |-> kind, arg |-> arg, seen |-> Applied]
           request == [id |-> reqId + 1, kind |-> kind, arg |-> arg]
<1>3. call \in Call /\ request \in Request
  BY <1>1 DEF Call, Request, Fits, TypeOK
<1>4. pending' = pending \cup {call} /\ inbox' = Append(inbox, request)
  BY DEF Post
<1> HIDE DEF call, request
<1>5. pending' \subseteq Call /\ inbox' \in Seq(Request)
  BY <1>3, <1>4, Enqueued DEF TypeOK
<1> QED
  BY <1>2, <1>5

LEMMA InitTypes == Init => TypeOK
<1> SUFFICES ASSUME Init PROVE TypeOK
  OBVIOUS
<1>1. inbox \in Seq(Request) /\ outbox \in Seq(Reply) /\ suspended \in Seq(Task)
  BY Nothing DEF Init
<1> QED
  BY <1>1 DEF Init, TypeOK, Texts

\* What a user action, a finished read or a timer does to the types.
LEMMA PageTypes == TypeOK /\ (User \/ ReadEnds \/ Timer) => TypeOK'
<1> SUFFICES ASSUME TypeOK, User \/ ReadEnds \/ Timer PROVE TypeOK'
  OBVIOUS
<1>1. ASSUME NEW c \in Captures, NEW sample \in BOOLEAN, ChooseFile(c, sample)
      PROVE  TypeOK'
  BY <1>1 DEF ChooseFile, TypeOK, worker
<1>2. ASSUME NEW n \in PacketNos, SelectPacket(n)
      PROVE  /\ selected' \in PacketNos \cup {None} /\ shown' \in Detail \cup {None}
             /\ reqId' \in Nat /\ pending' \subseteq Call /\ inbox' \in Seq(Request)
  <2>1. CASE shown' = cache[n] /\ NoPost
    BY <2>1, <1>2 DEF SelectPacket, NoPost, TypeOK
  <2>2. CASE Post("detail", n) /\ UNCHANGED shown
    <3>1. "detail" \in Kinds /\ n \in ArgsOf("detail")
      BY DEF Kinds, ArgsOf
    <3>2. selected' \in PacketNos \cup {None} /\ shown' \in Detail \cup {None}
      BY <2>2, <1>2 DEF SelectPacket, TypeOK
    <3> QED
      BY <3>1, <3>2, <2>2, PostType
  <2> QED
    BY <2>1, <2>2, <1>2 DEF SelectPacket
<1>3. ASSUME NEW n \in PacketNos, ClickRow(n) PROVE TypeOK'
  BY <1>2, <1>3 DEF ClickRow, TypeOK
<1>4. ASSUME NEW n \in PacketNos, ArrowKey(n) PROVE TypeOK'
  BY <1>4 DEF ArrowKey, TypeOK, worker
<1>5. ASSUME NEW n \in PacketNos, GoToPacket(n) PROVE TypeOK'
  BY <1>5 DEF GoToPacket, TypeOK, worker, Texts
<1>6. ASSUME NEW e \in Texts, EditFilter(e) PROVE TypeOK'
  <2>1. CASE e = NoText
    <3>1. NoPost
      BY <1>6, <2>1 DEF EditFilter
    <3> QED
      BY <1>6, <3>1 DEF EditFilter, TypeOK, NoPost
  <2>2. CASE e # NoText
    <3>1. "validate" \in Kinds /\ e \in ArgsOf("validate") /\ Post("validate", e)
      BY <1>6, <2>2 DEF EditFilter, Kinds, ArgsOf, Texts
    <3> QED
      BY <1>6, <3>1, PostType DEF EditFilter, TypeOK, Texts
  <2> QED
    BY <2>1, <2>2
<1>7. ASSUME NEW e \in Texts, ApplyFilter(e) PROVE TypeOK'
  <2>1. "filter" \in Kinds /\ e \in ArgsOf("filter") /\ Post("filter", e)
    BY <1>7 DEF ApplyFilter, Kinds, ArgsOf
  <2> QED
    BY <1>7, <2>1, PostType DEF ApplyFilter, TypeOK, Texts
<1>8. CASE ClearFilter
  BY <1>8 DEF ClearFilter, TypeOK, worker, Texts
<1>9. CASE FollowStream
  <2>1. "stream" \in Kinds /\ view.cap \in ArgsOf("stream") /\ Post("stream", view.cap)
    BY <1>9 DEF FollowStream, Kinds, ArgsOf, TypeOK
  <2> QED
    BY <1>9, <2>1, PostType DEF FollowStream, TypeOK
<1>10. CASE CloseFollow
  BY <1>10 DEF CloseFollow, TypeOK, worker
<1>11. CASE DoExport
  <2>1. PICK arg \in Texts : Post("export", arg)
    BY <1>11 DEF DoExport, TypeOK, Texts
  <2>2. "export" \in Kinds /\ arg \in ArgsOf("export") /\ arg \in Args
    BY DEF Kinds, ArgsOf, Texts
  <2> QED
    BY <1>11, <2>1, <2>2, PostType DEF DoExport, TypeOK
<1>12. CASE GoHome
  <2>1. /\ inbox' = <<>> /\ outbox' = <<>> /\ suspended' = <<>> /\ pending' = {}
        /\ loads' = {} /\ packets' = None /\ progress' = FALSE /\ loadGen' \in Nat
        /\ modules' \subseteq {"analysis", "filter"}
        /\ UNCHANGED <<reqId, follow, reading, timers>>
    BY <1>12 DEF GoHome, ForgetCalls, TypeOK
  <2>2. ResetView
    BY <1>12 DEF GoHome
  <2>3. inbox' \in Seq(Request) /\ outbox' \in Seq(Reply) /\ suspended' \in Seq(Task)
    BY <2>1, Nothing
  <2> QED
    BY <2>1, <2>2, <2>3 DEF ResetView, TypeOK, Texts
<1>13. ASSUME NEW r \in reading, ReadDone(r) PROVE TypeOK'
  <2>1. "load" \in Kinds /\ r.cap \in ArgsOf("load") /\ Post("load", r.cap) /\ r.cap \in Args
    BY <1>13 DEF ReadDone, Kinds, ArgsOf, TypeOK
  <2>2. loads' \subseteq [id : Nat, cap : Captures, gen : Nat, failed : BOOLEAN]
    <3> DEFINE load == [id |-> reqId + 1, cap |-> r.cap, gen |-> r.gen, failed |-> FALSE]
    <3>1. r.cap \in Captures /\ r.gen \in Nat /\ reqId + 1 \in Nat
      BY DEF TypeOK
    <3>2. load \in [id : Nat, cap : Captures, gen : Nat, failed : BOOLEAN]
      BY <3>1
    <3>3. loads' = loads \cup {load}
      BY <1>13 DEF ReadDone
    <3> QED
      BY <3>2, <3>3 DEF TypeOK
  <2>3. ResetView /\ progress' = TRUE /\ reading' \subseteq reading
    BY <1>13 DEF ReadDone
  <2> QED
    BY <1>13, <2>1, <2>2, <2>3, PostType DEF ReadDone, ResetView, TypeOK, Texts
<1>14. ASSUME NEW r \in reading, ReadDropped(r) PROVE TypeOK'
  BY <1>14 DEF ReadDropped, TypeOK, worker
<1>15. ASSUME NEW r \in reading, ReadFails(r) PROVE TypeOK'
  BY <1>15 DEF ReadFails, TypeOK, worker
<1>16. ASSUME NEW n \in timers, TimerFires(n) PROVE TypeOK'
  <2>1. n \in PacketNos /\ SelectPacket(n)
    BY <1>16 DEF TimerFires, TypeOK
  <2> QED
    BY <1>2, <1>16, <2>1 DEF TimerFires, TypeOK
<1> QED
  BY <1>1, <1>3, <1>4, <1>5, <1>6, <1>7, <1>8, <1>9, <1>10, <1>11, <1>12, <1>13,
     <1>14, <1>15, <1>16 DEF User, ReadEnds, ReadOf, Timer

\* A reply the worker posts is well typed.
LEMMA PostsType ==
    ASSUME NEW t, t.id \in Nat, t.arg \in Args, NEW loaded \in Captures \cup {None}
    PROVE  Posts(t, loaded) \in Seq(Reply)
<1> DEFINE type == Answer(t, loaded).type
<1>1. type \in {"loaded", "answer", "invalid", "error"}
  BY DEF Answer
<1>2. Answer(t, loaded) = [id |-> t.id, arg |-> t.arg, cap |-> loaded, type |-> type]
  BY DEF Answer
<1> HIDE DEF type
<1>3. Answer(t, loaded) \in Reply
  BY <1>1, <1>2 DEF Reply
<1> QED
  BY <1>3, Enqueued DEF Posts

LEMMA TakeTypes == TypeOK /\ WorkerTakes => TypeOK'
<1> SUFFICES ASSUME TypeOK, WorkerTakes PROVE TypeOK'
  OBVIOUS
<1> DEFINE m == Head(inbox)
           loaded == PacketsAfter(m)
           refusal == [id |-> m.id, arg |-> m.arg, cap |-> None, type |-> "error"]
           task == [id |-> m.id, kind |-> m.kind, arg |-> m.arg, need |-> Awaits(m.kind)]
<1>1. m \in Request /\ inbox' \in Seq(Request)
  BY Dequeued DEF WorkerTakes, TypeOK
<1>2. m.id \in Nat /\ m.kind \in Kinds /\ m.arg \in Args /\ m.arg \in ArgsOf(m.kind)
  BY <1>1 DEF Request, Fits
<1>3. /\ packets' = loaded
      /\ \/ outbox' = Append(outbox, refusal) /\ UNCHANGED suspended
         \/ outbox' = outbox \o Posts(m, loaded) /\ UNCHANGED suspended
         \/ Awaits(m.kind) # "" /\ suspended' = Append(suspended, task) /\ UNCHANGED outbox
      /\ UNCHANGED <<page, modules, loads>>
  BY DEF WorkerTakes
<1> HIDE DEF m
<1>4. loaded \in Captures \cup {None}
  <2>1. CASE m.kind = "load"
    BY <2>1, <1>2 DEF PacketsAfter, ArgsOf, TypeOK
  <2>2. CASE m.kind # "load"
    BY <2>2 DEF PacketsAfter, TypeOK
  <2> QED
    BY <2>1, <2>2
<1>5. refusal \in Reply
  BY <1>2 DEF Reply
<1>6. Posts(m, loaded) \in Seq(Reply)
  BY <1>2, <1>4, PostsType
<1>7. ASSUME Awaits(m.kind) # "" PROVE task \in Task
  <2>1. Awaits(m.kind) \in {"analysis", "filter", "reader"}
    BY <1>7 DEF Awaits
  <2> QED
    BY <2>1, <1>2 DEF Task, Fits
<1> HIDE DEF loaded, refusal, task
<1>8. outbox' \in Seq(Reply) /\ suspended' \in Seq(Task)
  <2>1. outbox \in Seq(Reply) /\ suspended \in Seq(Task)
    BY DEF TypeOK
  <2>2. CASE outbox' = Append(outbox, refusal) /\ UNCHANGED suspended
    BY <2>1, <2>2, <1>5, Enqueued
  <2>3. CASE outbox' = outbox \o Posts(m, loaded) /\ UNCHANGED suspended
    BY <2>1, <2>3, <1>6, Joined
  <2>4. CASE /\ Awaits(m.kind) # ""
             /\ suspended' = Append(suspended, task)
             /\ UNCHANGED outbox
    BY <2>1, <2>4, <1>7, Enqueued
  <2> QED
    BY <1>3, <2>2, <2>3, <2>4
<1> QED
  BY <1>1, <1>3, <1>4, <1>8 DEF TypeOK, page

LEMMA ResumeTypes == TypeOK /\ WorkerResume => TypeOK'
<1> SUFFICES ASSUME TypeOK, NEW i \in DOMAIN suspended, WorkerResumes(i) PROVE TypeOK'
  BY DEF WorkerResume
<1> DEFINE t == suspended[i]
           rest == [j \in 1..(Len(suspended) - 1) |->
                      IF j < i THEN suspended[j] ELSE suspended[j + 1]]
           again == [t EXCEPT !.need = "reader"]
<1>1. t \in Task /\ rest \in Seq(Task)
  BY Removed DEF TypeOK
<1>2. /\ \/ suspended' = Append(rest, again) /\ UNCHANGED outbox
         \/ suspended' = rest /\ outbox' = outbox \o Posts(t, packets)
      /\ UNCHANGED <<page, inbox, packets, loads>>
      /\ modules' = modules \cup ({t.need} \cap {"analysis", "filter"})
  BY DEF WorkerResumes
<1> HIDE DEF rest, t
<1>3. again \in Task
  BY <1>1 DEF Task, Fits
<1>4. Posts(t, packets) \in Seq(Reply)
  <2>1. t.id \in Nat /\ t.arg \in Args /\ packets \in Captures \cup {None}
    BY <1>1 DEF Task, TypeOK
  <2> QED
    BY <2>1, PostsType
<1> HIDE DEF again
<1>5. outbox' \in Seq(Reply) /\ suspended' \in Seq(Task)
  <2>1. outbox \in Seq(Reply)
    BY DEF TypeOK
  <2>2. CASE suspended' = Append(rest, again) /\ UNCHANGED outbox
    BY <2>1, <2>2, <1>1, <1>3, Enqueued
  <2>3. CASE suspended' = rest /\ outbox' = outbox \o Posts(t, packets)
    BY <2>1, <2>3, <1>1, <1>4, Joined
  <2> QED
    BY <1>2, <2>2, <2>3
<1>6. modules' \subseteq {"analysis", "filter"}
  BY <1>2 DEF TypeOK
<1> QED
  BY <1>2, <1>5, <1>6 DEF TypeOK, page

LEMMA DeliverTypes == TypeOK /\ Deliver => TypeOK'
<1> SUFFICES ASSUME TypeOK, Deliver PROVE TypeOK'
  OBVIOUS
<1> DEFINE r == Head(outbox)
           ScreenTypes ==
             /\ view' \in [load : Nat, cap : Captures \cup {None}] \cup {None}
             /\ filtered' \in [expr : Exprs, cap : Captures \cup {None}] \cup {None}
             /\ cache' \in [PacketNos -> Detail \cup {None}]
             /\ shown' \in Detail \cup {None}
             /\ follow' \in Captures \cup {None}
             /\ loads' \subseteq [id : Nat, cap : Captures, gen : Nat, failed : BOOLEAN]
<1>1. r \in Reply /\ outbox' \in Seq(Reply)
  BY Dequeued DEF Deliver, TypeOK
<1>2. pending' \subseteq Call /\ progress' \in BOOLEAN
  BY DEF Deliver, TypeOK
<1>3. ScreenTypes
  <2>1. ASSUME UNCHANGED <<view, filtered, cache, shown, follow, loads>>
        PROVE  ScreenTypes
    BY <2>1 DEF TypeOK
  <2>2. ASSUME LoadEnds(r), UNCHANGED <<cache, shown, follow>> PROVE ScreenTypes
    <3>1. \A l \in loads : [l EXCEPT !.failed = TRUE] \in
             [id : Nat, cap : Captures, gen : Nat, failed : BOOLEAN]
      <4>1. loads \subseteq [id : Nat, cap : Captures, gen : Nat, failed : BOOLEAN]
        BY DEF TypeOK
      <4> HIDE DEF ScreenTypes
      <4> QED
        BY ONLY <4>1
    <3> HIDE DEF r
    <3>2. r.id \in Nat /\ r.cap \in Captures \cup {None}
      BY <1>1 DEF Reply
    <3>3. CASE r.type = "error"
      BY <3>1, <3>3, <2>2 DEF LoadEnds, TypeOK
    <3>4. CASE r.type # "error"
      BY <3>2, <3>4, <2>2 DEF LoadEnds, TypeOK
    <3> QED
      BY <3>3, <3>4
  <2>3. ASSUME NEW p \in pending, p.kind = "detail", DetailEnds(p, r),
               UNCHANGED <<view, filtered, follow, loads>>
        PROVE  ScreenTypes
    <3> DEFINE d == [cap |-> IF r.type = "error" THEN None ELSE r.cap, n |-> r.arg]
    <3>1. d \in Detail
      BY <1>1 DEF Detail, Reply
    <3>2. cache' = [cache EXCEPT ![p.arg] = d] /\ shown' = d
      BY <2>3 DEF DetailEnds
    <3> HIDE DEF d
    <3> QED
      BY <3>1, <3>2, <2>3 DEF TypeOK
  <2>4. ASSUME NEW p \in pending, p.kind = "filter",
               FilterEnds(p, r),
               UNCHANGED <<view, cache, shown, follow, loads>>
        PROVE  ScreenTypes
    <3>1. p.arg \in Exprs
      BY <2>4 DEF TypeOK, Call, Fits, ArgsOf
    <3> QED
      BY <3>1, <2>4, <1>1 DEF FilterEnds, TypeOK, Reply
  <2>5. ASSUME NEW p \in pending, FollowEnds(p, r),
               UNCHANGED <<view, filtered, cache, shown, loads>>
        PROVE  ScreenTypes
    BY <2>5, <1>1 DEF FollowEnds, TypeOK, Reply
  <2> HIDE DEF ScreenTypes
  <2> QED
    BY <2>1, <2>2, <2>3, <2>4, <2>5 DEF Deliver, CallOf
<1>4. UNCHANGED <<reqId, box, selected, loadGen, reading, timers, inbox, packets,
                  modules, suspended>>
  BY DEF Deliver
<1> QED
  BY <1>1, <1>2, <1>3, <1>4 DEF TypeOK

\* Every step of the page, of the worker and of the browser keeps the types
\* (app.js:9-417, worker.js:10-113).
THEOREM TypeCorrect == Spec => []TypeOK
<1>1. TypeOK /\ [Next]_vars => TypeOK'
  <2>1. TypeOK /\ UNCHANGED vars => TypeOK'
    BY DEF vars, page, worker, TypeOK
  <2> QED
    BY <2>1, PageTypes, TakeTypes, ResumeTypes, DeliverTypes DEF Next
<1> QED
  BY InitTypes, <1>1, PTL DEF Spec

-----------------------------------------------------------------------------
(* goHome *)

\* A step that leaves the loads, the generation and the view alone and makes no new
\* load call keeps the isolation.
LEMMA IsolationKept ==
    ASSUME GoHomeIsolation, UNCHANGED <<view, loads, loadGen>>,
           \A p \in pending' : p.kind = "load" => p \in pending
    PROVE  GoHomeIsolation'
BY DEF GoHomeIsolation

\* A call that is not a load.
LEMMA OtherPost ==
    ASSUME NEW kind, kind # "load", NEW arg, Post(kind, arg)
    PROVE  \A p \in pending' : p.kind = "load" => p \in pending
BY DEF Post

LEMMA IsolationStep == TypeOK /\ GoHomeIsolation /\ [Next]_vars => GoHomeIsolation'
<1> SUFFICES ASSUME TypeOK, GoHomeIsolation, [Next]_vars PROVE GoHomeIsolation'
  OBVIOUS
<1>1. ASSUME NEW n, SelectPacket(n)
      PROVE  \A p \in pending' : p.kind = "load" => p \in pending
  BY <1>1, OtherPost DEF SelectPacket, NoPost
<1>2. ASSUME NEW c, NEW sample, ChooseFile(c, sample) PROVE GoHomeIsolation'
  BY <1>2, IsolationKept DEF ChooseFile
<1>3. ASSUME NEW n, ClickRow(n) \/ TimerFires(n) PROVE GoHomeIsolation'
  BY <1>1, <1>3, IsolationKept DEF ClickRow, TimerFires
<1>4. ASSUME NEW n, ArrowKey(n) \/ GoToPacket(n) PROVE GoHomeIsolation'
  BY <1>4, IsolationKept DEF ArrowKey, GoToPacket
<1>5. ASSUME NEW e, EditFilter(e) \/ ApplyFilter(e) PROVE GoHomeIsolation'
  BY <1>5, OtherPost, IsolationKept DEF EditFilter, ApplyFilter, NoPost
<1>6. CASE ClearFilter \/ CloseFollow
  BY <1>6, IsolationKept DEF ClearFilter, CloseFollow
<1>7. CASE FollowStream \/ DoExport
  BY <1>7, OtherPost, IsolationKept DEF FollowStream, DoExport
<1>8. CASE GoHome
  BY <1>8 DEF GoHome, ForgetCalls, ResetView, GoHomeIsolation
<1>9. ASSUME NEW r \in reading, ReadDone(r) PROVE GoHomeIsolation'
  <2> DEFINE load == [id |-> reqId + 1, cap |-> r.cap, gen |-> r.gen, failed |-> FALSE]
             call == [id |-> reqId + 1, kind |-> "load", arg |-> r.cap, seen |-> Applied]
  <2>1. /\ loads' = loads \cup {load} /\ pending' = pending \cup {call}
        /\ view' = None /\ loadGen' = loadGen /\ r.gen = loadGen
    BY <1>9 DEF ReadDone, Post, ResetView, StillWanted
  <2>2. load.id = call.id /\ load.gen = loadGen
    BY <2>1
  <2> HIDE DEF load, call
  <2> QED
    BY <2>1, <2>2 DEF GoHomeIsolation
<1>10. ASSUME NEW r, ReadDropped(r) \/ ReadFails(r) PROVE GoHomeIsolation'
  BY <1>10, IsolationKept DEF ReadDropped, ReadFails
<1>11. CASE WorkerTakes \/ WorkerResume
  BY <1>11, IsolationKept DEF WorkerTakes, WorkerResume, WorkerResumes, page
<1>12. CASE Deliver
  <2> DEFINE r == Head(outbox)
  <2>1. pending' \subseteq pending /\ loadGen' = loadGen
    BY <1>12 DEF Deliver
  <2>2. CASE UNCHANGED <<view, loads>>
    BY <2>1, <2>2, IsolationKept
  <2>3. ASSUME NEW p \in pending, p.id = r.id, p.kind = "load", LoadEnds(r)
        PROVE  GoHomeIsolation'
    <3>1. CASE r.type = "error"
      <4> DEFINE Mark(l) == IF l.id = r.id THEN [l EXCEPT !.failed = TRUE] ELSE l
      <4>1. loads' = {Mark(l) : l \in loads} /\ view' = view
        BY <2>3, <3>1 DEF LoadEnds
      <4>2. ASSUME NEW l \in loads PROVE Mark(l).id = l.id /\ Mark(l).gen = l.gen
        <5>1. l \in [id : Nat, cap : Captures, gen : Nat, failed : BOOLEAN]
          BY DEF TypeOK
        <5> QED
          BY <5>1
      <4> HIDE DEF Mark
      <4> QED
        BY <2>1, <4>1, <4>2 DEF GoHomeIsolation
    <3>2. CASE r.type # "error"
      <4>1. view' = [load |-> r.id, cap |-> r.cap] /\ loads' = loads
        BY <2>3, <3>2 DEF LoadEnds
      <4>2. \E l \in loads : l.id = view'.load
        BY <4>1, <2>3 DEF GoHomeIsolation
      <4> QED
        BY <2>1, <4>1, <4>2 DEF GoHomeIsolation
    <3> QED
      BY <3>1, <3>2
  <2> QED
    BY <1>12, <2>2, <2>3 DEF Deliver, CallOf
<1>13. CASE UNCHANGED vars
  BY <1>13, IsolationKept DEF vars, page
<1> QED
  BY <1>2, <1>3, <1>4, <1>5, <1>6, <1>7, <1>8, <1>9, <1>10, <1>11, <1>12, <1>13
     DEF Next, User, ReadEnds, ReadOf, Timer

\* After goHome no load of the session before it can reach the screen, whatever was
\* being read, parsed or delivered (app.js:54-59, 81-90).
THEOREM HomeIsolates == Spec => []GoHomeIsolation
<1>1. Init => GoHomeIsolation
  BY DEF Init, GoHomeIsolation
<1> QED
  BY <1>1, TypeCorrect, IsolationStep, PTL DEF Spec

-----------------------------------------------------------------------------
(* The inductive invariant *)

\* No two messages of a queue have one number.
Distinct(s) == \A i, j \in DOMAIN s : s[i].id = s[j].id => i = j

\* Each unresolved promise is one message somewhere between the page and the worker.
IdsInv ==
    /\ {p.id : p \in pending} = InFlight
    /\ \A p, q \in pending : p.id = q.id => p = q
    /\ \A p \in pending : p.id <= reqId
    /\ Distinct(inbox) /\ Distinct(suspended) /\ Distinct(outbox)
    /\ SeqIds(inbox) \cap SeqIds(suspended) = {}
    /\ SeqIds(inbox) \cap SeqIds(outbox) = {}
    /\ SeqIds(suspended) \cap SeqIds(outbox) = {}
    /\ IsFiniteSet(pending) /\ IsFiniteSet(InFlight)
    /\ Cardinality(pending) = Len(inbox) + Len(suspended) + Len(outbox)
    /\ Cardinality(InFlight) = Len(inbox) + Len(suspended) + Len(outbox)

\* A message of the number of a call is about what the call is about.
AboutCall(m, p) == m.id = p.id => m.kind = p.kind /\ m.arg = p.arg
RepliesTo(r, p) ==
    r.id = p.id => /\ r.arg = p.arg
                   /\ r.type = "loaded" => p.kind = "load"
                   /\ p.kind = "load" => r.type \in {"loaded", "error"}

MatchInv ==
    /\ \A i \in DOMAIN inbox, p \in pending : AboutCall(inbox[i], p)
    /\ \A i \in DOMAIN suspended, p \in pending : AboutCall(suspended[i], p)
    /\ \A i \in DOMAIN outbox, p \in pending : RepliesTo(outbox[i], p)
    /\ DetailOfItsPacket

\* outbox[i] is the reply of a load that succeeded.
Loaded(i) == outbox[i].type = "loaded"

\* Once the analysis module is there a capture is answered in the step that replaces
\* PACKETS, so the last capture on its way to the page is the one of the worker.
ViewInv ==
    /\ \A i \in DOMAIN suspended : suspended[i].kind = "load" => suspended[i].need = "analysis"
    /\ "analysis" \notin modules => view = None /\ \A i \in DOMAIN outbox : ~Loaded(i)
    /\ \A i \in DOMAIN outbox :
           (Loaded(i) /\ \A j \in DOMAIN outbox : j > i => ~Loaded(j)) => outbox[i].cap = packets
    /\ (view # None /\ \A j \in DOMAIN outbox : ~Loaded(j)) => view.cap = packets

\* An answer was computed from the capture that is on screen when it arrives.
FilterInv ==
    /\ \A i, j \in DOMAIN outbox :
           (/\ outbox[i].type = "answer" /\ j < i /\ Loaded(j)
            /\ \A k \in DOMAIN outbox : j < k /\ k < i => ~Loaded(k)) => outbox[i].cap = outbox[j].cap
    /\ \A i \in DOMAIN outbox :
           (/\ outbox[i].type = "answer" /\ view # None
            /\ \A k \in DOMAIN outbox : k < i => ~Loaded(k)) => outbox[i].cap = view.cap
    /\ FilterOfShownCapture

\* The captures opened since the last goHome.
Opened == {l.cap : l \in loads}

\* Nothing on either side is of a capture that was not opened since goHome.
CapInv ==
    /\ IsFiniteSet(loads)
    /\ packets \in Opened \cup {None}
    /\ \A i \in DOMAIN inbox : inbox[i].kind = "load" => inbox[i].arg \in Opened
    /\ \A i \in DOMAIN suspended : suspended[i].kind = "load" => packets # None
    /\ \A i \in DOMAIN outbox : /\ outbox[i].cap \in Opened \cup {None}
                                /\ Loaded(i) => outbox[i].cap # None
    /\ view # None => view.cap \in Opened
    /\ \A n \in PacketNos : cache[n] # None => cache[n].cap \in Opened \cup {None}
    /\ shown # None => shown.cap \in Opened \cup {None}

\* The bundled worker never waits for an import, so every queue is first in, first out.
Ordered(s) == \A i, j \in DOMAIN s : i < j => s[i].id < s[j].id
Calling(l) == \E p \in pending : p.id = l.id
OrderInv ==
    Bundled =>
    /\ modules = {"analysis", "filter"}
    /\ suspended = <<>>
    /\ Ordered(inbox) /\ Ordered(outbox)
    /\ \A i \in DOMAIN outbox, j \in DOMAIN inbox : outbox[i].id < inbox[j].id
    /\ view # None => view.load <= reqId
    /\ \A l \in loads :
         /\ l.id <= reqId
         /\ \A p \in pending : p.id = l.id => p.kind = "load"
         /\ \A i \in DOMAIN inbox : inbox[i].id = l.id => inbox[i].arg = l.cap
         /\ \A i \in DOMAIN outbox : (outbox[i].id = l.id /\ Loaded(i)) => outbox[i].cap = l.cap
         /\ (view # None /\ view.load = l.id) => view.cap = l.cap
         /\ \/ l.failed
            \/ Calling(l)
            \/ /\ \A p \in pending : l.id < p.id
               /\ view # None => l.id <= view.load

-----------------------------------------------------------------------------
(* The steps, by what they do to the messages *)

\* A step that only the screen sees.
Quiet ==
    /\ UNCHANGED <<reqId, pending, inbox, outbox, suspended, packets, modules, view,
                   cache, loads>>
    /\ filtered' \in {filtered, None}
    /\ shown' \in {shown} \cup {cache[n] : n \in PacketNos}

\* A call that is not a load.
Calls(kind, arg) ==
    /\ kind \in Kinds \ {"load"} /\ arg \in ArgsOf(kind)
    /\ Post(kind, arg)
    /\ UNCHANGED <<outbox, suspended, packets, modules, view, cache, shown, loads, filtered>>

\* What the page does between two replies.
LEMMA PageSteps ==
    ASSUME TypeOK, User \/ ReadEnds \/ Timer \/ UNCHANGED vars
    PROVE  \/ Quiet \/ GoHome
           \/ \E kind, arg : Calls(kind, arg)
           \/ \E r \in reading : ReadDone(r)
<1>1. ASSUME NEW c \in Captures, NEW sample \in BOOLEAN, ChooseFile(c, sample) PROVE Quiet
  BY <1>1 DEF ChooseFile, Quiet, worker
<1>2. ASSUME NEW n \in PacketNos, ClickRow(n) \/ TimerFires(n)
      PROVE  Quiet \/ Calls("detail", n)
  <2>1. CASE shown' = cache[n] /\ NoPost
    BY <1>2, <2>1 DEF ClickRow, TimerFires, NoPost, Quiet
  <2>2. CASE Post("detail", n) /\ UNCHANGED shown
    BY <1>2, <2>2 DEF ClickRow, TimerFires, Calls, Kinds, ArgsOf
  <2> QED
    BY <1>2, <2>1, <2>2 DEF ClickRow, TimerFires, SelectPacket
<1>3. ASSUME NEW n \in PacketNos, ArrowKey(n) \/ GoToPacket(n) PROVE Quiet
  BY <1>3 DEF ArrowKey, GoToPacket, Quiet, worker
<1>4. ASSUME NEW e \in Texts, EditFilter(e) PROVE Quiet \/ Calls("validate", e)
  <2>1. CASE NoPost
    BY <1>4, <2>1 DEF EditFilter, NoPost, Quiet
  <2>2. CASE e # NoText /\ Post("validate", e)
    BY <1>4, <2>2 DEF EditFilter, Calls, Kinds, ArgsOf, Texts
  <2> QED
    BY <1>4, <2>1, <2>2 DEF EditFilter
<1>5. ASSUME NEW e \in Texts, ApplyFilter(e) PROVE Calls("filter", e)
  BY <1>5 DEF ApplyFilter, Calls, Kinds, ArgsOf
<1>6. CASE ClearFilter \/ CloseFollow
  BY <1>6 DEF ClearFilter, CloseFollow, Quiet, worker
<1>7. CASE FollowStream
  BY <1>7 DEF FollowStream, Calls, Kinds, ArgsOf, TypeOK
<1>8. CASE DoExport
  <2>1. PICK arg \in Texts : Post("export", arg)
    BY <1>8 DEF DoExport, TypeOK, Texts
  <2>2. Calls("export", arg)
    BY <1>8, <2>1 DEF DoExport, Calls, Kinds, ArgsOf
  <2> QED
    BY <2>2
<1>9. ASSUME NEW r \in reading, ReadDropped(r) \/ ReadFails(r) PROVE Quiet
  BY <1>9 DEF ReadDropped, ReadFails, Quiet, worker
<1>10. ASSUME UNCHANGED vars PROVE Quiet
  BY <1>10 DEF vars, page, worker, Quiet
<1>11. Timer => \E n \in PacketNos : TimerFires(n)
  BY DEF Timer, TypeOK
<1> QED
  BY <1>1, <1>2, <1>3, <1>4, <1>5, <1>6, <1>7, <1>8, <1>9, <1>10, <1>11
     DEF User, ReadEnds, ReadOf

\* The worker refuses the request at the head of its queue, answers it, or waits for
\* an import before it goes on.
Refuses(m) ==
    /\ m.kind = "load"
    /\ packets' = packets
    /\ outbox' = Append(outbox, [id |-> m.id, arg |-> m.arg, cap |-> None, type |-> "error"])
    /\ UNCHANGED suspended
Answers(m) ==
    /\ m.kind = "load" => m.arg \in Captures
    /\ Awaits(m.kind) = ""
    /\ packets' = IF m.kind = "load" THEN m.arg ELSE packets
    /\ outbox' = Append(outbox, Answer(m, packets'))
    /\ UNCHANGED suspended
Waits(m) ==
    /\ Awaits(m.kind) # ""
    /\ packets' = IF m.kind = "load" THEN m.arg ELSE packets
    /\ suspended' = Append(suspended,
           [id |-> m.id, kind |-> m.kind, arg |-> m.arg, need |-> Awaits(m.kind)])
    /\ UNCHANGED outbox

\* What stays when the worker runs.
Still == UNCHANGED <<page, loads>>

\* Joining one element on is appending it.
LEMMA OneMore == ASSUME NEW S, NEW s \in Seq(S), NEW e PROVE s \o <<e>> = Append(s, e)
<1> DEFINE T == S \cup {e}
<1>1. s \in Seq(T) /\ e \in T
  OBVIOUS
<1> HIDE DEF T
<1> QED
  BY <1>1

LEMMA TakeSteps ==
    ASSUME TypeOK, WorkerTakes
    PROVE  /\ inbox # <<>> /\ inbox' = Tail(inbox)
           /\ Refuses(Head(inbox)) \/ Answers(Head(inbox)) \/ Waits(Head(inbox))
           /\ UNCHANGED <<page, modules, loads>>
<1> DEFINE m == Head(inbox)
<1>1. m \in Request /\ (m.kind = "load" => m.arg \in Captures)
  <2>1. inbox \in Seq(Request) /\ inbox # <<>>
    BY DEF WorkerTakes, TypeOK
  <2>2. m \in Request
    BY <2>1, Dequeued
  <2> HIDE DEF m
  <2> QED
    BY <2>2 DEF Request, Fits, ArgsOf
<1>2. outbox \in Seq(Reply)
  BY DEF TypeOK
<1>3. CASE /\ m.kind = "load" /\ m.arg \in Unreadable
           /\ outbox' = Append(outbox, [id |-> m.id, arg |-> m.arg,
                                        cap |-> None, type |-> "error"])
           /\ UNCHANGED suspended
  BY <1>3 DEF WorkerTakes, PacketsAfter, Refuses
<1>4. CASE /\ ~(m.kind = "load" /\ m.arg \in Unreadable) /\ Awaits(m.kind) = ""
           /\ outbox' = outbox \o Posts(m, PacketsAfter(m))
           /\ UNCHANGED suspended
  <2> HIDE DEF m
  <2>1. outbox' = Append(outbox, Answer(m, PacketsAfter(m)))
    BY <1>2, <1>4, OneMore DEF Posts
  <2>2. packets' = PacketsAfter(m)
    BY DEF WorkerTakes, m
  <2>3. packets' = IF m.kind = "load" THEN m.arg ELSE packets
    BY <1>4, <2>2 DEF PacketsAfter
  <2>4. Answers(m)
    BY <1>1, <1>4, <2>1, <2>2, <2>3 DEF Answers
  <2> QED
    BY <2>4 DEF WorkerTakes, m
<1>5. CASE /\ ~(m.kind = "load" /\ m.arg \in Unreadable) /\ Awaits(m.kind) # ""
           /\ suspended' = Append(suspended, [id |-> m.id, kind |-> m.kind,
                                              arg |-> m.arg, need |-> Awaits(m.kind)])
           /\ UNCHANGED outbox
  BY <1>5 DEF WorkerTakes, PacketsAfter, Waits
<1> QED
  BY <1>3, <1>4, <1>5 DEF WorkerTakes

\* A handler that goes on waits for a second import, or posts its reply.
WaitsAgain(t, rest) ==
    /\ t.kind = "export" /\ t.need = "filter"
    /\ suspended' = Append(rest, [t EXCEPT !.need = "reader"])
    /\ UNCHANGED outbox
Finishes(t, rest) ==
    /\ suspended' = rest
    /\ outbox' = Append(outbox, Answer(t, packets))

\* The suspended handlers without the i-th.
Others(i) == [j \in 1..(Len(suspended) - 1) |->
                 IF j < i THEN suspended[j] ELSE suspended[j + 1]]

LEMMA ResumeSteps ==
    ASSUME TypeOK, WorkerResume
    PROVE  \E i \in DOMAIN suspended :
               /\ WaitsAgain(suspended[i], Others(i)) \/ Finishes(suspended[i], Others(i))
               /\ modules' = modules \cup ({suspended[i].need} \cap {"analysis", "filter"})
               /\ UNCHANGED <<page, inbox, packets, loads>>
<1>1. PICK i \in DOMAIN suspended : WorkerResumes(i)
  BY DEF WorkerResume
<1>2. outbox \o <<Answer(suspended[i], packets)>> = Append(outbox, Answer(suspended[i], packets))
  BY OneMore DEF TypeOK
<1>3. WaitsAgain(suspended[i], Others(i)) \/ Finishes(suspended[i], Others(i))
  BY <1>1, <1>2 DEF WorkerResumes, WaitsAgain, Finishes, Others, Posts
<1> QED
  BY <1>1, <1>3 DEF WorkerResumes

-----------------------------------------------------------------------------
(* One reply per call *)

\* A message with a new number at the end of a queue.
LEMMA IdsAppended ==
    ASSUME NEW S, NEW s \in Seq(S), NEW e, Distinct(s), e.id \notin SeqIds(s)
    PROVE  /\ Distinct(Append(s, e)) /\ SeqIds(Append(s, e)) = SeqIds(s) \cup {e.id}
           /\ Len(Append(s, e)) = Len(s) + 1
<1> DEFINE t == Append(s, e)
<1>1. /\ Len(s) \in Nat /\ DOMAIN s = 1..Len(s) /\ DOMAIN t = 1..(Len(s) + 1)
      /\ \A k \in 1..Len(s) : t[k] = s[k]
      /\ t[Len(s) + 1] = e
  BY Grown
<1>2. Len(t) = Len(s) + 1
  <2> DEFINE T == S \cup {e}
  <2>1. s \in Seq(T) /\ e \in T
    OBVIOUS
  <2> HIDE DEF T
  <2> QED
    BY <2>1
<1> HIDE DEF t
<1>3. \A k \in DOMAIN s : s[k].id # e.id
  BY DEF SeqIds
<1>4. ASSUME NEW k \in DOMAIN t
      PROVE  (k \in DOMAIN s /\ t[k] = s[k]) \/ (k = Len(s) + 1 /\ t[k] = e)
  <2>1. k \in 1..Len(s) \/ k = Len(s) + 1
    BY <1>1
  <2> QED
    BY <1>1, <2>1
<1>5. Distinct(t)
  BY <1>1, <1>3, <1>4 DEF Distinct
<1>6. SeqIds(t) = SeqIds(s) \cup {e.id}
  <2>1. ASSUME NEW x \in SeqIds(t) PROVE x \in SeqIds(s) \cup {e.id}
    BY <1>4 DEF SeqIds
  <2>2. ASSUME NEW x \in SeqIds(s) PROVE x \in SeqIds(t)
    <3>1. PICK k \in DOMAIN s : x = s[k].id
      BY DEF SeqIds
    <3>2. k \in DOMAIN t /\ t[k].id = x
      BY <1>1, <3>1
    <3> QED
      BY <3>2 DEF SeqIds
  <2>3. e.id \in SeqIds(t)
    <3>1. Len(s) + 1 \in DOMAIN t /\ t[Len(s) + 1].id = e.id
      BY <1>1
    <3> QED
      BY <3>1 DEF SeqIds
  <2> QED
    BY <2>1, <2>2, <2>3
<1> QED
  BY <1>2, <1>5, <1>6 DEF t

\* The message at the head of a queue taken out of it.
LEMMA IdsShifted ==
    ASSUME NEW S, NEW s \in Seq(S), s # <<>>, Distinct(s)
    PROVE  /\ Distinct(Tail(s)) /\ Len(Tail(s)) = Len(s) - 1
           /\ Head(s).id \in SeqIds(s) /\ SeqIds(Tail(s)) = SeqIds(s) \ {Head(s).id}
<1> DEFINE t == Tail(s)
<1>1. /\ Len(s) \in Nat \ {0} /\ DOMAIN s = 1..Len(s)
      /\ Head(s) = s[1] /\ 1 \in DOMAIN s
      /\ Len(t) = Len(s) - 1 /\ DOMAIN t = 1..(Len(s) - 1)
      /\ \A k \in 1..(Len(s) - 1) : t[k] = s[k + 1]
  BY Shifted
<1> HIDE DEF t
<1>2. \A k \in DOMAIN t : k + 1 \in DOMAIN s /\ t[k] = s[k + 1] /\ k + 1 # 1
  BY <1>1
<1>3. \A k \in DOMAIN s : k # 1 => k - 1 \in DOMAIN t /\ t[k - 1] = s[k]
  BY <1>1
<1>4. Distinct(t)
  <2> SUFFICES ASSUME NEW i \in DOMAIN t, NEW j \in DOMAIN t, t[i].id = t[j].id PROVE i = j
    BY DEF Distinct
  <2>1. i + 1 = j + 1
    BY <1>2 DEF Distinct
  <2> QED
    BY <1>1, <2>1
<1>5. Head(s).id \in SeqIds(s)
  BY <1>1 DEF SeqIds
<1>6. ASSUME NEW x \in SeqIds(t) PROVE x \in SeqIds(s) \ {s[1].id}
  <2>1. PICK k \in DOMAIN t : x = t[k].id
    BY DEF SeqIds
  <2>2. x = s[k + 1].id /\ k + 1 \in DOMAIN s /\ k + 1 # 1
    BY <1>2, <2>1
  <2> QED
    BY <1>1, <2>2 DEF SeqIds, Distinct
<1>7. ASSUME NEW x \in SeqIds(s) \ {s[1].id} PROVE x \in SeqIds(t)
  <2>1. PICK k \in DOMAIN s : x = s[k].id
    BY DEF SeqIds
  <2>2. k - 1 \in DOMAIN t /\ t[k - 1].id = x
    BY <1>3, <2>1
  <2> QED
    BY <2>2 DEF SeqIds
<1> QED
  BY <1>1, <1>4, <1>5, <1>6, <1>7 DEF t

\* The i-th message taken out of a queue.
LEMMA IdsTaken ==
    ASSUME NEW S, NEW s \in Seq(S), NEW i \in DOMAIN s, Distinct(s),
           NEW t, t = [j \in 1..(Len(s) - 1) |-> IF j < i THEN s[j] ELSE s[j + 1]]
    PROVE  /\ Distinct(t) /\ Len(t) = Len(s) - 1
           /\ s[i].id \in SeqIds(s) /\ SeqIds(t) = SeqIds(s) \ {s[i].id}
<1>1. /\ Len(s) \in Nat \ {0} /\ DOMAIN s = 1..Len(s) /\ i \in 1..Len(s)
      /\ Len(t) = Len(s) - 1 /\ DOMAIN t = 1..(Len(s) - 1)
      /\ \A j \in 1..(Len(s) - 1) : t[j] = IF j < i THEN s[j] ELSE s[j + 1]
  BY Taken
<1> DEFINE Old(j) == IF j < i THEN j ELSE j + 1
           New(k) == IF k < i THEN k ELSE k - 1
<1>2. \A j \in DOMAIN t : Old(j) \in DOMAIN s /\ t[j] = s[Old(j)] /\ Old(j) # i
  BY <1>1
<1>3. \A k \in DOMAIN s : k # i => New(k) \in DOMAIN t /\ t[New(k)] = s[k]
  BY <1>1
<1>4. \A j, k \in DOMAIN t : Old(j) = Old(k) => j = k
  BY <1>1
<1> HIDE DEF Old, New
<1>5. Distinct(t)
  BY <1>2, <1>4 DEF Distinct
<1>6. s[i].id \in SeqIds(s)
  BY DEF SeqIds
<1>7. ASSUME NEW x \in SeqIds(t) PROVE x \in SeqIds(s) \ {s[i].id}
  <2>1. PICK k \in DOMAIN t : x = t[k].id
    BY DEF SeqIds
  <2>2. x = s[Old(k)].id /\ Old(k) \in DOMAIN s /\ Old(k) # i
    BY <1>2, <2>1
  <2> QED
    BY <2>2 DEF SeqIds, Distinct
<1>8. ASSUME NEW x \in SeqIds(s) \ {s[i].id} PROVE x \in SeqIds(t)
  <2>1. PICK k \in DOMAIN s : x = s[k].id
    BY DEF SeqIds
  <2>2. New(k) \in DOMAIN t /\ t[New(k)].id = x
    BY <1>3, <2>1
  <2> QED
    BY <2>2 DEF SeqIds
<1> QED
  BY <1>1, <1>5, <1>6, <1>7, <1>8

\* A new call, and its message at the end of the inbox.
LEMMA IdsPosted ==
    ASSUME TypeOK, IdsInv, NEW kind, NEW arg, Post(kind, arg), UNCHANGED <<outbox, suspended>>
    PROVE  IdsInv'
<1> DEFINE n == reqId + 1
           call == [id |-> n, kind |-> kind, arg |-> arg, seen |-> Applied]
           m == [id |-> n, kind |-> kind, arg |-> arg]
<1>1. /\ reqId \in Nat /\ pending \subseteq Call /\ inbox \in Seq(Request)
      /\ Len(inbox) \in Nat /\ Len(suspended) \in Nat /\ Len(outbox) \in Nat
  BY DEF TypeOK
<1>2. \A p \in pending : p.id \in Nat /\ p.id <= reqId
  BY <1>1 DEF Call, IdsInv
<1>3. n \notin {p.id : p \in pending} /\ n \notin InFlight /\ n \in Nat
  BY <1>1, <1>2 DEF IdsInv
<1>4. /\ reqId' = n /\ pending' = pending \cup {call} /\ inbox' = Append(inbox, m)
      /\ call.id = n /\ m.id = n
  BY DEF Post
<1> HIDE DEF call, m, n
<1>5. /\ Distinct(inbox') /\ SeqIds(inbox') = SeqIds(inbox) \cup {n}
      /\ Len(inbox') = Len(inbox) + 1
  BY <1>1, <1>3, <1>4, IdsAppended DEF IdsInv, InFlight
<1>6. SeqIds(outbox') = SeqIds(outbox) /\ SeqIds(suspended') = SeqIds(suspended)
  OBVIOUS
<1>7. InFlight' = InFlight \cup {n}
  BY <1>5, <1>6 DEF InFlight
<1>8. call \notin pending
  BY <1>3, <1>4
<1>9. /\ IsFiniteSet(pending') /\ IsFiniteSet(InFlight')
      /\ Cardinality(pending') = Cardinality(pending) + 1
      /\ Cardinality(InFlight') = Cardinality(InFlight) + 1
  BY <1>3, <1>4, <1>7, <1>8, FS_AddElement DEF IdsInv
<1>10. \A p \in pending' : p.id <= reqId'
  BY <1>1, <1>2, <1>4 DEF n
<1>11. \A p, q \in pending' : p.id = q.id => p = q
  BY <1>3, <1>4 DEF IdsInv
<1>12. {p.id : p \in pending'} = InFlight'
  BY <1>4, <1>7 DEF IdsInv
<1>13. /\ Distinct(suspended') /\ Distinct(outbox')
       /\ SeqIds(inbox') \cap SeqIds(suspended') = {}
       /\ SeqIds(inbox') \cap SeqIds(outbox') = {}
       /\ SeqIds(suspended') \cap SeqIds(outbox') = {}
  BY <1>3, <1>5, <1>6 DEF IdsInv, InFlight
<1>14. /\ Cardinality(pending') = Len(inbox') + Len(suspended') + Len(outbox')
       /\ Cardinality(InFlight') = Len(inbox') + Len(suspended') + Len(outbox')
  BY <1>1, <1>5, <1>9 DEF IdsInv
<1> QED
  BY <1>5, <1>9, <1>10, <1>11, <1>12, <1>13, <1>14 DEF IdsInv

\* A message that goes from one queue to another keeps its number.
LEMMA IdsMoved ==
    ASSUME TypeOK, IdsInv, UNCHANGED <<reqId, pending>>,
           Distinct(inbox'), Distinct(suspended'), Distinct(outbox'),
           NEW x,
           \/ /\ SeqIds(inbox') = SeqIds(inbox) \ {x} /\ Len(inbox') = Len(inbox) - 1
              /\ x \in SeqIds(inbox) /\ suspended' = suspended
              /\ SeqIds(outbox') = SeqIds(outbox) \cup {x} /\ Len(outbox') = Len(outbox) + 1
           \/ /\ SeqIds(inbox') = SeqIds(inbox) \ {x} /\ Len(inbox') = Len(inbox) - 1
              /\ x \in SeqIds(inbox) /\ outbox' = outbox
              /\ SeqIds(suspended') = SeqIds(suspended) \cup {x}
              /\ Len(suspended') = Len(suspended) + 1
           \/ /\ SeqIds(suspended') = SeqIds(suspended) \ {x}
              /\ Len(suspended') = Len(suspended) - 1
              /\ x \in SeqIds(suspended) /\ inbox' = inbox
              /\ SeqIds(outbox') = SeqIds(outbox) \cup {x} /\ Len(outbox') = Len(outbox) + 1
           \/ /\ SeqIds(suspended') = SeqIds(suspended) /\ Len(suspended') = Len(suspended)
              /\ inbox' = inbox /\ outbox' = outbox
    PROVE  IdsInv'
<1>1. Len(inbox) \in Nat /\ Len(suspended) \in Nat /\ Len(outbox) \in Nat
  BY DEF TypeOK
<1>2. /\ inbox' = inbox => SeqIds(inbox') = SeqIds(inbox)
      /\ outbox' = outbox => SeqIds(outbox') = SeqIds(outbox)
      /\ suspended' = suspended => SeqIds(suspended') = SeqIds(suspended)
  OBVIOUS
<1>3. InFlight' = InFlight
  BY <1>2 DEF InFlight
<1>4. Len(inbox') + Len(suspended') + Len(outbox') = Len(inbox) + Len(suspended) + Len(outbox)
  BY <1>1
<1>5. /\ SeqIds(inbox') \cap SeqIds(suspended') = {}
      /\ SeqIds(inbox') \cap SeqIds(outbox') = {}
      /\ SeqIds(suspended') \cap SeqIds(outbox') = {}
  BY <1>2 DEF IdsInv
<1> QED
  BY <1>3, <1>4, <1>5 DEF IdsInv

LEMMA IdsTake == ASSUME TypeOK, IdsInv, WorkerTakes PROVE IdsInv'
<1> DEFINE m == Head(inbox)
<1>1. /\ inbox # <<>> /\ inbox' = Tail(inbox)
      /\ Refuses(m) \/ Answers(m) \/ Waits(m)
      /\ UNCHANGED <<page, modules, loads>>
  BY TakeSteps
<1>2. inbox \in Seq(Request) /\ suspended \in Seq(Task) /\ outbox \in Seq(Reply)
  BY DEF TypeOK
<1>3. /\ Distinct(inbox') /\ Len(inbox') = Len(inbox) - 1
      /\ m.id \in SeqIds(inbox) /\ SeqIds(inbox') = SeqIds(inbox) \ {m.id}
  BY <1>1, <1>2, IdsShifted DEF IdsInv
<1>4. m.id \notin SeqIds(suspended) /\ m.id \notin SeqIds(outbox)
  BY <1>3 DEF IdsInv
<1>5. UNCHANGED <<reqId, pending>>
  BY <1>1 DEF page
<1> HIDE DEF m
<1>6. ASSUME NEW r, r.id = m.id, outbox' = Append(outbox, r), suspended' = suspended
      PROVE  IdsInv'
  <2>1. /\ Distinct(outbox') /\ SeqIds(outbox') = SeqIds(outbox) \cup {m.id}
        /\ Len(outbox') = Len(outbox) + 1
    BY <1>2, <1>4, <1>6, IdsAppended DEF IdsInv
  <2>2. Distinct(suspended')
    BY <1>6 DEF IdsInv
  <2> QED
    BY <1>3, <1>5, <1>6, <2>1, <2>2, IdsMoved
<1>7. ASSUME NEW t, t.id = m.id, suspended' = Append(suspended, t), outbox' = outbox
      PROVE  IdsInv'
  <2>1. /\ Distinct(suspended') /\ SeqIds(suspended') = SeqIds(suspended) \cup {m.id}
        /\ Len(suspended') = Len(suspended) + 1
    BY <1>2, <1>4, <1>7, IdsAppended DEF IdsInv
  <2>2. Distinct(outbox')
    BY <1>7 DEF IdsInv
  <2> QED
    BY <1>3, <1>5, <1>7, <2>1, <2>2, IdsMoved
<1>8. CASE Refuses(m)
  BY <1>6, <1>8 DEF Refuses
<1>9. CASE Answers(m)
  <2>1. Answer(m, packets').id = m.id
    BY DEF Answer
  <2> QED
    BY <1>6, <1>9, <2>1 DEF Answers
<1>10. CASE Waits(m)
  BY <1>7, <1>10 DEF Waits
<1> QED
  BY <1>1, <1>8, <1>9, <1>10

LEMMA IdsResume == ASSUME TypeOK, IdsInv, WorkerResume PROVE IdsInv'
<1>1. PICK i \in DOMAIN suspended :
          /\ WaitsAgain(suspended[i], Others(i)) \/ Finishes(suspended[i], Others(i))
          /\ UNCHANGED <<page, inbox, packets, loads>>
  BY ResumeSteps
<1> DEFINE t == suspended[i]
           rest == Others(i)
<1>2. suspended \in Seq(Task) /\ outbox \in Seq(Reply) /\ t \in Task /\ rest \in Seq(Task)
  BY Removed DEF TypeOK, Others
<1>3. /\ Distinct(rest) /\ Len(rest) = Len(suspended) - 1
      /\ t.id \in SeqIds(suspended) /\ SeqIds(rest) = SeqIds(suspended) \ {t.id}
  BY <1>2, IdsTaken DEF IdsInv, Others
<1>4. UNCHANGED <<reqId, pending>> /\ Distinct(inbox') /\ inbox' = inbox
  BY <1>1 DEF page, IdsInv
<1>5. t.id \notin SeqIds(outbox) /\ Len(suspended) \in Nat
  BY <1>3 DEF IdsInv, TypeOK
<1>6. WaitsAgain(t, rest) \/ Finishes(t, rest)
  BY <1>1
<1> HIDE DEF t, rest
<1>7. CASE WaitsAgain(t, rest)
  <2> DEFINE again == [t EXCEPT !.need = "reader"]
  <2>1. again.id = t.id
    BY <1>2 DEF Task
  <2>2. suspended' = Append(rest, again) /\ outbox' = outbox
    BY <1>7 DEF WaitsAgain
  <2> HIDE DEF again
  <2>3. /\ Distinct(suspended') /\ SeqIds(suspended') = SeqIds(suspended)
        /\ Len(suspended') = Len(suspended)
    <3>1. again.id \notin SeqIds(rest)
      BY <1>3, <2>1
    <3>2. /\ Distinct(suspended') /\ SeqIds(suspended') = SeqIds(rest) \cup {t.id}
          /\ Len(suspended') = Len(rest) + 1
      BY <1>2, <1>3, <2>1, <2>2, <3>1, IdsAppended
    <3> QED
      BY <1>3, <1>5, <3>2
  <2>4. Distinct(outbox')
    BY <2>2 DEF IdsInv
  <2> QED
    BY <1>4, <2>2, <2>3, <2>4, IdsMoved
<1>8. CASE Finishes(t, rest)
  <2> DEFINE r == Answer(t, packets)
  <2>1. r.id = t.id
    BY DEF Answer
  <2>2. suspended' = rest /\ outbox' = Append(outbox, r)
    BY <1>8 DEF Finishes
  <2> HIDE DEF r
  <2>3. /\ Distinct(outbox') /\ SeqIds(outbox') = SeqIds(outbox) \cup {t.id}
        /\ Len(outbox') = Len(outbox) + 1
    BY <1>2, <1>5, <2>1, <2>2, IdsAppended DEF IdsInv
  <2> QED
    BY <1>3, <1>4, <2>2, <2>3, IdsMoved
<1> QED
  BY <1>6, <1>7, <1>8

\* A reply resolves the one promise of its number.
LEMMA IdsDeliver ==
    ASSUME TypeOK, IdsInv, Deliver
    PROVE  IdsInv' /\ \E p \in pending : p.id = Head(outbox).id /\ CallOf(Head(outbox)) = {p}
<1> DEFINE r == Head(outbox)
<1>1. /\ outbox # <<>> /\ outbox' = Tail(outbox) /\ pending' = pending \ CallOf(r)
      /\ UNCHANGED <<reqId, inbox, suspended>>
  BY DEF Deliver
<1>2. outbox \in Seq(Reply)
  BY DEF TypeOK
<1>3. /\ Distinct(outbox') /\ Len(outbox') = Len(outbox) - 1
      /\ r.id \in SeqIds(outbox) /\ SeqIds(outbox') = SeqIds(outbox) \ {r.id}
  BY <1>1, <1>2, IdsShifted DEF IdsInv
<1> HIDE DEF r
<1>4. PICK p \in pending : p.id = r.id
  BY <1>3 DEF IdsInv, InFlight
<1>5. CallOf(r) = {p}
  BY <1>4 DEF CallOf, IdsInv
<1>6. pending' = pending \ {p}
  BY <1>1, <1>5
<1>7. SeqIds(inbox') = SeqIds(inbox) /\ SeqIds(suspended') = SeqIds(suspended)
  BY <1>1
<1>8. InFlight' = InFlight \ {r.id} /\ r.id \in InFlight
  BY <1>3, <1>7 DEF InFlight, IdsInv
<1>9. /\ IsFiniteSet(pending') /\ IsFiniteSet(InFlight')
      /\ Cardinality(pending') = Cardinality(pending) - 1
      /\ Cardinality(InFlight') = Cardinality(InFlight) - 1
  BY <1>6, <1>8, FS_RemoveElement DEF IdsInv
<1>10. Len(inbox) \in Nat /\ Len(suspended) \in Nat /\ Len(outbox) \in Nat
  BY DEF TypeOK
<1>11. /\ Cardinality(pending') = Len(inbox') + Len(suspended') + Len(outbox')
       /\ Cardinality(InFlight') = Len(inbox') + Len(suspended') + Len(outbox')
  BY <1>1, <1>3, <1>9, <1>10 DEF IdsInv
<1>12. {q.id : q \in pending'} = InFlight'
  BY <1>4, <1>6, <1>8 DEF IdsInv
<1>13. /\ \A q, s \in pending' : q.id = s.id => q = s
       /\ \A q \in pending' : q.id <= reqId'
       /\ Distinct(inbox') /\ Distinct(suspended')
  BY <1>1, <1>6 DEF IdsInv
<1>14. /\ SeqIds(inbox') \cap SeqIds(suspended') = {}
       /\ SeqIds(inbox') \cap SeqIds(outbox') = {}
       /\ SeqIds(suspended') \cap SeqIds(outbox') = {}
  BY <1>3, <1>7 DEF IdsInv
<1>15. IdsInv'
  BY <1>3, <1>9, <1>11, <1>12, <1>13, <1>14 DEF IdsInv
<1> QED
  BY <1>4, <1>5, <1>15 DEF r

\* Nothing is on its way: before the first call, and after goHome.
LEMMA EmptyQueue ==
    ASSUME NEW s, s = <<>>
    PROVE  DOMAIN s = {} /\ Len(s) = 0 /\ SeqIds(s) = {} /\ Distinct(s)
<1>1. DOMAIN s = {} /\ Len(s) = 0
  OBVIOUS
<1> QED
  BY <1>1 DEF SeqIds, Distinct

LEMMA IdsInit == Init => IdsInv
<1> SUFFICES ASSUME Init PROVE IdsInv
  OBVIOUS
<1>1. pending = {} /\ inbox = <<>> /\ suspended = <<>> /\ outbox = <<>>
  BY DEF Init
<1>2. /\ SeqIds(inbox) = {} /\ SeqIds(suspended) = {} /\ SeqIds(outbox) = {}
      /\ Distinct(inbox) /\ Distinct(suspended) /\ Distinct(outbox)
      /\ Len(inbox) = 0 /\ Len(suspended) = 0 /\ Len(outbox) = 0
  BY <1>1, EmptyQueue
<1>3. InFlight = {}
  BY <1>2 DEF InFlight
<1> QED
  BY <1>1, <1>2, <1>3, FS_EmptySet DEF IdsInv

LEMMA IdsHome == GoHome => IdsInv'
<1> SUFFICES ASSUME GoHome PROVE IdsInv'
  OBVIOUS
<1>1. pending' = {} /\ inbox' = <<>> /\ suspended' = <<>> /\ outbox' = <<>>
  BY DEF GoHome, ForgetCalls
<1>2. /\ SeqIds(inbox') = {} /\ SeqIds(suspended') = {} /\ SeqIds(outbox') = {}
      /\ Distinct(inbox') /\ Distinct(suspended') /\ Distinct(outbox')
      /\ Len(inbox') = 0 /\ Len(suspended') = 0 /\ Len(outbox') = 0
  BY <1>1, EmptyQueue
<1>3. InFlight' = {}
  BY <1>2 DEF InFlight
<1> QED
  BY <1>1, <1>2, <1>3, FS_EmptySet DEF IdsInv

LEMMA IdsStep == TypeOK /\ IdsInv /\ [Next]_vars => IdsInv'
<1> SUFFICES ASSUME TypeOK, IdsInv, [Next]_vars PROVE IdsInv'
  OBVIOUS
<1>1. CASE Quiet
  <2>1. UNCHANGED <<reqId, pending, inbox, outbox, suspended>>
    BY <1>1 DEF Quiet
  <2>2. UNCHANGED <<SeqIds(inbox), SeqIds(suspended), SeqIds(outbox), InFlight,
                    Distinct(inbox), Distinct(suspended), Distinct(outbox)>>
    BY <2>1 DEF InFlight, SeqIds, Distinct
  <2> QED
    BY <2>1, <2>2 DEF IdsInv
<1>2. GoHome => IdsInv'
  BY IdsHome
<1>3. ASSUME NEW kind, NEW arg, Calls(kind, arg) PROVE IdsInv'
  BY <1>3, IdsPosted DEF Calls
<1>4. ASSUME NEW r \in reading, ReadDone(r) PROVE IdsInv'
  BY <1>4, IdsPosted DEF ReadDone
<1>5. WorkerTakes \/ WorkerResume \/ Deliver => IdsInv'
  BY IdsTake, IdsResume, IdsDeliver
<1> QED
  BY <1>1, <1>2, <1>3, <1>4, <1>5, PageSteps DEF Next

LEMMA IdsAlways == Spec => []IdsInv
BY IdsInit, TypeCorrect, IdsStep, PTL DEF Spec

\* The worker answers every request exactly once, on every path of its handler: the
\* unresolved promises are, one to one, the requests queued, those suspended in an
\* import() and the replies on their way (app.js:20-33, worker.js:40-113).
THEOREM RepliesMatchCalls == Spec => []OneReplyPerCall
<1>1. IdsInv => OneReplyPerCall
  BY DEF IdsInv, OneReplyPerCall
<1> QED
  BY <1>1, IdsAlways, PTL

-----------------------------------------------------------------------------
(* A reply is about what its call was about *)

\* Every message on its way has a number the page has given out.
LEMMA KnownIds ==
    ASSUME TypeOK, IdsInv
    PROVE  /\ \A i \in DOMAIN inbox : inbox[i].id <= reqId
           /\ \A i \in DOMAIN suspended : suspended[i].id <= reqId
           /\ \A i \in DOMAIN outbox : outbox[i].id <= reqId
<1>1. ASSUME NEW x \in InFlight PROVE x <= reqId
  <2>1. x \in {p.id : p \in pending}
    BY <1>1 DEF IdsInv
  <2> QED
    BY <2>1 DEF IdsInv
<1> QED
  BY <1>1 DEF InFlight, SeqIds

LEMMA MatchPosted ==
    ASSUME TypeOK, IdsInv, MatchInv, NEW kind, NEW arg, Post(kind, arg),
           UNCHANGED <<outbox, suspended>>, DetailOfItsPacket'
    PROVE  MatchInv'
<1> DEFINE n == reqId + 1
           call == [id |-> n, kind |-> kind, arg |-> arg, seen |-> Applied]
           m == [id |-> n, kind |-> kind, arg |-> arg]
<1>1. /\ call.id = n /\ m.id = n /\ AboutCall(m, call)
      /\ pending' = pending \cup {call} /\ inbox' = Append(inbox, m)
  BY DEF Post, AboutCall
<1>2. \A x : x <= reqId => x # n
  BY DEF TypeOK
<1> HIDE DEF call, m, n
<1>3. \A p \in pending : ~(p.id = n)
  BY <1>2 DEF IdsInv
<1>4. /\ \A i \in DOMAIN inbox : inbox[i].id # n
      /\ \A i \in DOMAIN suspended : suspended[i].id # n
      /\ \A i \in DOMAIN outbox : outbox[i].id # n
  BY <1>2, KnownIds
<1>5. \A i \in DOMAIN inbox' : inbox'[i] = m \/ \E j \in DOMAIN inbox : inbox'[i] = inbox[j]
  BY <1>1, AppendElements DEF TypeOK
<1>6. \A i \in DOMAIN inbox', p \in pending' : AboutCall(inbox'[i], p)
  BY <1>1, <1>3, <1>4, <1>5 DEF MatchInv, AboutCall
<1>7. \A i \in DOMAIN suspended', p \in pending' : AboutCall(suspended'[i], p)
  BY <1>1, <1>4 DEF MatchInv, AboutCall
<1>8. \A i \in DOMAIN outbox', p \in pending' : RepliesTo(outbox'[i], p)
  BY <1>1, <1>4 DEF MatchInv, RepliesTo
<1> QED
  BY <1>6, <1>7, <1>8 DEF MatchInv

\* The worker's reply to a request it has as the page made it.
LEMMA AnswerRepliesTo ==
    ASSUME NEW t, NEW p, AboutCall(t, p), NEW loaded
    PROVE  RepliesTo(Answer(t, loaded), p)
BY DEF AboutCall, RepliesTo, Answer

LEMMA MatchTake == ASSUME TypeOK, MatchInv, WorkerTakes PROVE MatchInv'
<1> DEFINE m == Head(inbox)
<1>1. /\ inbox # <<>> /\ inbox' = Tail(inbox)
      /\ Refuses(m) \/ Answers(m) \/ Waits(m)
      /\ UNCHANGED <<page, modules, loads>>
  BY TakeSteps
<1>2. UNCHANGED <<pending, cache>>
  BY <1>1 DEF page
<1>3. DetailOfItsPacket'
  BY <1>2 DEF MatchInv, DetailOfItsPacket
<1>4. \A i \in DOMAIN inbox' : \E j \in DOMAIN inbox : inbox'[i] = inbox[j]
  BY <1>1, TailElements DEF TypeOK
<1>5. \A p \in pending : AboutCall(m, p)
  <2>1. m = inbox[1] /\ 1 \in DOMAIN inbox
    BY <1>1, Shifted DEF TypeOK
  <2> QED
    BY <2>1 DEF MatchInv
<1> HIDE DEF m
<1>6. \A i \in DOMAIN suspended' : suspended'[i] \in {suspended[j] : j \in DOMAIN suspended}
                                   \/ \A p \in pending : AboutCall(suspended'[i], p)
  <2>1. CASE Waits(m)
    <3> DEFINE t == [id |-> m.id, kind |-> m.kind, arg |-> m.arg, need |-> Awaits(m.kind)]
    <3>1. \A p \in pending : AboutCall(t, p)
      BY <1>5 DEF AboutCall
    <3>2. suspended' = Append(suspended, t)
      BY <2>1 DEF Waits
    <3> HIDE DEF t
    <3> QED
      BY <3>1, <3>2, AppendElements DEF TypeOK
  <2>2. CASE suspended' = suspended
    BY <2>2
  <2> QED
    BY <1>1, <2>1, <2>2 DEF Refuses, Answers
<1>7. \A i \in DOMAIN outbox' : outbox'[i] \in {outbox[j] : j \in DOMAIN outbox}
                                \/ \A p \in pending : RepliesTo(outbox'[i], p)
  <2>1. ASSUME NEW r, \A p \in pending : RepliesTo(r, p), outbox' = Append(outbox, r)
        PROVE  \A i \in DOMAIN outbox' : outbox'[i] \in {outbox[j] : j \in DOMAIN outbox}
                                         \/ \A p \in pending : RepliesTo(outbox'[i], p)
    BY <2>1, AppendElements DEF TypeOK
  <2>2. CASE Refuses(m)
    <3> DEFINE r == [id |-> m.id, arg |-> m.arg, cap |-> None, type |-> "error"]
    <3>1. \A p \in pending : RepliesTo(r, p)
      BY <1>5 DEF AboutCall, RepliesTo
    <3>2. outbox' = Append(outbox, r)
      BY <2>2 DEF Refuses
    <3> HIDE DEF r
    <3> QED
      BY <2>1, <3>1, <3>2
  <2>3. CASE Answers(m)
    BY <1>5, <2>1, <2>3, AnswerRepliesTo DEF Answers
  <2>4. CASE outbox' = outbox
    BY <2>4
  <2> QED
    BY <1>1, <2>2, <2>3, <2>4 DEF Waits
<1> QED
  BY <1>2, <1>3, <1>4, <1>6, <1>7 DEF MatchInv

LEMMA MatchResume == ASSUME TypeOK, MatchInv, WorkerResume PROVE MatchInv'
<1>1. PICK i \in DOMAIN suspended :
          /\ WaitsAgain(suspended[i], Others(i)) \/ Finishes(suspended[i], Others(i))
          /\ UNCHANGED <<page, inbox, packets, loads>>
  BY ResumeSteps
<1> DEFINE t == suspended[i]
           rest == Others(i)
<1>2. UNCHANGED <<pending, cache, inbox>>
  BY <1>1 DEF page
<1>3. DetailOfItsPacket'
  BY <1>2 DEF MatchInv, DetailOfItsPacket
<1>4. /\ rest \in Seq(Task) /\ t \in Task
      /\ \A k \in DOMAIN rest : \E j \in DOMAIN suspended : rest[k] = suspended[j]
  <2>1. suspended \in Seq(Task)
    BY DEF TypeOK
  <2>2. rest \in Seq(Task) /\ t \in Task
    BY <2>1, Removed DEF Others
  <2>3. \A k \in DOMAIN rest : \E j \in DOMAIN suspended : rest[k] = suspended[j]
    BY <2>1, TakenElements DEF Others
  <2> QED
    BY <2>2, <2>3
<1>5. /\ \A p \in pending : AboutCall(t, p)
      /\ WaitsAgain(t, rest) \/ Finishes(t, rest)
  BY <1>1 DEF MatchInv
<1> HIDE DEF t, rest
<1>6. CASE WaitsAgain(t, rest)
  <2> DEFINE again == [t EXCEPT !.need = "reader"]
  <2>1. \A p \in pending : AboutCall(again, p)
    BY <1>4, <1>5 DEF AboutCall, Task
  <2>2. suspended' = Append(rest, again) /\ outbox' = outbox
    BY <1>6 DEF WaitsAgain
  <2> HIDE DEF again
  <2>3. \A k \in DOMAIN suspended' : suspended'[k] = again \/ \E j \in DOMAIN rest : suspended'[k] = rest[j]
    BY <1>4, <2>2, AppendElements
  <2>4. \A k \in DOMAIN suspended', p \in pending : AboutCall(suspended'[k], p)
    BY <1>4, <2>1, <2>3 DEF MatchInv
  <2> QED
    BY <1>2, <1>3, <2>2, <2>4 DEF MatchInv
<1>7. CASE Finishes(t, rest)
  <2> DEFINE r == Answer(t, packets)
  <2>1. \A p \in pending : RepliesTo(r, p)
    BY <1>5, AnswerRepliesTo
  <2>2. suspended' = rest /\ outbox' = Append(outbox, r)
    BY <1>7 DEF Finishes
  <2> HIDE DEF r
  <2>3. \A k \in DOMAIN outbox' : outbox'[k] = r \/ \E j \in DOMAIN outbox : outbox'[k] = outbox[j]
    BY <2>2, AppendElements DEF TypeOK
  <2>4. \A k \in DOMAIN outbox', p \in pending : RepliesTo(outbox'[k], p)
    BY <2>1, <2>3 DEF MatchInv
  <2>5. \A k \in DOMAIN suspended', p \in pending : AboutCall(suspended'[k], p)
    BY <1>4, <2>2 DEF MatchInv
  <2> QED
    BY <1>2, <1>3, <2>4, <2>5 DEF MatchInv
<1> QED
  BY <1>5, <1>6, <1>7

LEMMA MatchDeliver == ASSUME TypeOK, IdsInv, MatchInv, Deliver PROVE MatchInv'
<1> DEFINE r == Head(outbox)
<1>1. /\ outbox # <<>> /\ outbox' = Tail(outbox) /\ pending' = pending \ CallOf(r)
      /\ UNCHANGED <<inbox, suspended>>
  BY DEF Deliver
<1>2. \A i \in DOMAIN outbox' : \E j \in DOMAIN outbox : outbox'[i] = outbox[j]
  BY <1>1, TailElements DEF TypeOK
<1>3. \A p \in CallOf(r) : RepliesTo(r, p) /\ p.id = r.id /\ p \in pending
  <2>1. r = outbox[1] /\ 1 \in DOMAIN outbox
    BY <1>1, Shifted DEF TypeOK
  <2> QED
    BY <2>1 DEF MatchInv, CallOf
<1>4. \/ UNCHANGED cache
      \/ \E p \in CallOf(r) : p.kind = "detail" /\ DetailEnds(p, r)
  BY DEF Deliver
<1> HIDE DEF r
<1>5. DetailOfItsPacket'
  <2>1. CASE UNCHANGED cache
    BY <2>1 DEF MatchInv, DetailOfItsPacket
  <2>2. ASSUME NEW p \in CallOf(r), p.kind = "detail", DetailEnds(p, r)
        PROVE  DetailOfItsPacket'
    <3> DEFINE d == [cap |-> IF r.type = "error" THEN None ELSE r.cap, n |-> r.arg]
    <3>1. d.n = p.arg /\ cache' = [cache EXCEPT ![p.arg] = d]
      BY <1>3, <2>2 DEF RepliesTo, DetailEnds
    <3> HIDE DEF d
    <3> QED
      BY <3>1 DEF MatchInv, DetailOfItsPacket, TypeOK
  <2> QED
    BY <1>4, <2>1, <2>2
<1>6. pending' \subseteq pending
  BY <1>1
<1> QED
  BY <1>1, <1>2, <1>5, <1>6 DEF MatchInv

LEMMA MatchStep == TypeOK /\ IdsInv /\ MatchInv /\ [Next]_vars => MatchInv'
<1> SUFFICES ASSUME TypeOK, IdsInv, MatchInv, [Next]_vars PROVE MatchInv'
  OBVIOUS
<1>1. ASSUME UNCHANGED cache PROVE DetailOfItsPacket'
  BY <1>1 DEF MatchInv, DetailOfItsPacket
<1>2. CASE Quiet
  BY <1>1, <1>2 DEF Quiet, MatchInv
<1>3. ASSUME ResetView PROVE DetailOfItsPacket'
  BY <1>3 DEF ResetView, DetailOfItsPacket
<1>4. CASE GoHome
  <2>1. pending' = {} /\ DetailOfItsPacket'
    BY <1>3, <1>4 DEF GoHome, ForgetCalls
  <2> QED
    BY <2>1 DEF MatchInv
<1>5. ASSUME NEW kind, NEW arg, Calls(kind, arg) PROVE MatchInv'
  BY <1>1, <1>5, MatchPosted DEF Calls
<1>6. ASSUME NEW r \in reading, ReadDone(r) PROVE MatchInv'
  BY <1>3, <1>6, MatchPosted DEF ReadDone
<1>7. WorkerTakes \/ WorkerResume \/ Deliver => MatchInv'
  BY MatchTake, MatchResume, MatchDeliver
<1> QED
  BY <1>2, <1>4, <1>5, <1>6, <1>7, PageSteps DEF Next

LEMMA MatchAlways == Spec => []MatchInv
<1>1. Init => MatchInv
  <2> SUFFICES ASSUME Init PROVE MatchInv
    OBVIOUS
  <2>1. pending = {} /\ DetailOfItsPacket
    BY DEF Init, DetailOfItsPacket
  <2> QED
    BY <2>1 DEF MatchInv
<1> QED
  BY <1>1, TypeCorrect, IdsAlways, MatchStep, PTL DEF Spec

\* Replies overtake one another while a handler waits for an import(), and still the
\* detail filed under a packet number is that packet's (app.js:20-33, 158-165).
THEOREM DetailsAreFiledRight == Spec => []DetailOfItsPacket
<1>1. MatchInv => DetailOfItsPacket
  BY DEF MatchInv
<1> QED
  BY <1>1, MatchAlways, PTL

-----------------------------------------------------------------------------
(* What comes back is of the capture it is taken to be of *)

\* The type of a reply tells which handler posted it.
LEMMA AnswerTypes ==
    ASSUME NEW t, NEW loaded
    PROVE  /\ Answer(t, loaded).type = "loaded" <=> t.kind = "load"
           /\ Answer(t, loaded).cap = loaded
BY DEF Answer

\* The outbox with one more reply, and what is then the last capture on its way.
LEMMA ViewGrows ==
    ASSUME TypeOK, ViewInv, "analysis" \in modules',
           NEW r, outbox' = Append(outbox, r), view' = view,
           r.type = "loaded" => r.cap = packets',
           r.type # "loaded" => packets' = packets
    PROVE  /\ \A i \in DOMAIN outbox' :
                  (Loaded(i)' /\ \A j \in DOMAIN outbox' : j > i => ~Loaded(j)')
                      => outbox'[i].cap = packets'
           /\ (view' # None /\ \A j \in DOMAIN outbox' : ~Loaded(j)') => view'.cap = packets'
<1>0. PICK n \in Nat : n = Len(outbox) + 1
  BY DEF TypeOK
<1>1. /\ Len(outbox) \in Nat /\ DOMAIN outbox = 1..Len(outbox) /\ DOMAIN outbox' = 1..n
      /\ \A k \in 1..Len(outbox) : outbox'[k] = outbox[k]
      /\ outbox'[n] = r
  BY <1>0, Grown DEF TypeOK
<1>2. n \in DOMAIN outbox' /\ \A k \in DOMAIN outbox : k < n
  BY <1>0, <1>1
<1>3. \A k \in DOMAIN outbox' : k = n \/ (k \in DOMAIN outbox /\ outbox'[k] = outbox[k] /\ k < n)
  <2> TAKE k \in DOMAIN outbox'
  <2>1. k = n \/ k \in 1..Len(outbox)
    BY <1>0, <1>1
  <2> QED
    BY <1>0, <1>1, <2>1
<1>4. \A k \in DOMAIN outbox : k \in DOMAIN outbox' /\ outbox'[k] = outbox[k]
  BY <1>1
<1>5. CASE r.type = "loaded"
  <2>1. Loaded(n)'
    BY <1>1, <1>5 DEF Loaded
  <2>2. \A i \in DOMAIN outbox' : i # n => n > i
    BY <1>0, <1>2, <1>3
  <2> QED
    BY <1>1, <1>2, <1>5, <2>1, <2>2
<1>6. CASE r.type # "loaded"
  <2>1. ~Loaded(n)' /\ \A k \in DOMAIN outbox : Loaded(k)' <=> Loaded(k)
    BY <1>1, <1>4, <1>6 DEF Loaded
  <2>2. ASSUME NEW i \in DOMAIN outbox', Loaded(i)', \A j \in DOMAIN outbox' : j > i => ~Loaded(j)'
        PROVE  outbox'[i].cap = packets'
    <3>1. i \in DOMAIN outbox /\ Loaded(i) /\ outbox'[i] = outbox[i]
      BY <1>3, <2>1, <2>2
    <3>2. \A j \in DOMAIN outbox : j > i => ~Loaded(j)
      BY <1>4, <2>1, <2>2
    <3> QED
      BY <1>6, <3>1, <3>2 DEF ViewInv
  <2>3. (view' # None /\ \A j \in DOMAIN outbox' : ~Loaded(j)') => view'.cap = packets'
    BY <1>4, <1>6, <2>1 DEF ViewInv
  <2> QED
    BY <2>2, <2>3
<1> QED
  BY <1>5, <1>6

\* The same before the worker has its analysis module: no capture has come back.
LEMMA NoneLoaded ==
    ASSUME TypeOK, ViewInv, "analysis" \notin modules, NEW r, r.type # "loaded",
           outbox' = Append(outbox, r), view' = view
    PROVE  view' = None /\ \A i \in DOMAIN outbox' : ~Loaded(i)'
<1>1. \A k \in DOMAIN outbox' : outbox'[k] = r \/ \E j \in DOMAIN outbox : outbox'[k] = outbox[j]
  BY AppendElements DEF TypeOK
<1>2. view = None /\ \A i \in DOMAIN outbox : outbox[i].type # "loaded"
  BY DEF ViewInv, Loaded
<1> QED
  BY <1>1, <1>2 DEF Loaded

LEMMA ViewTake == ASSUME TypeOK, ViewInv, WorkerTakes PROVE ViewInv'
<1> DEFINE m == Head(inbox)
<1>1. /\ inbox # <<>> /\ inbox' = Tail(inbox)
      /\ Refuses(m) \/ Answers(m) \/ Waits(m)
      /\ UNCHANGED <<page, modules, loads>>
  BY TakeSteps
<1>2. m \in Request
  BY <1>1, Dequeued DEF TypeOK
<1>3. view' = view /\ modules' = modules
  BY <1>1 DEF page
<1>4. m.kind = "load" => (Awaits(m.kind) = "" <=> "analysis" \in modules)
                         /\ Awaits(m.kind) \in {"", "analysis"}
  BY DEF Awaits
<1> HIDE DEF m
<1>5. ASSUME NEW r, outbox' = Append(outbox, r), suspended' = suspended,
             r.type = "loaded" => r.cap = packets' /\ "analysis" \in modules,
             r.type # "loaded" => packets' = packets
      PROVE  ViewInv'
  <2>1. CASE "analysis" \in modules
    BY <1>3, <1>5, <2>1, ViewGrows DEF ViewInv
  <2>2. CASE "analysis" \notin modules
    BY <1>3, <1>5, <2>2, NoneLoaded DEF ViewInv
  <2> QED
    BY <2>1, <2>2
<1>6. CASE Refuses(m)
  <2> DEFINE r == [id |-> m.id, arg |-> m.arg, cap |-> None, type |-> "error"]
  <2>1. r.type # "loaded" /\ outbox' = Append(outbox, r)
    BY <1>6 DEF Refuses
  <2> HIDE DEF r
  <2> QED
    BY <1>5, <1>6, <2>1 DEF Refuses
<1>7. CASE Answers(m)
  <2> DEFINE r == Answer(m, packets')
  <2>1. r.cap = packets' /\ (r.type = "loaded" <=> m.kind = "load")
    BY AnswerTypes
  <2>2. outbox' = Append(outbox, r) /\ suspended' = suspended
    BY <1>7 DEF Answers
  <2> HIDE DEF r
  <2>3. m.kind = "load" => "analysis" \in modules
    BY <1>4, <1>7 DEF Answers
  <2>4. m.kind # "load" => packets' = packets
    BY <1>7 DEF Answers
  <2> QED
    BY <1>5, <2>1, <2>2, <2>3, <2>4
<1>8. CASE Waits(m)
  <2> DEFINE t == [id |-> m.id, kind |-> m.kind, arg |-> m.arg, need |-> Awaits(m.kind)]
  <2>1. t.kind = "load" => t.need = "analysis"
    BY <1>4, <1>8 DEF Waits
  <2>2. suspended' = Append(suspended, t) /\ outbox' = outbox
    BY <1>8 DEF Waits
  <2> HIDE DEF t
  <2>3. \A i \in DOMAIN suspended' : suspended'[i].kind = "load" => suspended'[i].need = "analysis"
    BY <2>1, <2>2, AppendElements DEF ViewInv, TypeOK
  <2>4. \A i \in DOMAIN outbox : Loaded(i)' <=> Loaded(i)
    BY <2>2 DEF Loaded
  <2>5. CASE m.kind = "load"
    <3>1. "analysis" \notin modules
      BY <1>4, <1>8, <2>5 DEF Waits
    <3> QED
      BY <1>3, <2>2, <2>3, <2>4, <3>1 DEF ViewInv
  <2>6. CASE m.kind # "load"
    <3>1. packets' = packets
      BY <1>8, <2>6 DEF Waits
    <3> QED
      BY <1>3, <2>2, <2>3, <2>4, <3>1 DEF ViewInv
  <2> QED
    BY <2>5, <2>6
<1> QED
  BY <1>1, <1>6, <1>7, <1>8

LEMMA ViewResume == ASSUME TypeOK, ViewInv, WorkerResume PROVE ViewInv'
<1>1. PICK i \in DOMAIN suspended :
          /\ WaitsAgain(suspended[i], Others(i)) \/ Finishes(suspended[i], Others(i))
          /\ modules' = modules \cup ({suspended[i].need} \cap {"analysis", "filter"})
          /\ UNCHANGED <<page, inbox, packets, loads>>
  BY ResumeSteps
<1> DEFINE t == suspended[i]
           rest == Others(i)
<1>2. view' = view /\ packets' = packets /\ modules \subseteq modules'
      /\ (t.need = "analysis" => "analysis" \in modules')
      /\ (t.need # "analysis" => ("analysis" \in modules' <=> "analysis" \in modules))
  BY <1>1 DEF page
<1>3. suspended \in Seq(Task)
  BY DEF TypeOK
<1>4. rest \in Seq(Task) /\ t \in Task
  BY <1>3, Removed DEF Others
<1>5. \A k \in DOMAIN rest : \E j \in DOMAIN suspended : rest[k] = suspended[j]
  BY <1>3, TakenElements DEF Others
<1>6. /\ t.kind = "load" => t.need = "analysis"
      /\ WaitsAgain(t, rest) \/ Finishes(t, rest)
  BY <1>1 DEF ViewInv
<1> HIDE DEF t, rest
<1>7. \A k \in DOMAIN rest : rest[k].kind = "load" => rest[k].need = "analysis"
  BY <1>5 DEF ViewInv
<1>8. CASE WaitsAgain(t, rest)
  <2> DEFINE again == [t EXCEPT !.need = "reader"]
  <2>1. again.kind = "export"
    BY <1>4, <1>8 DEF Task, WaitsAgain
  <2>2. suspended' = Append(rest, again) /\ outbox' = outbox /\ t.need = "filter"
    BY <1>8 DEF WaitsAgain
  <2> HIDE DEF again
  <2>3. \A k \in DOMAIN suspended' : suspended'[k] = again \/ \E j \in DOMAIN rest : suspended'[k] = rest[j]
    BY <1>4, <2>2, AppendElements
  <2>4. \A k \in DOMAIN suspended' : suspended'[k].kind = "load" => suspended'[k].need = "analysis"
    BY <1>7, <2>1, <2>3
  <2>5. \A k \in DOMAIN outbox : Loaded(k)' <=> Loaded(k)
    BY <2>2 DEF Loaded
  <2> QED
    BY <1>2, <2>2, <2>4, <2>5 DEF ViewInv
<1>9. CASE Finishes(t, rest)
  <2> DEFINE r == Answer(t, packets)
  <2>1. r.cap = packets /\ (r.type = "loaded" <=> t.kind = "load")
    BY AnswerTypes
  <2>2. suspended' = rest /\ outbox' = Append(outbox, r)
    BY <1>9 DEF Finishes
  <2> HIDE DEF r
  <2>3. CASE "analysis" \in modules'
    BY <1>2, <1>7, <2>1, <2>2, <2>3, ViewGrows DEF ViewInv
  <2>4. CASE "analysis" \notin modules'
    <3>1. "analysis" \notin modules /\ r.type # "loaded"
      BY <1>2, <1>6, <2>1, <2>4
    <3> QED
      BY <1>2, <1>7, <2>2, <2>4, <3>1, NoneLoaded DEF ViewInv
  <2> QED
    BY <2>3, <2>4
<1> QED
  BY <1>6, <1>8, <1>9

\* What the delivery of a reply does to the rows and to the filter.
LEMMA DeliverSteps ==
    ASSUME TypeOK, IdsInv, MatchInv, Deliver
    PROVE  LET r == Head(outbox)
           IN  \/ /\ r.type = "loaded"
                  /\ view' = [load |-> r.id, cap |-> r.cap] /\ filtered' = None
               \/ /\ r.type # "loaded" /\ view' = view
                  /\ filtered' = filtered \/ (r.type = "answer" /\ filtered'.cap = r.cap)
<1> DEFINE r == Head(outbox)
<1>1. PICK p \in pending : p.id = r.id /\ CallOf(r) = {p}
  BY IdsDeliver
<1>2. RepliesTo(r, p)
  <2>1. r = outbox[1] /\ 1 \in DOMAIN outbox
    BY Shifted DEF TypeOK, Deliver
  <2> QED
    BY <2>1 DEF MatchInv
<1>3. \/ p.kind \in {"validate", "export"} /\ UNCHANGED <<view, filtered>>
      \/ p.kind = "load" /\ LoadEnds(r)
      \/ p.kind = "detail" /\ UNCHANGED <<view, filtered>>
      \/ p.kind = "filter" /\ FilterEnds(p, r) /\ UNCHANGED view
      \/ p.kind = "stream" /\ UNCHANGED <<view, filtered>>
  BY <1>1 DEF Deliver
<1> HIDE DEF r
<1>4. CASE p.kind = "load"
  BY <1>1, <1>2, <1>3, <1>4 DEF RepliesTo, LoadEnds, r
<1>5. CASE p.kind = "filter"
  BY <1>1, <1>2, <1>3, <1>5 DEF RepliesTo, FilterEnds, r
<1>6. CASE p.kind \notin {"load", "filter"}
  BY <1>1, <1>2, <1>3, <1>6 DEF RepliesTo, r
<1> QED
  BY <1>4, <1>5, <1>6

\* Taking the reply at the head of the outbox, element by element.
LEMMA OutboxShifts ==
    ASSUME TypeOK, Deliver
    PROVE  /\ 1 \in DOMAIN outbox /\ Head(outbox) = outbox[1]
           /\ \A k \in DOMAIN outbox : k \in Nat /\ k >= 1
           /\ \A k \in DOMAIN outbox' : k \in Nat /\ k >= 1 /\ k + 1 \in DOMAIN outbox
                                        /\ outbox'[k] = outbox[k + 1]
           /\ \A k \in DOMAIN outbox : k > 1 => k - 1 \in DOMAIN outbox'
                                                /\ outbox'[k - 1] = outbox[k]
<1>1. outbox \in Seq(Reply) /\ outbox # <<>> /\ outbox' = Tail(outbox)
  BY DEF TypeOK, Deliver
<1>2. /\ Len(outbox) \in Nat \ {0} /\ DOMAIN outbox = 1..Len(outbox)
      /\ Head(outbox) = outbox[1] /\ 1 \in DOMAIN outbox
      /\ DOMAIN outbox' = 1..(Len(outbox) - 1)
      /\ \A k \in 1..(Len(outbox) - 1) : outbox'[k] = outbox[k + 1]
  BY <1>1, Shifted
<1> QED
  BY <1>2

LEMMA ViewDeliver == ASSUME TypeOK, IdsInv, MatchInv, ViewInv, Deliver PROVE ViewInv'
<1> DEFINE r == Head(outbox)
<1>1. /\ 1 \in DOMAIN outbox /\ r = outbox[1]
      /\ \A k \in DOMAIN outbox : k \in Nat /\ k >= 1
      /\ \A k \in DOMAIN outbox' : k \in Nat /\ k >= 1 /\ k + 1 \in DOMAIN outbox
                                   /\ outbox'[k] = outbox[k + 1]
      /\ \A k \in DOMAIN outbox : k > 1 => k - 1 \in DOMAIN outbox' /\ outbox'[k - 1] = outbox[k]
  BY OutboxShifts
<1>2. UNCHANGED <<suspended, modules, packets>>
  BY DEF Deliver
<1>3. \/ r.type = "loaded" /\ view' = [load |-> r.id, cap |-> r.cap]
      \/ r.type # "loaded" /\ view' = view
  BY DeliverSteps
<1> HIDE DEF r
<1>4. /\ \A k \in DOMAIN outbox' : Loaded(k)' <=> Loaded(k + 1)
      /\ Loaded(1) <=> r.type = "loaded"
  BY <1>1 DEF Loaded
<1>5. ASSUME NEW i \in DOMAIN outbox', \A k \in DOMAIN outbox' : k > i => ~Loaded(k)'
      PROVE  \A j \in DOMAIN outbox : j > i + 1 => ~Loaded(j)
  <2> SUFFICES ASSUME NEW j \in DOMAIN outbox, j > i + 1 PROVE ~Loaded(j)
    OBVIOUS
  <2>1. j - 1 \in DOMAIN outbox' /\ j - 1 > i /\ (j - 1) + 1 = j
    BY <1>1
  <2> QED
    BY <1>4, <1>5, <2>1
<1>6. "analysis" \notin modules' => view' = None /\ \A i \in DOMAIN outbox' : ~Loaded(i)'
  <2> SUFFICES ASSUME "analysis" \notin modules'
               PROVE  view' = None /\ \A i \in DOMAIN outbox' : ~Loaded(i)'
    OBVIOUS
  <2>1. view = None /\ \A j \in DOMAIN outbox : ~Loaded(j)
    BY <1>2 DEF ViewInv
  <2> QED
    BY <1>1, <1>3, <1>4, <2>1
<1>7. ASSUME NEW i \in DOMAIN outbox', Loaded(i)', \A j \in DOMAIN outbox' : j > i => ~Loaded(j)'
      PROVE  outbox'[i].cap = packets'
  <2>1. i + 1 \in DOMAIN outbox /\ Loaded(i + 1) /\ \A j \in DOMAIN outbox : j > i + 1 => ~Loaded(j)
    BY <1>1, <1>4, <1>5, <1>7
  <2> QED
    BY <1>1, <1>2, <2>1 DEF ViewInv
<1>8. ASSUME view' # None, \A j \in DOMAIN outbox' : ~Loaded(j)' PROVE view'.cap = packets'
  <2>1. \A j \in DOMAIN outbox : j > 1 => ~Loaded(j)
    <3> SUFFICES ASSUME NEW j \in DOMAIN outbox, j > 1 PROVE ~Loaded(j)
      OBVIOUS
    <3>1. j - 1 \in DOMAIN outbox' /\ (j - 1) + 1 = j
      BY <1>1
    <3> QED
      BY <1>4, <1>8, <3>1
  <2>2. CASE r.type = "loaded"
    BY <1>1, <1>2, <1>3, <1>4, <2>1, <2>2 DEF ViewInv
  <2>3. CASE r.type # "loaded"
    <3>1. \A j \in DOMAIN outbox : j > 1 \/ j = 1
      BY <1>1
    <3>2. \A j \in DOMAIN outbox : ~Loaded(j)
      BY <1>4, <2>1, <2>3, <3>1
    <3> QED
      BY <1>2, <1>3, <1>8, <2>3, <3>2 DEF ViewInv
  <2> QED
    BY <2>2, <2>3
<1>9. \A i \in DOMAIN suspended' : suspended'[i].kind = "load" => suspended'[i].need = "analysis"
  BY <1>2 DEF ViewInv
<1> QED
  BY <1>6, <1>7, <1>8, <1>9 DEF ViewInv

LEMMA ViewStep == TypeOK /\ IdsInv /\ MatchInv /\ ViewInv /\ [Next]_vars => ViewInv'
<1> SUFFICES ASSUME TypeOK, IdsInv, MatchInv, ViewInv, [Next]_vars PROVE ViewInv'
  OBVIOUS
<1>1. ASSUME UNCHANGED <<outbox, suspended, packets, modules>>, view' = view \/ view' = None
      PROVE  ViewInv'
  <2>1. \A i \in DOMAIN outbox : Loaded(i)' <=> Loaded(i)
    BY <1>1 DEF Loaded
  <2> QED
    BY <1>1, <2>1 DEF ViewInv
<1>2. Quiet => ViewInv'
  BY <1>1 DEF Quiet
<1>3. CASE GoHome
  <2>1. view' = None /\ suspended' = <<>> /\ outbox' = <<>>
    BY <1>3 DEF GoHome, ResetView
  <2>2. DOMAIN suspended' = {} /\ DOMAIN outbox' = {}
    BY <2>1, EmptyQueue
  <2> QED
    BY <2>1, <2>2 DEF ViewInv
<1>4. ASSUME NEW kind, NEW arg, Calls(kind, arg) PROVE ViewInv'
  BY <1>1, <1>4 DEF Calls
<1>5. ASSUME NEW r \in reading, ReadDone(r) PROVE ViewInv'
  BY <1>1, <1>5 DEF ReadDone, ResetView
<1>6. WorkerTakes \/ WorkerResume \/ Deliver => ViewInv'
  BY ViewTake, ViewResume, ViewDeliver
<1> QED
  BY <1>2, <1>3, <1>4, <1>5, <1>6, PageSteps DEF Next

LEMMA ViewAlways == Spec => []ViewInv
<1>1. Init => ViewInv
  <2> SUFFICES ASSUME Init PROVE ViewInv
    OBVIOUS
  <2>1. view = None /\ suspended = <<>> /\ outbox = <<>>
    BY DEF Init
  <2>2. DOMAIN suspended = {} /\ DOMAIN outbox = {}
    BY <2>1, EmptyQueue
  <2> QED
    BY <2>1, <2>2 DEF ViewInv
<1> QED
  BY <1>1, TypeCorrect, IdsAlways, MatchAlways, ViewStep, PTL DEF Spec

\* Once no load is outstanding, the rows on screen are those of the capture the worker
\* answers from, whatever overtook what (app.js:36-52, worker.js:43-78).
THEOREM ScreenIsTheWorkers == Spec => []ViewMatchesWorker
<1>1. IdsInv /\ MatchInv /\ ViewInv => ViewMatchesWorker
  <2> SUFFICES ASSUME IdsInv, MatchInv, ViewInv, view # None, ~LoadPending
               PROVE  view.cap = packets
    BY DEF ViewMatchesWorker
  <2>1. ASSUME NEW j \in DOMAIN outbox PROVE ~Loaded(j)
    <3>1. outbox[j].id \in {p.id : p \in pending}
      BY <2>1 DEF IdsInv, InFlight, SeqIds
    <3>2. PICK p \in pending : p.id = outbox[j].id
      BY <3>1
    <3> QED
      BY <2>1, <3>2 DEF MatchInv, RepliesTo, LoadPending, Loaded
  <2> QED
    BY <2>1 DEF ViewInv
<1> QED
  BY <1>1, IdsAlways, MatchAlways, ViewAlways, PTL

\* An answer computed now is of the last capture on its way to the page.
LEMMA FilterGrows ==
    ASSUME TypeOK, ViewInv, FilterInv, UNCHANGED <<view, filtered>>,
           NEW r, outbox' = Append(outbox, r), r.type = "answer" => r.cap = packets
    PROVE  FilterInv'
<1>0. PICK n \in Nat : n = Len(outbox) + 1
  BY DEF TypeOK
<1>1. /\ Len(outbox) \in Nat /\ DOMAIN outbox = 1..Len(outbox) /\ DOMAIN outbox' = 1..n
      /\ \A k \in 1..Len(outbox) : outbox'[k] = outbox[k]
      /\ outbox'[n] = r
  BY <1>0, Grown DEF TypeOK
<1>2. \A k \in DOMAIN outbox : k \in DOMAIN outbox' /\ outbox'[k] = outbox[k] /\ k < n
                               /\ (Loaded(k)' <=> Loaded(k))
  BY <1>0, <1>1 DEF Loaded
<1>3. \A k \in DOMAIN outbox' : k \in Nat /\ (k < n => k \in DOMAIN outbox) /\ (k = n \/ k < n)
  BY <1>0, <1>1
<1>4. ASSUME NEW i \in DOMAIN outbox', NEW j \in DOMAIN outbox',
             outbox'[i].type = "answer", j < i, Loaded(j)',
             \A k \in DOMAIN outbox' : j < k /\ k < i => ~Loaded(k)'
      PROVE  outbox'[i].cap = outbox'[j].cap
  <2>1. j \in DOMAIN outbox /\ Loaded(j) /\ outbox'[j] = outbox[j]
    BY <1>0, <1>2, <1>3, <1>4
  <2>2. \A k \in DOMAIN outbox : j < k /\ k < i => ~Loaded(k)
    BY <1>2, <1>4
  <2>3. CASE i = n
    <3>1. \A k \in DOMAIN outbox : k > j => ~Loaded(k)
      BY <1>2, <1>3, <2>2, <2>3
    <3> QED
      BY <1>1, <1>4, <2>1, <2>3, <3>1 DEF ViewInv
  <2>4. CASE i < n
    BY <1>2, <1>3, <1>4, <2>1, <2>2, <2>4 DEF FilterInv
  <2> QED
    BY <1>3, <2>3, <2>4
<1>5. ASSUME NEW i \in DOMAIN outbox', outbox'[i].type = "answer", view' # None,
             \A k \in DOMAIN outbox' : k < i => ~Loaded(k)'
      PROVE  outbox'[i].cap = view'.cap
  <2>1. \A k \in DOMAIN outbox : k < i => ~Loaded(k)
    BY <1>2, <1>5
  <2>2. CASE i = n
    BY <1>1, <1>2, <1>5, <2>1, <2>2 DEF ViewInv
  <2>3. CASE i < n
    BY <1>2, <1>3, <1>5, <2>1, <2>3 DEF FilterInv
  <2> QED
    BY <1>3, <2>2, <2>3
<1>6. FilterOfShownCapture'
  BY DEF FilterInv, FilterOfShownCapture
<1> QED
  BY <1>4, <1>5, <1>6 DEF FilterInv

\* Nothing is delivered and nothing is posted; the view or the filter may go.
LEMMA FilterKept ==
    ASSUME FilterInv, outbox' = outbox, view' \in {view, None}, filtered' \in {filtered, None}
    PROVE  FilterInv'
<1>1. \A i \in DOMAIN outbox : Loaded(i)' <=> Loaded(i)
  BY DEF Loaded
<1>2. FilterOfShownCapture'
  BY DEF FilterInv, FilterOfShownCapture
<1> QED
  BY <1>1, <1>2 DEF FilterInv

LEMMA FilterTake == ASSUME TypeOK, ViewInv, FilterInv, WorkerTakes PROVE FilterInv'
<1> DEFINE m == Head(inbox)
<1>1. /\ Refuses(m) \/ Answers(m) \/ Waits(m)
      /\ UNCHANGED <<view, filtered>>
  BY TakeSteps DEF page
<1> HIDE DEF m
<1>2. CASE Refuses(m)
  <2> DEFINE r == [id |-> m.id, arg |-> m.arg, cap |-> None, type |-> "error"]
  <2>1. r.type # "answer" /\ outbox' = Append(outbox, r)
    BY <1>2 DEF Refuses
  <2> HIDE DEF r
  <2> QED
    BY <1>1, <2>1, FilterGrows
<1>3. CASE Answers(m)
  <2> DEFINE r == Answer(m, packets')
  <2>1. r.type = "answer" => r.cap = packets
    BY <1>3, AnswerTypes DEF Answers
  <2>2. outbox' = Append(outbox, r)
    BY <1>3 DEF Answers
  <2> HIDE DEF r
  <2> QED
    BY <1>1, <2>1, <2>2, FilterGrows
<1>4. CASE Waits(m)
  BY <1>1, <1>4, FilterKept DEF Waits
<1> QED
  BY <1>1, <1>2, <1>3, <1>4

LEMMA FilterResume == ASSUME TypeOK, ViewInv, FilterInv, WorkerResume PROVE FilterInv'
<1>1. PICK i \in DOMAIN suspended :
          /\ WaitsAgain(suspended[i], Others(i)) \/ Finishes(suspended[i], Others(i))
          /\ UNCHANGED <<page, inbox, packets, loads>>
  BY ResumeSteps
<1> DEFINE r == Answer(suspended[i], packets)
<1>2. UNCHANGED <<view, filtered>> /\ (outbox' = outbox \/ outbox' = Append(outbox, r))
  BY <1>1 DEF page, WaitsAgain, Finishes
<1>3. r.cap = packets
  BY AnswerTypes
<1> HIDE DEF r
<1> QED
  BY <1>2, <1>3, FilterGrows, FilterKept

LEMMA FilterDeliver == ASSUME TypeOK, IdsInv, MatchInv, FilterInv, Deliver PROVE FilterInv'
<1> DEFINE r == Head(outbox)
<1>1. /\ 1 \in DOMAIN outbox /\ r = outbox[1]
      /\ \A k \in DOMAIN outbox : k \in Nat /\ k >= 1
      /\ \A k \in DOMAIN outbox' : k \in Nat /\ k >= 1 /\ k + 1 \in DOMAIN outbox
                                   /\ outbox'[k] = outbox[k + 1]
      /\ \A k \in DOMAIN outbox : k > 1 => k - 1 \in DOMAIN outbox' /\ outbox'[k - 1] = outbox[k]
  BY OutboxShifts
<1>2. \/ r.type = "loaded" /\ view' = [load |-> r.id, cap |-> r.cap] /\ filtered' = None
      \/ /\ r.type # "loaded" /\ view' = view
         /\ filtered' = filtered \/ (r.type = "answer" /\ filtered'.cap = r.cap)
  BY DeliverSteps
<1> HIDE DEF r
<1>3. /\ \A k \in DOMAIN outbox' : Loaded(k)' <=> Loaded(k + 1)
      /\ Loaded(1) <=> r.type = "loaded"
  BY <1>1 DEF Loaded
<1>4. ASSUME NEW i \in DOMAIN outbox', NEW j \in DOMAIN outbox',
             outbox'[i].type = "answer", j < i, Loaded(j)',
             \A k \in DOMAIN outbox' : j < k /\ k < i => ~Loaded(k)'
      PROVE  outbox'[i].cap = outbox'[j].cap
  <2>1. \A k \in DOMAIN outbox : j + 1 < k /\ k < i + 1 => ~Loaded(k)
    <3> SUFFICES ASSUME NEW k \in DOMAIN outbox, j + 1 < k, k < i + 1 PROVE ~Loaded(k)
      OBVIOUS
    <3>1. k - 1 \in DOMAIN outbox' /\ j < k - 1 /\ k - 1 < i /\ (k - 1) + 1 = k
      BY <1>1
    <3> QED
      BY <1>3, <1>4, <3>1
  <2>2. /\ i + 1 \in DOMAIN outbox /\ j + 1 \in DOMAIN outbox /\ j + 1 < i + 1
        /\ outbox[i + 1].type = "answer" /\ Loaded(j + 1)
    BY <1>1, <1>3, <1>4
  <2>3. outbox[i + 1].cap = outbox[j + 1].cap
    BY <2>1, <2>2 DEF FilterInv
  <2> QED
    BY <1>1, <2>3
<1>5. ASSUME NEW i \in DOMAIN outbox', outbox'[i].type = "answer", view' # None,
             \A k \in DOMAIN outbox' : k < i => ~Loaded(k)'
      PROVE  outbox'[i].cap = view'.cap
  <2>1. \A k \in DOMAIN outbox : 1 < k /\ k < i + 1 => ~Loaded(k)
    <3> SUFFICES ASSUME NEW k \in DOMAIN outbox, 1 < k, k < i + 1 PROVE ~Loaded(k)
      OBVIOUS
    <3>1. k - 1 \in DOMAIN outbox' /\ k - 1 < i /\ (k - 1) + 1 = k
      BY <1>1
    <3> QED
      BY <1>3, <1>5, <3>1
  <2>2. i + 1 \in DOMAIN outbox /\ 1 < i + 1 /\ outbox[i + 1].type = "answer"
        /\ outbox'[i] = outbox[i + 1]
    BY <1>1, <1>5
  <2>3. CASE r.type = "loaded"
    <3>1. outbox[i + 1].cap = outbox[1].cap
      BY <1>1, <1>3, <2>1, <2>2, <2>3 DEF FilterInv
    <3> QED
      BY <1>1, <1>2, <2>2, <2>3, <3>1
  <2>4. CASE r.type # "loaded"
    <3>1. \A k \in DOMAIN outbox : k = 1 \/ 1 < k
      BY <1>1
    <3>2. \A k \in DOMAIN outbox : k < i + 1 => ~Loaded(k)
      BY <1>3, <2>1, <2>4, <3>1
    <3>3. view # None /\ view' = view
      BY <1>2, <1>5, <2>4
    <3>4. outbox[i + 1].cap = view.cap
      BY <2>2, <3>2, <3>3 DEF FilterInv
    <3> QED
      BY <2>2, <3>3, <3>4
  <2> QED
    BY <2>3, <2>4
<1>6. FilterOfShownCapture'
  <2> SUFFICES ASSUME view' # None, filtered' # None PROVE filtered'.cap = view'.cap
    BY DEF FilterOfShownCapture
  <2>1. r.type # "loaded" /\ view' = view
    BY <1>2
  <2>2. CASE filtered' = filtered
    BY <2>1, <2>2 DEF FilterInv, FilterOfShownCapture
  <2>3. CASE r.type = "answer" /\ filtered'.cap = r.cap
    <3>1. \A k \in DOMAIN outbox : ~(k < 1)
      BY <1>1
    <3> QED
      BY <1>1, <2>1, <2>3, <3>1 DEF FilterInv
  <2> QED
    BY <1>2, <2>2, <2>3
<1> QED
  BY <1>4, <1>5, <1>6 DEF FilterInv

LEMMA FilterStep == TypeOK /\ IdsInv /\ MatchInv /\ ViewInv /\ FilterInv /\ [Next]_vars => FilterInv'
<1> SUFFICES ASSUME TypeOK, IdsInv, MatchInv, ViewInv, FilterInv, [Next]_vars PROVE FilterInv'
  OBVIOUS
<1>1. Quiet => FilterInv'
  BY FilterKept DEF Quiet
<1>2. CASE GoHome
  <2>1. view' = None /\ outbox' = <<>>
    BY <1>2 DEF GoHome, ResetView
  <2>2. DOMAIN outbox' = {}
    BY <2>1, EmptyQueue
  <2> QED
    BY <2>1, <2>2 DEF FilterInv, FilterOfShownCapture
<1>3. ASSUME NEW kind, NEW arg, Calls(kind, arg) PROVE FilterInv'
  BY <1>3, FilterKept DEF Calls
<1>4. ASSUME NEW r \in reading, ReadDone(r) PROVE FilterInv'
  BY <1>4, FilterKept DEF ReadDone, ResetView
<1>5. WorkerTakes \/ WorkerResume \/ Deliver => FilterInv'
  BY FilterTake, FilterResume, FilterDeliver
<1> QED
  BY <1>1, <1>2, <1>3, <1>4, <1>5, PageSteps DEF Next

\* A filter on screen selects from the capture whose rows it is applied to, even when
\* its evaluation waited for an import() (app.js:245-257, worker.js:72-78).
THEOREM FilterIsOfTheShownCapture == Spec => []FilterOfShownCapture
<1>1. Init => FilterInv
  <2> SUFFICES ASSUME Init PROVE FilterInv
    OBVIOUS
  <2>1. view = None /\ outbox = <<>>
    BY DEF Init
  <2>2. DOMAIN outbox = {}
    BY <2>1, EmptyQueue
  <2> QED
    BY <2>1, <2>2 DEF FilterInv, FilterOfShownCapture
<1>2. FilterInv => FilterOfShownCapture
  BY DEF FilterInv
<1> QED
  BY <1>1, <1>2, TypeCorrect, IdsAlways, MatchAlways, ViewAlways, FilterStep, PTL DEF Spec

-----------------------------------------------------------------------------
(* One capture for each worker *)

\* The end of a load marks at most one record, and forgets none.
LEMMA MarkedLoads ==
    ASSUME TypeOK, NEW r, LoadEnds(r)
    PROVE  /\ Opened' = Opened /\ (IsFiniteSet(loads) => IsFiniteSet(loads'))
           /\ \A l \in loads' : \E k \in loads : /\ l.id = k.id /\ l.cap = k.cap
                                                 /\ k.failed => l.failed
                                                 /\ r.type = "error" /\ k.id = r.id => l.failed
<1> DEFINE Mark(l) == IF l.id = r.id THEN [l EXCEPT !.failed = TRUE] ELSE l
<1>1. CASE r.type # "error"
  <2>1. loads' = loads
    BY <1>1 DEF LoadEnds
  <2> QED
    BY <1>1, <2>1 DEF Opened
<1>2. CASE r.type = "error"
  <2>1. loads' = {Mark(l) : l \in loads}
    BY <1>2 DEF LoadEnds
  <2>2. ASSUME NEW l \in loads
        PROVE  /\ Mark(l).id = l.id /\ Mark(l).cap = l.cap
               /\ l.failed => Mark(l).failed
               /\ l.id = r.id => Mark(l).failed
    <3>1. l \in [id : Nat, cap : Captures, gen : Nat, failed : BOOLEAN]
      BY DEF TypeOK
    <3> QED
      BY <3>1
  <2> HIDE DEF Mark
  <2>3. Opened' = Opened
    BY <2>1, <2>2 DEF Opened
  <2>4. ASSUME IsFiniteSet(loads) PROVE IsFiniteSet(loads')
    <3> DEFINE f == [l \in loads |-> Mark(l)]
    <3>1. f \in Surjection(loads, {Mark(l) : l \in loads})
      BY DEF Surjection
    <3> HIDE DEF f
    <3>2. IsFiniteSet({Mark(l) : l \in loads})
      BY <2>4, <3>1, FS_Surjection
    <3> QED
      BY <2>1, <3>2
  <2> QED
    BY <2>1, <2>2, <2>3, <2>4
<1> QED
  BY <1>1, <1>2

\* What the delivery of a reply leaves in the cache and in the pane.
LEMMA DeliverDetails ==
    ASSUME TypeOK, Deliver
    PROVE  LET r == Head(outbox)
           IN  /\ Opened' = Opened /\ (IsFiniteSet(loads) => IsFiniteSet(loads'))
               /\ \/ UNCHANGED <<cache, shown>>
                  \/ \E n, d : /\ d.cap \in {r.cap, None} /\ shown' = d
                               /\ cache' = [cache EXCEPT ![n] = d]
<1> DEFINE r == Head(outbox)
<1>1. \/ UNCHANGED <<cache, shown, loads>>
      \/ LoadEnds(r) /\ UNCHANGED <<cache, shown>>
      \/ \E p \in pending : DetailEnds(p, r) /\ UNCHANGED loads
  BY DEF Deliver, CallOf
<1>2. loads' = loads => Opened' = Opened
  BY DEF Opened
<1> HIDE DEF r
<1>3. CASE LoadEnds(r) /\ UNCHANGED <<cache, shown>>
  BY <1>3, MarkedLoads DEF r
<1>4. ASSUME NEW p \in pending, DetailEnds(p, r), UNCHANGED loads
      PROVE  \E n, d : /\ d.cap \in {r.cap, None} /\ shown' = d
                       /\ cache' = [cache EXCEPT ![n] = d]
  <2> DEFINE d == [cap |-> IF r.type = "error" THEN None ELSE r.cap, n |-> r.arg]
  <2>1. d.cap \in {r.cap, None} /\ shown' = d /\ cache' = [cache EXCEPT ![p.arg] = d]
    BY <1>4 DEF DetailEnds
  <2> HIDE DEF d
  <2> QED
    BY <2>1
<1> QED
  BY <1>1, <1>2, <1>3, <1>4 DEF r

LEMMA CapTake == ASSUME TypeOK, CapInv, WorkerTakes PROVE CapInv'
<1> DEFINE m == Head(inbox)
<1>1. /\ inbox # <<>> /\ inbox' = Tail(inbox)
      /\ Refuses(m) \/ Answers(m) \/ Waits(m)
      /\ UNCHANGED <<page, modules, loads>>
  BY TakeSteps
<1>2. UNCHANGED <<view, cache, shown>> /\ Opened' = Opened /\ None \notin Opened
  <2>1. UNCHANGED <<view, cache, shown>> /\ Opened' = Opened
    BY <1>1 DEF page, Opened
  <2>2. \A l \in loads : l.cap \in Captures
    BY DEF TypeOK
  <2> QED
    BY <2>1, <2>2, SessionAssumption DEF Opened
<1>3. \A i \in DOMAIN inbox' : \E j \in DOMAIN inbox : inbox'[i] = inbox[j]
  BY <1>1, TailElements DEF TypeOK
<1>4. m.kind = "load" => m.arg \in Opened
  <2>1. m = inbox[1] /\ 1 \in DOMAIN inbox
    BY <1>1, Shifted DEF TypeOK
  <2> QED
    BY <2>1 DEF CapInv
<1> HIDE DEF m
<1>5. /\ packets' \in Opened \cup {None}
      /\ packets # None => packets' # None
      /\ m.kind = "load" => packets' # None \/ Refuses(m)
  BY <1>1, <1>2, <1>4 DEF CapInv, Refuses, Answers, Waits
<1>6. \A i \in DOMAIN suspended' :
          \/ \E j \in DOMAIN suspended : suspended'[i] = suspended[j]
          \/ suspended'[i].kind = m.kind /\ Waits(m)
  <2>1. CASE Waits(m)
    <3> DEFINE t == [id |-> m.id, kind |-> m.kind, arg |-> m.arg, need |-> Awaits(m.kind)]
    <3>1. t.kind = m.kind /\ suspended' = Append(suspended, t)
      BY <2>1 DEF Waits
    <3> HIDE DEF t
    <3> QED
      BY <2>1, <3>1, AppendElements DEF TypeOK
  <2>2. CASE suspended' = suspended
    BY <2>2
  <2> QED
    BY <1>1, <2>1, <2>2 DEF Refuses, Answers
<1>7. Waits(m) /\ m.kind = "load" => packets' # None
  BY <1>2, <1>4 DEF Waits
<1>8. \A i \in DOMAIN suspended' : suspended'[i].kind = "load" => packets' # None
  BY <1>5, <1>6, <1>7 DEF CapInv
<1>9. \A i \in DOMAIN outbox' :
          \/ \E j \in DOMAIN outbox : outbox'[i] = outbox[j]
          \/ /\ outbox'[i].cap \in Opened \cup {None}
             /\ outbox'[i].type = "loaded" => outbox'[i].cap # None
  <2>1. ASSUME NEW r, r.cap \in Opened \cup {None}, r.type = "loaded" => r.cap # None,
               outbox' = Append(outbox, r)
        PROVE  \A i \in DOMAIN outbox' :
                   \/ \E j \in DOMAIN outbox : outbox'[i] = outbox[j]
                   \/ /\ outbox'[i].cap \in Opened \cup {None}
                      /\ outbox'[i].type = "loaded" => outbox'[i].cap # None
    BY <2>1, AppendElements DEF TypeOK
  <2>2. CASE Refuses(m)
    <3> DEFINE r == [id |-> m.id, arg |-> m.arg, cap |-> None, type |-> "error"]
    <3>1. r.cap = None /\ r.type # "loaded" /\ outbox' = Append(outbox, r)
      BY <2>2 DEF Refuses
    <3> HIDE DEF r
    <3> QED
      BY <2>1, <3>1
  <2>3. CASE Answers(m)
    <3> DEFINE r == Answer(m, packets')
    <3>1. r.cap = packets' /\ (r.type = "loaded" <=> m.kind = "load")
      BY AnswerTypes
    <3>2. outbox' = Append(outbox, r) /\ (m.kind = "load" => packets' = m.arg)
      BY <2>3 DEF Answers
    <3> HIDE DEF r
    <3> QED
      BY <1>2, <1>4, <1>5, <2>1, <3>1, <3>2
  <2>4. CASE outbox' = outbox
    BY <2>4
  <2> QED
    BY <1>1, <2>2, <2>3, <2>4 DEF Waits
<1>10. IsFiniteSet(loads')
  BY <1>1 DEF CapInv
<1> QED
  BY <1>2, <1>3, <1>5, <1>8, <1>9, <1>10 DEF CapInv, Loaded

LEMMA CapResume == ASSUME TypeOK, CapInv, WorkerResume PROVE CapInv'
<1>1. PICK i \in DOMAIN suspended :
          /\ WaitsAgain(suspended[i], Others(i)) \/ Finishes(suspended[i], Others(i))
          /\ UNCHANGED <<page, inbox, packets, loads>>
  BY ResumeSteps
<1> DEFINE t == suspended[i]
           rest == Others(i)
<1>2. UNCHANGED <<view, cache, shown, inbox, packets, loads>> /\ Opened' = Opened
  BY <1>1 DEF page, Opened
<1>3. suspended \in Seq(Task)
  BY DEF TypeOK
<1>4. rest \in Seq(Task) /\ t \in Task
  BY <1>3, Removed DEF Others
<1>5. \A k \in DOMAIN rest : \E j \in DOMAIN suspended : rest[k] = suspended[j]
  BY <1>3, TakenElements DEF Others
<1>6. /\ t.kind = "load" => packets # None
      /\ WaitsAgain(t, rest) \/ Finishes(t, rest)
  BY <1>1 DEF CapInv
<1> HIDE DEF t, rest
<1>7. \A k \in DOMAIN rest : rest[k].kind = "load" => packets # None
  BY <1>5 DEF CapInv
<1>8. CASE WaitsAgain(t, rest)
  <2> DEFINE again == [t EXCEPT !.need = "reader"]
  <2>1. again.kind = "export"
    BY <1>4, <1>8 DEF Task, WaitsAgain
  <2>2. suspended' = Append(rest, again) /\ outbox' = outbox
    BY <1>8 DEF WaitsAgain
  <2> HIDE DEF again
  <2>3. \A k \in DOMAIN suspended' : suspended'[k].kind = "load" => packets # None
    BY <1>4, <1>7, <2>1, <2>2, AppendElements
  <2> QED
    BY <1>2, <2>2, <2>3 DEF CapInv, Loaded
<1>9. CASE Finishes(t, rest)
  <2> DEFINE r == Answer(t, packets)
  <2>1. r.cap = packets /\ (r.type = "loaded" <=> t.kind = "load")
    BY AnswerTypes
  <2>2. suspended' = rest /\ outbox' = Append(outbox, r)
    BY <1>9 DEF Finishes
  <2> HIDE DEF r
  <2>3. r.cap \in Opened \cup {None} /\ (r.type = "loaded" => r.cap # None)
    BY <1>6, <2>1 DEF CapInv
  <2>4. \A k \in DOMAIN outbox' : outbox'[k] = r \/ \E j \in DOMAIN outbox : outbox'[k] = outbox[j]
    BY <2>2, AppendElements DEF TypeOK
  <2>5. \A k \in DOMAIN outbox' : /\ outbox'[k].cap \in Opened' \cup {None}
                                  /\ outbox'[k].type = "loaded" => outbox'[k].cap # None
    BY <1>2, <2>3, <2>4 DEF CapInv, Loaded
  <2> QED
    BY <1>2, <1>7, <2>2, <2>5 DEF CapInv, Loaded
<1> QED
  BY <1>6, <1>8, <1>9

LEMMA CapDeliver == ASSUME TypeOK, IdsInv, MatchInv, CapInv, Deliver PROVE CapInv'
<1> DEFINE r == Head(outbox)
<1>1. /\ 1 \in DOMAIN outbox /\ r = outbox[1]
      /\ \A k \in DOMAIN outbox' : k + 1 \in DOMAIN outbox /\ outbox'[k] = outbox[k + 1]
  BY OutboxShifts
<1>2. \/ r.type = "loaded" /\ view' = [load |-> r.id, cap |-> r.cap]
      \/ view' = view
  BY DeliverSteps
<1>3. /\ Opened' = Opened /\ (IsFiniteSet(loads) => IsFiniteSet(loads'))
      /\ \/ UNCHANGED <<cache, shown>>
         \/ \E n, d : /\ d.cap \in {r.cap, None} /\ shown' = d
                      /\ cache' = [cache EXCEPT ![n] = d]
  BY DeliverDetails
<1>4. UNCHANGED <<inbox, suspended, packets>>
  BY DEF Deliver
<1> HIDE DEF r
<1>5. r.cap \in Opened \cup {None} /\ (r.type = "loaded" => r.cap # None)
  BY <1>1 DEF CapInv, Loaded
<1>6. view' # None => view'.cap \in Opened'
  BY <1>2, <1>3, <1>5 DEF CapInv
<1>7. /\ \A n \in PacketNos : cache'[n] # None => cache'[n].cap \in Opened' \cup {None}
      /\ shown' # None => shown'.cap \in Opened' \cup {None}
  <2>1. CASE UNCHANGED <<cache, shown>>
    BY <1>3, <2>1 DEF CapInv
  <2>2. ASSUME NEW n, NEW d, d.cap \in {r.cap, None}, shown' = d,
               cache' = [cache EXCEPT ![n] = d]
        PROVE  /\ \A k \in PacketNos : cache'[k] # None => cache'[k].cap \in Opened' \cup {None}
               /\ shown' # None => shown'.cap \in Opened' \cup {None}
    <3>1. \A k \in PacketNos : cache'[k] = d \/ cache'[k] = cache[k]
      BY <2>2 DEF TypeOK
    <3> QED
      BY <1>3, <1>5, <2>2, <3>1 DEF CapInv
  <2> QED
    BY <1>3, <2>1, <2>2
<1>8. \A k \in DOMAIN outbox' : /\ outbox'[k].cap \in Opened' \cup {None}
                                /\ Loaded(k)' => outbox'[k].cap # None
  BY <1>1, <1>3 DEF CapInv, Loaded
<1> QED
  BY <1>3, <1>4, <1>6, <1>7, <1>8 DEF CapInv

LEMMA CapStep == TypeOK /\ IdsInv /\ MatchInv /\ CapInv /\ [Next]_vars => CapInv'
<1> SUFFICES ASSUME TypeOK, IdsInv, MatchInv, CapInv, [Next]_vars PROVE CapInv'
  OBVIOUS
<1>1. CASE Quiet
  <2>1. Opened' = Opened /\ \A i \in DOMAIN outbox : Loaded(i)' <=> Loaded(i)
    BY <1>1 DEF Quiet, Opened, Loaded
  <2> QED
    BY <1>1, <2>1 DEF Quiet, CapInv
<1>2. CASE GoHome
  <2>1. /\ view' = None /\ cache' = [n \in PacketNos |-> None] /\ shown' = None
        /\ inbox' = <<>> /\ suspended' = <<>> /\ outbox' = <<>> /\ packets' = None
        /\ loads' = {}
    BY <1>2 DEF GoHome, ResetView
  <2>2. DOMAIN inbox' = {} /\ DOMAIN suspended' = {} /\ DOMAIN outbox' = {}
    BY <2>1, EmptyQueue
  <2> QED
    BY <2>1, <2>2, FS_EmptySet DEF CapInv
<1>3. ASSUME NEW kind, NEW arg, Calls(kind, arg) PROVE CapInv'
  <2> DEFINE m == [id |-> reqId + 1, kind |-> kind, arg |-> arg]
  <2>1. m.kind # "load" /\ inbox' = Append(inbox, m)
    BY <1>3 DEF Calls, Post
  <2> HIDE DEF m
  <2>2. Opened' = Opened /\ \A i \in DOMAIN outbox : Loaded(i)' <=> Loaded(i)
    BY <1>3 DEF Calls, Opened, Loaded
  <2>3. \A i \in DOMAIN inbox' : inbox'[i].kind = "load" => inbox'[i].arg \in Opened
    BY <2>1, AppendElements DEF CapInv, TypeOK
  <2> QED
    BY <1>3, <2>2, <2>3 DEF Calls, CapInv
<1>4. ASSUME NEW r \in reading, ReadDone(r) PROVE CapInv'
  <2> DEFINE m == [id |-> reqId + 1, kind |-> "load", arg |-> r.cap]
             load == [id |-> reqId + 1, cap |-> r.cap, gen |-> r.gen, failed |-> FALSE]
  <2>1. /\ inbox' = Append(inbox, m) /\ m.arg = r.cap
        /\ loads' = loads \cup {load} /\ load.cap = r.cap
        /\ view' = None /\ cache' = [n \in PacketNos |-> None] /\ shown' = None
        /\ UNCHANGED <<outbox, suspended, packets>>
    BY <1>4 DEF ReadDone, Post, ResetView
  <2> HIDE DEF m, load
  <2>2. Opened' = Opened \cup {r.cap} /\ IsFiniteSet(loads')
    BY <2>1, FS_AddElement DEF Opened, CapInv
  <2>3. \A i \in DOMAIN inbox' : inbox'[i].kind = "load" => inbox'[i].arg \in Opened'
    BY <2>1, <2>2, AppendElements DEF CapInv, TypeOK
  <2>4. \A i \in DOMAIN outbox : Loaded(i)' <=> Loaded(i)
    BY <2>1 DEF Loaded
  <2> QED
    BY <2>1, <2>2, <2>3, <2>4 DEF CapInv
<1>5. WorkerTakes \/ WorkerResume \/ Deliver => CapInv'
  BY CapTake, CapResume, CapDeliver
<1> QED
  BY <1>1, <1>2, <1>3, <1>4, <1>5, PageSteps DEF Next

\* As long as captures are opened one per worker, as goHome arranges, the page never
\* shows or caches anything of another capture than the one on screen (app.js:54-90,
\* 158-165).
THEOREM OneCaptureIsSound == Spec => []OneCapturePerWorkerIsSound
<1>1. Init => CapInv
  <2> SUFFICES ASSUME Init PROVE CapInv
    OBVIOUS
  <2>1. /\ view = None /\ cache = [n \in PacketNos |-> None] /\ shown = None
        /\ inbox = <<>> /\ suspended = <<>> /\ outbox = <<>> /\ packets = None
        /\ loads = {}
    BY DEF Init
  <2>2. DOMAIN inbox = {} /\ DOMAIN suspended = {} /\ DOMAIN outbox = {}
    BY <2>1, EmptyQueue
  <2> QED
    BY <2>1, <2>2, FS_EmptySet DEF CapInv
<1>2. CapInv => OneCapturePerWorkerIsSound
  <2> SUFFICES ASSUME CapInv, view # None, Cardinality(loads) = 1
               PROVE  \A d \in {cache[n] : n \in PacketNos} \cup {shown} :
                          d # None => d.cap \in {view.cap, None}
    BY DEF OneCapturePerWorkerIsSound
  <2>1. PICK l : loads = {l}
    BY FS_Singleton DEF CapInv
  <2>2. Opened = {l.cap}
    BY <2>1 DEF Opened
  <2> QED
    BY <2>2 DEF CapInv
<1> QED
  BY <1>1, <1>2, TypeCorrect, IdsAlways, MatchAlways, CapStep, PTL DEF Spec

-----------------------------------------------------------------------------
(* The last load wins *)

\* What the order of the queues says of one load.
Settled(l) ==
    \/ l.failed
    \/ Calling(l)
    \/ /\ \A p \in pending : l.id < p.id
       /\ view # None => l.id <= view.load
LoadOrder(l) ==
    /\ l.id <= reqId
    /\ \A p \in pending : p.id = l.id => p.kind = "load"
    /\ \A i \in DOMAIN inbox : inbox[i].id = l.id => inbox[i].arg = l.cap
    /\ \A i \in DOMAIN outbox : (outbox[i].id = l.id /\ Loaded(i)) => outbox[i].cap = l.cap
    /\ (view # None /\ view.load = l.id) => view.cap = l.cap
    /\ Settled(l)
QueueOrder ==
    /\ modules = {"analysis", "filter"}
    /\ suspended = <<>>
    /\ Ordered(inbox) /\ Ordered(outbox)
    /\ \A i \in DOMAIN outbox, j \in DOMAIN inbox : outbox[i].id < inbox[j].id
    /\ view # None => view.load <= reqId

LEMMA OrderParts == OrderInv <=> (Bundled => QueueOrder /\ \A l \in loads : LoadOrder(l))
BY DEF OrderInv, QueueOrder, LoadOrder, Settled

\* A new call goes to the end of the inbox.
LEMMA OrderPosted ==
    ASSUME TypeOK, IdsInv, QueueOrder, NEW kind, NEW arg, Post(kind, arg),
           UNCHANGED <<outbox, suspended, modules>>, view' \in {view, None}
    PROVE  /\ QueueOrder'
           /\ \A l \in loads : LoadOrder(l) => LoadOrder(l)'
           /\ \A l : (kind = "load" /\ l.id = reqId + 1 /\ l.cap = arg) => LoadOrder(l)'
<1>0. PICK n \in Nat : n = reqId + 1
  BY DEF TypeOK
<1> DEFINE call == [id |-> n, kind |-> kind, arg |-> arg, seen |-> Applied]
           m == [id |-> n, kind |-> kind, arg |-> arg]
<1>1. /\ call.id = n /\ m.id = n /\ m.arg = arg /\ call.kind = kind
      /\ reqId' = n /\ pending' = pending \cup {call} /\ inbox' = Append(inbox, m)
  BY <1>0 DEF Post
<1>2. \A x : x <= reqId => x # n
  BY <1>0 DEF TypeOK
<1>3. \A x \in Nat : x <= reqId => x < n
  BY <1>0 DEF TypeOK
<1> HIDE DEF call, m
<1>4. /\ \A p \in pending : p.id # n
      /\ \A i \in DOMAIN inbox : inbox[i].id # n /\ inbox[i].id < n
      /\ \A i \in DOMAIN outbox : outbox[i].id # n /\ outbox[i].id < n
  <2>1. \A i \in DOMAIN inbox : inbox[i].id \in Nat
    BY DEF TypeOK, Request
  <2>2. \A i \in DOMAIN outbox : outbox[i].id \in Nat
    <3>1. \A i \in DOMAIN outbox : outbox[i] \in Reply
      BY DEF TypeOK
    <3> QED
      BY <3>1 DEF Reply
  <2>3. /\ \A i \in DOMAIN inbox : inbox[i].id <= reqId
        /\ \A i \in DOMAIN outbox : outbox[i].id <= reqId
    BY KnownIds
  <2>4. \A p \in pending : p.id # n
    BY <1>2 DEF IdsInv
  <2> QED
    BY <1>2, <1>3, <2>1, <2>2, <2>3, <2>4
<1>5. /\ Len(inbox) \in Nat /\ DOMAIN inbox = 1..Len(inbox)
      /\ DOMAIN inbox' = 1..(Len(inbox) + 1)
      /\ \A k \in 1..Len(inbox) : inbox'[k] = inbox[k]
      /\ inbox'[Len(inbox) + 1] = m
  BY <1>1, Grown DEF TypeOK
<1>6. \A k \in DOMAIN inbox' : \/ k \in DOMAIN inbox /\ inbox'[k] = inbox[k]
                               \/ k = Len(inbox) + 1 /\ inbox'[k] = m
  <2> TAKE k \in DOMAIN inbox'
  <2>1. k \in 1..Len(inbox) \/ k = Len(inbox) + 1
    BY <1>5
  <2> QED
    BY <1>5, <2>1
<1>7. Ordered(inbox')
  <2> SUFFICES ASSUME NEW i \in DOMAIN inbox', NEW j \in DOMAIN inbox', i < j
               PROVE  inbox'[i].id < inbox'[j].id
    BY DEF Ordered
  <2>1. i \in DOMAIN inbox /\ inbox'[i] = inbox[i]
    BY <1>5, <1>6
  <2> QED
    BY <1>1, <1>4, <1>6, <2>1 DEF QueueOrder, Ordered
<1>8. \A i \in DOMAIN outbox', j \in DOMAIN inbox' : outbox'[i].id < inbox'[j].id
  BY <1>1, <1>4, <1>6 DEF QueueOrder
<1>9. view' # None => view'.load <= reqId'
  <2> SUFFICES ASSUME view' # None PROVE view'.load <= reqId'
    OBVIOUS
  <2>1. view' = view /\ view.load \in Nat /\ view.load <= reqId
    BY DEF QueueOrder, TypeOK
  <2> QED
    BY <1>0, <1>1, <2>1 DEF TypeOK
<1>10. QueueOrder'
  BY <1>7, <1>8, <1>9 DEF QueueOrder
<1>11. ASSUME NEW l \in loads, LoadOrder(l) PROVE LoadOrder(l)'
  <2>1. l.id \in Nat /\ l.id <= reqId
    BY <1>11 DEF LoadOrder, TypeOK
  <2>2. l.id < n /\ l.id # n
    BY <1>3, <2>1
  <2>3. l.id <= reqId'
    BY <1>0, <1>1, <2>1, <2>2
  <2>4. \A p \in pending' : p.id = l.id => p.kind = "load"
    BY <1>1, <1>11, <2>2 DEF LoadOrder
  <2>5. \A i \in DOMAIN inbox' : inbox'[i].id = l.id => inbox'[i].arg = l.cap
    BY <1>1, <1>6, <1>11, <2>2 DEF LoadOrder
  <2>6. \A i \in DOMAIN outbox' : (outbox'[i].id = l.id /\ Loaded(i)') => outbox'[i].cap = l.cap
    BY <1>11 DEF LoadOrder, Loaded
  <2>7. (view' # None /\ view'.load = l.id) => view'.cap = l.cap
    BY <1>11 DEF LoadOrder
  <2>8. Settled(l)'
    <3>1. Calling(l) => Calling(l)'
      BY <1>1 DEF Calling
    <3>2. ASSUME \A p \in pending : l.id < p.id PROVE \A p \in pending' : l.id < p.id
      BY <1>1, <2>2, <3>2
    <3> QED
      BY <1>11, <3>1, <3>2 DEF LoadOrder, Settled
  <2> QED
    BY <2>3, <2>4, <2>5, <2>6, <2>7, <2>8 DEF LoadOrder
<1>12. ASSUME NEW l, kind = "load", l.id = reqId + 1, l.cap = arg PROVE LoadOrder(l)'
  <2>1. l.id = n
    BY <1>0, <1>12
  <2>2. \A p \in pending' : p.id = l.id => p.kind = "load"
    BY <1>1, <1>4, <1>12, <2>1
  <2>3. \A i \in DOMAIN inbox' : inbox'[i].id = l.id => inbox'[i].arg = l.cap
    BY <1>1, <1>4, <1>6, <1>12, <2>1
  <2>4. \A i \in DOMAIN outbox' : outbox'[i].id # l.id
    BY <1>4, <2>1
  <2>5. view' # None => view'.load # l.id
    <3> SUFFICES ASSUME view' # None PROVE view'.load # l.id
      OBVIOUS
    <3>1. view' = view /\ view.load <= reqId
      BY DEF QueueOrder
    <3> QED
      BY <1>2, <2>1, <3>1
  <2>6. Calling(l)'
    BY <1>1, <2>1 DEF Calling
  <2>7. l.id <= reqId'
    BY <1>1, <2>1
  <2> QED
    BY <2>2, <2>3, <2>4, <2>5, <2>6, <2>7 DEF LoadOrder, Settled
<1> QED
  BY <1>10, <1>11, <1>12

\* The bundled worker answers the request at the head of the inbox at once.
LEMMA OrderTake ==
    ASSUME TypeOK, IdsInv, MatchInv, Bundled, QueueOrder, WorkerTakes
    PROVE  QueueOrder' /\ \A l \in loads' : LoadOrder(l) => LoadOrder(l)'
<1> DEFINE m == Head(inbox)
<1>1. /\ inbox # <<>> /\ inbox' = Tail(inbox)
      /\ Refuses(m) \/ Answers(m) \/ Waits(m)
      /\ UNCHANGED <<page, modules, loads>>
  BY TakeSteps
<1>2. inbox \in Seq(Request) /\ outbox \in Seq(Reply)
  BY DEF TypeOK
<1>3. m \in Request
  BY <1>1, <1>2, Dequeued
<1>4. Awaits(m.kind) = ""
  <2> HIDE DEF m
  <2>1. m.kind \in Kinds
    BY <1>3 DEF Request
  <2> QED
    BY <2>1 DEF Awaits, QueueOrder, Kinds
<1>5. /\ Len(inbox) \in Nat \ {0} /\ DOMAIN inbox = 1..Len(inbox)
      /\ m = inbox[1] /\ 1 \in DOMAIN inbox
      /\ DOMAIN inbox' = 1..(Len(inbox) - 1)
      /\ \A k \in 1..(Len(inbox) - 1) : inbox'[k] = inbox[k + 1]
  BY <1>1, <1>2, Shifted
<1> HIDE DEF m
<1>6. PICK r : /\ r.id = m.id /\ outbox' = Append(outbox, r)
               /\ r.type = "loaded" => m.kind = "load" /\ r.cap = m.arg
  <2>1. CASE Refuses(m)
    <3> DEFINE r == [id |-> m.id, arg |-> m.arg, cap |-> None, type |-> "error"]
    <3>1. r.id = m.id /\ r.type # "loaded" /\ outbox' = Append(outbox, r)
      BY <2>1 DEF Refuses
    <3> HIDE DEF r
    <3> QED
      BY <3>1
  <2>2. CASE Answers(m)
    <3> DEFINE r == Answer(m, packets')
    <3>1. r.id = m.id /\ r.cap = packets' /\ (r.type = "loaded" <=> m.kind = "load")
      BY AnswerTypes DEF Answer
    <3>2. outbox' = Append(outbox, r) /\ (m.kind = "load" => packets' = m.arg)
      BY <2>2 DEF Answers
    <3> HIDE DEF r
    <3> QED
      BY <3>1, <3>2
  <2>3. ~Waits(m)
    BY <1>4 DEF Waits
  <2> QED
    BY <1>1, <2>1, <2>2, <2>3
<1>7. suspended' = suspended
  BY <1>1, <1>4 DEF Refuses, Answers, Waits
<1>8. UNCHANGED <<reqId, pending, view, modules, loads>>
  BY <1>1 DEF page
<1>9. \A k \in DOMAIN inbox' : /\ k \in Nat /\ k + 1 \in DOMAIN inbox
                               /\ inbox'[k] = inbox[k + 1] /\ m.id < inbox'[k].id
  <2>1. \A k \in DOMAIN inbox' : k \in Nat /\ 1 < k + 1 /\ k + 1 \in DOMAIN inbox
                                 /\ inbox'[k] = inbox[k + 1]
    BY <1>5
  <2> QED
    BY <1>5, <2>1 DEF QueueOrder, Ordered
<1>10. /\ Len(outbox) \in Nat /\ DOMAIN outbox = 1..Len(outbox)
       /\ DOMAIN outbox' = 1..(Len(outbox) + 1)
       /\ \A k \in 1..Len(outbox) : outbox'[k] = outbox[k]
       /\ outbox'[Len(outbox) + 1] = r
  BY <1>2, <1>6, Grown
<1>11. \A k \in DOMAIN outbox' : \/ k \in DOMAIN outbox /\ outbox'[k] = outbox[k]
                                 \/ k = Len(outbox) + 1 /\ outbox'[k] = r
  <2> TAKE k \in DOMAIN outbox'
  <2>1. k \in 1..Len(outbox) \/ k = Len(outbox) + 1
    BY <1>10
  <2> QED
    BY <1>10, <2>1
<1>12. Ordered(inbox')
  <2> SUFFICES ASSUME NEW i \in DOMAIN inbox', NEW j \in DOMAIN inbox', i < j
               PROVE  inbox'[i].id < inbox'[j].id
    BY DEF Ordered
  <2>1. i + 1 < j + 1
    BY <1>9
  <2> QED
    BY <1>9, <2>1 DEF QueueOrder, Ordered
<1>13. Ordered(outbox')
  <2> SUFFICES ASSUME NEW i \in DOMAIN outbox', NEW j \in DOMAIN outbox', i < j
               PROVE  outbox'[i].id < outbox'[j].id
    BY DEF Ordered
  <2>1. i \in DOMAIN outbox /\ outbox'[i] = outbox[i]
    BY <1>10, <1>11
  <2>2. outbox[i].id < m.id
    BY <1>5, <2>1 DEF QueueOrder
  <2> QED
    BY <1>6, <1>11, <2>1, <2>2 DEF QueueOrder, Ordered
<1>14. \A i \in DOMAIN outbox', j \in DOMAIN inbox' : outbox'[i].id < inbox'[j].id
  BY <1>6, <1>9, <1>11 DEF QueueOrder
<1>15. QueueOrder'
  BY <1>7, <1>8, <1>12, <1>13, <1>14 DEF QueueOrder
<1>16. ASSUME NEW l \in loads, LoadOrder(l) PROVE LoadOrder(l)'
  <2>1. \A i \in DOMAIN inbox' : inbox'[i].id = l.id => inbox'[i].arg = l.cap
    BY <1>9, <1>16 DEF LoadOrder
  <2>2. \A i \in DOMAIN outbox' : (outbox'[i].id = l.id /\ outbox'[i].type = "loaded")
                                      => outbox'[i].cap = l.cap
    BY <1>5, <1>6, <1>11, <1>16 DEF LoadOrder, Loaded
  <2>3. Settled(l)'
    BY <1>8, <1>16 DEF LoadOrder, Settled, Calling
  <2> QED
    BY <1>8, <1>16, <2>1, <2>2, <2>3 DEF LoadOrder, Loaded
<1> QED
  BY <1>8, <1>15, <1>16

\* The reply at the head of the outbox is that of the oldest call.
LEMMA OrderDeliver ==
    ASSUME TypeOK, IdsInv, MatchInv, QueueOrder, \A l \in loads : LoadOrder(l), Deliver
    PROVE  QueueOrder' /\ \A l \in loads' : LoadOrder(l)'
<1> DEFINE r == Head(outbox)
<1>1. /\ 1 \in DOMAIN outbox /\ r = outbox[1]
      /\ \A k \in DOMAIN outbox : k \in Nat /\ k >= 1
      /\ \A k \in DOMAIN outbox' : k \in Nat /\ k >= 1 /\ k + 1 \in DOMAIN outbox
                                   /\ outbox'[k] = outbox[k + 1]
      /\ \A k \in DOMAIN outbox : k > 1 => k - 1 \in DOMAIN outbox' /\ outbox'[k - 1] = outbox[k]
  BY OutboxShifts
<1>2. \/ r.type = "loaded" /\ view' = [load |-> r.id, cap |-> r.cap]
      \/ r.type # "loaded" /\ view' = view
  BY DeliverSteps
<1>3. PICK p \in pending : p.id = r.id /\ CallOf(r) = {p}
  BY IdsDeliver
<1>4. /\ UNCHANGED <<reqId, inbox, suspended, modules>> /\ pending' = pending \ CallOf(r)
      /\ p.kind = "load" => LoadEnds(r)
      /\ p.kind # "load" => UNCHANGED loads
  BY <1>3 DEF Deliver
<1> HIDE DEF r
<1>5. RepliesTo(r, p)
  BY <1>1 DEF MatchInv
<1>6. \A q \in pending' : r.id < q.id
  <2> SUFFICES ASSUME NEW q \in pending, q # p PROVE r.id < q.id
    BY <1>3, <1>4
  <2>1. q.id # r.id
    BY <1>3 DEF IdsInv
  <2>2. q.id \in InFlight /\ SeqIds(suspended) = {}
    BY EmptyQueue DEF IdsInv, QueueOrder
  <2>3. CASE q.id \in SeqIds(inbox)
    BY <1>1, <2>3 DEF SeqIds, QueueOrder
  <2>4. CASE q.id \in SeqIds(outbox)
    <3>1. PICK k \in DOMAIN outbox : q.id = outbox[k].id
      BY <2>4 DEF SeqIds
    <3>2. 1 < k
      BY <1>1, <2>1, <3>1
    <3> QED
      BY <1>1, <3>1, <3>2 DEF QueueOrder, Ordered
  <2> QED
    BY <2>2, <2>3, <2>4 DEF InFlight
<1>7. \A l \in loads' : \E k \in loads : /\ l.id = k.id /\ l.cap = k.cap
                                         /\ k.failed => l.failed
                                         /\ r.type = "error" /\ k.id = r.id /\ p.kind = "load" => l.failed
  BY <1>4, MarkedLoads
<1>8. view' # None => view'.load <= reqId'
  <2>1. r.id <= reqId
    BY <1>3 DEF IdsInv
  <2> QED
    BY <1>2, <1>4, <2>1 DEF QueueOrder
<1>9. Ordered(outbox')
  <2> SUFFICES ASSUME NEW i \in DOMAIN outbox', NEW j \in DOMAIN outbox', i < j
               PROVE  outbox'[i].id < outbox'[j].id
    BY DEF Ordered
  <2>1. i + 1 < j + 1
    BY <1>1
  <2> QED
    BY <1>1, <2>1 DEF QueueOrder, Ordered
<1>10. QueueOrder'
  BY <1>1, <1>4, <1>8, <1>9 DEF QueueOrder, Ordered
<1>11. ASSUME NEW l \in loads' PROVE LoadOrder(l)'
  <2>1. PICK k \in loads : /\ l.id = k.id /\ l.cap = k.cap
                           /\ k.failed => l.failed
                           /\ r.type = "error" /\ k.id = r.id /\ p.kind = "load" => l.failed
    BY <1>7
  <2>2. LoadOrder(k) /\ k.id \in Nat
    BY DEF TypeOK
  <2>3. /\ l.id <= reqId'
        /\ \A q \in pending' : q.id = l.id => q.kind = "load"
        /\ \A i \in DOMAIN inbox' : inbox'[i].id = l.id => inbox'[i].arg = l.cap
    BY <1>4, <2>1, <2>2 DEF LoadOrder
  <2>4. \A i \in DOMAIN outbox' : (outbox'[i].id = l.id /\ outbox'[i].type = "loaded")
                                      => outbox'[i].cap = l.cap
    BY <1>1, <2>1, <2>2 DEF LoadOrder, Loaded
  <2>5. (view' # None /\ view'.load = l.id) => view'.cap = l.cap
    <3>1. r.type = "loaded" /\ r.id = k.id => r.cap = k.cap
      BY <1>1, <2>2 DEF LoadOrder, Loaded
    <3> QED
      BY <1>2, <2>1, <2>2, <3>1 DEF LoadOrder
  <2>6. ASSUME k.failed PROVE Settled(l)'
    BY <2>1, <2>6 DEF Settled
  <2>7. ASSUME Calling(k) PROVE Settled(l)'
    <3>1. PICK q \in pending : q.id = k.id
      BY <2>7 DEF Calling
    <3>2. CASE q # p
      <4>1. q \in pending'
        BY <1>3, <1>4, <3>2
      <4> QED
        BY <2>1, <3>1, <4>1 DEF Settled, Calling
    <3>3. CASE q = p
      <4>1. k.id = r.id /\ p.kind = "load"
        BY <1>3, <2>2, <3>1, <3>3 DEF LoadOrder
      <4>2. r.type \in {"loaded", "error"}
        BY <1>3, <1>5, <4>1 DEF RepliesTo
      <4>3. CASE r.type = "error"
        BY <2>1, <4>1, <4>3 DEF Settled
      <4>4. CASE r.type = "loaded"
        <5>1. \A s \in pending' : l.id < s.id
          BY <1>6, <2>1, <4>1
        <5>2. l.id <= view'.load
          BY <1>2, <2>1, <2>2, <4>1, <4>4
        <5> QED
          BY <5>1, <5>2 DEF Settled
      <4> QED
        BY <4>2, <4>3, <4>4
    <3> QED
      BY <3>2, <3>3
  <2>8. ASSUME \A q \in pending : k.id < q.id, view # None => k.id <= view.load
        PROVE  Settled(l)'
    <3>1. \A q \in pending' : l.id < q.id
      BY <1>4, <2>1, <2>8
    <3>2. k.id < r.id /\ r.id \in Nat
      BY <1>3, <2>8 DEF TypeOK, Call
    <3>3. view' # None => l.id <= view'.load
      BY <1>2, <2>1, <2>2, <2>8, <3>2
    <3> QED
      BY <3>1, <3>3 DEF Settled
  <2>9. Settled(l)'
    BY <2>2, <2>6, <2>7, <2>8 DEF LoadOrder, Settled
  <2> QED
    BY <2>3, <2>4, <2>5, <2>9 DEF LoadOrder, Loaded
<1> QED
  BY <1>10, <1>11

LEMMA OrderStep == TypeOK /\ IdsInv /\ MatchInv /\ OrderInv /\ [Next]_vars => OrderInv'
<1> SUFFICES ASSUME TypeOK, IdsInv, MatchInv, Bundled, [Next]_vars,
                    QueueOrder, \A l \in loads : LoadOrder(l)
             PROVE  QueueOrder' /\ \A l \in loads' : LoadOrder(l)'
  BY OrderParts DEF OrderInv, QueueOrder, LoadOrder, Settled
<1>1. CASE Quiet
  <2>1. UNCHANGED <<reqId, pending, inbox, outbox, suspended, modules, view, loads>>
    BY <1>1 DEF Quiet
  <2> QED
    BY <2>1 DEF QueueOrder, Ordered, LoadOrder, Loaded, Settled, Calling
<1>2. CASE GoHome
  <2>1. /\ inbox' = <<>> /\ suspended' = <<>> /\ outbox' = <<>> /\ loads' = {} /\ view' = None
        /\ modules' = {"analysis", "filter"}
    BY <1>2 DEF GoHome, ResetView
  <2>2. DOMAIN inbox' = {} /\ DOMAIN outbox' = {}
    BY <2>1, EmptyQueue
  <2> QED
    BY <2>1, <2>2 DEF QueueOrder, Ordered
<1>3. ASSUME NEW kind, NEW arg, Calls(kind, arg)
      PROVE  QueueOrder' /\ \A l \in loads' : LoadOrder(l)'
  BY <1>3, OrderPosted DEF Calls
<1>4. ASSUME NEW r \in reading, ReadDone(r)
      PROVE  QueueOrder' /\ \A l \in loads' : LoadOrder(l)'
  <2> DEFINE load == [id |-> reqId + 1, cap |-> r.cap, gen |-> r.gen, failed |-> FALSE]
  <2>1. /\ Post("load", r.cap) /\ UNCHANGED <<outbox, suspended, modules>> /\ view' \in {view, None}
        /\ loads' = loads \cup {load} /\ load.id = reqId + 1 /\ load.cap = r.cap
    BY <1>4 DEF ReadDone, ResetView
  <2> HIDE DEF load
  <2>2. /\ QueueOrder'
        /\ \A l \in loads : LoadOrder(l)'
        /\ \A l : (l.id = reqId + 1 /\ l.cap = r.cap) => LoadOrder(l)'
    BY <2>1, OrderPosted
  <2> QED
    BY <2>1, <2>2
<1>5. CASE WorkerTakes
  <2>1. loads' = loads
    BY <1>5 DEF WorkerTakes
  <2> QED
    BY <1>5, <2>1, OrderTake
<1>6. ~WorkerResume
  BY EmptyQueue DEF WorkerResume, QueueOrder
<1>7. CASE Deliver
  BY <1>7, OrderDeliver
<1> QED
  BY <1>1, <1>2, <1>3, <1>4, <1>5, <1>6, <1>7, PageSteps DEF Next

\* In the bundled build loads that overlap end with the last one on screen, under its
\* own name, unless it failed (app.js:36-52, worker.js:43-68).
THEOREM LastLoadWins == Spec => []LatestLoadWins
<1>1. Init => OrderInv
  <2> SUFFICES ASSUME Init, Bundled PROVE QueueOrder /\ \A l \in loads : LoadOrder(l)
    BY OrderParts
  <2>1. /\ view = None /\ inbox = <<>> /\ suspended = <<>> /\ outbox = <<>> /\ loads = {}
        /\ modules = {"analysis", "filter"}
    BY DEF Init
  <2>2. DOMAIN inbox = {} /\ DOMAIN outbox = {}
    BY <2>1, EmptyQueue
  <2> QED
    BY <2>1, <2>2 DEF QueueOrder, Ordered
<1>2. TypeOK /\ GoHomeIsolation /\ OrderInv => LatestLoadWins
  <2> SUFFICES ASSUME TypeOK, GoHomeIsolation, Bundled, view # None, ~LoadPending,
                      \A l \in loads : LoadOrder(l)
               PROVE  \E l \in loads : /\ l.id = view.load /\ l.cap = view.cap
                                       /\ \A k \in loads : k.id > l.id => k.failed
    BY OrderParts DEF LatestLoadWins
  <2>1. PICK l \in loads : l.id = view.load
    BY DEF GoHomeIsolation
  <2>2. l.cap = view.cap
    BY <2>1 DEF LoadOrder
  <2>3. ASSUME NEW k \in loads, k.id > l.id PROVE k.failed
    <3>1. ~Calling(k)
      BY DEF Calling, LoadOrder, LoadPending
    <3>2. k.id \in Nat /\ l.id \in Nat /\ ~(k.id <= view.load)
      BY <2>1, <2>3 DEF TypeOK
    <3> QED
      BY <3>1, <3>2 DEF LoadOrder, Settled
  <2> QED
    BY <2>1, <2>2, <2>3
<1> QED
  BY <1>1, <1>2, TypeCorrect, HomeIsolates, IdsAlways, MatchAlways, OrderStep, PTL DEF Spec
=============================================================================
