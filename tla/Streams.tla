------------------------------- MODULE Streams -------------------------------
(***************************************************************************)
(* Streams and events of the runtime (stream.cpp, event.cpp) on one        *)
(* device. Every operation that enqueues work goes the same way: collect   *)
(* the completion events it must wait for, enqueue, and make its own       *)
(* completion the stream's last event; each is a critical section of its   *)
(* own. The null stream's legacy ordering rests on those events alone.     *)
(*                                                                         *)
(* The driver under it is external: a queue per stream whose worker runs   *)
(* commands in order, each when the events in its wait list are done.      *)
(* A command and its completion event have the same number, from 1; 0 is   *)
(* no event.                                                               *)
(***************************************************************************)
EXTENDS Integers, Sequences, FiniteSets

CONSTANTS
  Threads,      \* host threads: the API's contract is one
  Streams,      \* handles of streams the user creates
  NonBlocking,  \* those created with grxStreamNonBlocking
  Null,         \* the null stream
  Events,       \* handles of events the user creates
  MaxCmds,      \* bound: enqueueing calls
  MaxDestroys   \* bound: streams and events destroyed

ASSUME StreamsAssumption == NonBlocking \subseteq Streams /\ Null \notin Streams
\* The runtime's tables of handles are finite.
ASSUME FiniteAssumption == IsFiniteSet(Streams) /\ IsFiniteSet(Events)
ASSUME CmdsAssumption == MaxCmds \in Nat /\ MaxDestroys \in Nat

VARIABLES
  alive,     \* g_streams
  last,      \* StreamState::last_event
  ev,        \* EventState
  thr,       \* the API call each thread is in, with its locals
  cmds,      \* the driver: every command enqueued
  queue,     \* the driver: commands of each stream not yet run
  done,      \* the driver: commands completed
  value,     \* the driver: the timeline counter behind each event
  refs,      \* references the runtime holds on each completion event
  destroys,  \* streams and events destroyed
  returned   \* history: commands whose calls have returned

vars == <<alive, last, ev, thr, cmds, queue, done, value, refs, destroys, returned>>
drv  == <<cmds, queue, done, value>>

AllStreams == Streams \cup {Null}
Ids        == 1 .. MaxCmds
NoEvent    == 0

\* The locals of an enqueueing call; "after" and "rec" are history: what was
\* enqueued before the call began that it must follow, and the record a wait
\* is for.
Calls  == [pc : {"idle", "collect", "enqueue", "store", "last", "sync", "device", "await",
                 "destroy"},
           kind : {"work", "record", "wait"}, stream : AllStreams, event : Events \cup {NoEvent},
           target : Nat, waits : SUBSET Ids, cmd : Nat, left : SUBSET AllStreams,
           after : SUBSET Ids, rec : Nat]
NoCall == [pc |-> "idle", kind |-> "work", stream |-> Null, event |-> NoEvent, target |-> 0,
           waits |-> {}, cmd |-> 0, left |-> {}, after |-> {}, rec |-> 0]

Cmds == [kind : {"work", "record", "wait"}, stream : AllStreams, event : Events \cup {NoEvent},
         target : Nat, waits : SUBSET Ids, after : SUBSET Ids, rec : Nat]

TypeOK ==
  /\ alive \subseteq Streams
  /\ last \in [AllStreams -> Ids \cup {NoEvent}]
  /\ ev \in [Events -> [live : BOOLEAN, target : 0 .. MaxCmds, recorded : BOOLEAN,
                        completion : Ids \cup {NoEvent}]]
  /\ thr \in [Threads -> Calls]
  /\ cmds \in Seq(Cmds) /\ Len(cmds) <= MaxCmds
  /\ queue \in [AllStreams -> Seq(Ids)]
  /\ done \subseteq Ids
  /\ value \in [Events -> 0 .. MaxCmds]
  /\ refs \in [Ids -> Nat]
  /\ destroys \in 0 .. MaxDestroys
  /\ returned \subseteq Ids

Init ==
  /\ alive = Streams
  /\ last = [s \in AllStreams |-> NoEvent]
  /\ ev = [e \in Events |-> [live |-> TRUE, target |-> 0, recorded |-> FALSE,
                             completion |-> NoEvent]]
  /\ thr = [t \in Threads |-> NoCall]
  /\ cmds = <<>>
  /\ queue = [s \in AllStreams |-> <<>>]
  /\ done = {}
  /\ value = [e \in Events |-> 0]
  /\ refs = [c \in Ids |-> 0]
  /\ destroys = 0
  /\ returned = {}

-----------------------------------------------------------------------------
(* References to completion events. *)

Release(r, c) == IF c = NoEvent THEN r ELSE [r EXCEPT ![c] = @ - 1]
Retain(r, c)  == [r EXCEPT ![c] = @ + 1]

-----------------------------------------------------------------------------
(* An enqueueing call: grxLaunchKernel, grxMemcpyAsync and grxMemsetAsync,   *)
(* grxEventRecord, grxStreamWaitEvent.                                       *)

Known(s)  == s = Null \/ s \in alive
Legacy(s) == s \notin NonBlocking

\* CUDA's order: a stream with itself, and the null stream with blocking ones.
MustFollow(s, r) == s = r \/ (s = Null /\ Legacy(r)) \/ (r = Null /\ Legacy(s))

Begun   == Len(cmds) + Cardinality({t \in Threads : thr[t].pc \in {"collect", "enqueue"}})
Idle(t) == thr[t].pc = "idle"

\* The stream is resolved, and the call begins.
BeginCall(t, kind, s, e, target, rec) ==
  /\ Idle(t)
  /\ Begun < MaxCmds
  /\ Known(s)
  /\ thr' = [thr EXCEPT ![t] =
               [NoCall EXCEPT !.pc = "collect", !.kind = kind, !.stream = s, !.event = e,
                              !.target = target, !.rec = rec,
                              !.after = {c \in returned : MustFollow(s, cmds[c].stream)}]]
  /\ UNCHANGED <<alive, last, ev, drv, refs, destroys, returned>>

Work(t, s) == BeginCall(t, "work", s, NoEvent, 0, 0)

Record(t, s, e) == ev[e].live /\ BeginCall(t, "record", s, e, 0, 0)

\* A wait takes the target of the latest record; with none it does nothing.
WaitEvent(t, s, e) ==
  /\ ev[e].live /\ ev[e].recorded
  /\ BeginCall(t, "wait", s, e, ev[e].target, ev[e].completion)

\* Mutant of WaitList: a blocking stream does not look at the null stream.
WaitListNoNull(s) ==
  ((IF s = Null THEN {last[r] : r \in {q \in alive : Legacy(q)}} ELSE {}) \cup {last[s]}) \ {NoEvent}

\* collect_wait_events().
WaitList(s) ==
  ((IF s = Null THEN {last[r] : r \in {q \in alive : Legacy(q)}}
    ELSE IF Legacy(s) THEN {last[Null]} ELSE {}) \cup {last[s]}) \ {NoEvent}

Collect(t) ==
  /\ thr[t].pc = "collect"
  /\ thr' = [thr EXCEPT ![t].pc = "enqueue", ![t].waits = WaitList(thr[t].stream)]
  /\ UNCHANGED <<alive, last, ev, drv, refs, destroys, returned>>

\* Mutant of Enqueue: a record signals the value before its own.
EnqueueStaleTarget(t) ==
  LET c  == thr[t]
      id == Len(cmds) + 1
      tg == IF c.kind = "record" THEN ev[c.event].target ELSE c.target
  IN  /\ c.pc = "enqueue"
      /\ cmds' = Append(cmds, [kind |-> c.kind, stream |-> c.stream, event |-> c.event,
                               target |-> tg, waits |-> c.waits, after |-> c.after,
                               rec |-> c.rec])
      /\ queue' = [queue EXCEPT ![c.stream] = Append(@, id)]
      /\ refs' = [refs EXCEPT ![id] = 1]
      /\ thr' = [thr EXCEPT ![t].pc = IF c.kind = "record" THEN "store" ELSE "last",
                            ![t].target = tg, ![t].cmd = id]
      /\ UNCHANGED <<alive, last, ev, done, value, destroys, returned>>

\* The driver takes the command; its completion event is the caller's.
Enqueue(t) ==
  LET c  == thr[t]
      id == Len(cmds) + 1
      tg == IF c.kind = "record" THEN ev[c.event].target + 1 ELSE c.target
  IN  /\ c.pc = "enqueue"
      /\ cmds' = Append(cmds, [kind |-> c.kind, stream |-> c.stream, event |-> c.event,
                               target |-> tg, waits |-> c.waits, after |-> c.after,
                               rec |-> c.rec])
      /\ queue' = [queue EXCEPT ![c.stream] = Append(@, id)]
      /\ refs' = [refs EXCEPT ![id] = 1]
      /\ thr' = [thr EXCEPT ![t].pc = IF c.kind = "record" THEN "store" ELSE "last",
                            ![t].target = tg, ![t].cmd = id]
      /\ UNCHANGED <<alive, last, ev, done, value, destroys, returned>>

\* Or turns it away, and the call returns its error.
EnqueueFails(t) ==
  /\ thr[t].pc = "enqueue"
  /\ thr' = [thr EXCEPT ![t] = NoCall]
  /\ UNCHANGED <<alive, last, ev, drv, refs, destroys, returned>>

\* Mutant of Store: the event's own reference is not taken.
StoreUnretained(t) ==
  LET c == thr[t]
      e == ev[c.event]
  IN  /\ c.pc = "store"
      /\ ev' = [ev EXCEPT ![c.event] = [@ EXCEPT !.target = c.target, !.recorded = TRUE,
                                                 !.completion = c.cmd]]
      /\ refs' = Release(refs, e.completion)
      /\ thr' = [thr EXCEPT ![t].pc = "last"]
      /\ UNCHANGED <<alive, last, drv, destroys, returned>>

\* Mutant of Store: the value to wait for is one past the one signalled.
StoreNextTarget(t) ==
  LET c == thr[t]
      e == ev[c.event]
  IN  /\ c.pc = "store"
      /\ ev' = [ev EXCEPT ![c.event] = [@ EXCEPT !.target = c.target + 1, !.recorded = TRUE,
                                                 !.completion = c.cmd]]
      /\ refs' = Retain(Release(refs, e.completion), c.cmd)
      /\ thr' = [thr EXCEPT ![t].pc = "last"]
      /\ UNCHANGED <<alive, last, drv, destroys, returned>>

\* grxEventRecord, under the event's lock: what the latest record waits for.
Store(t) ==
  LET c == thr[t]
      e == ev[c.event]
  IN  /\ c.pc = "store"
      /\ ev' = [ev EXCEPT ![c.event] = [@ EXCEPT !.target = c.target, !.recorded = TRUE,
                                                 !.completion = c.cmd]]
      /\ refs' = Retain(Release(refs, e.completion), c.cmd)
      /\ thr' = [thr EXCEPT ![t].pc = "last"]
      /\ UNCHANGED <<alive, last, drv, destroys, returned>>

\* Mutant of SetLast: only work moves the stream's last event.
SetLastOfWork(t) ==
  LET c == thr[t]
  IN  /\ c.pc = "last"
      /\ IF Known(c.stream) /\ c.kind = "work"
         THEN /\ last' = [last EXCEPT ![c.stream] = c.cmd]
              /\ refs' = Release(refs, last[c.stream])
         ELSE /\ refs' = Release(refs, c.cmd)
              /\ UNCHANGED last
      /\ returned' = returned \cup {c.cmd}
      /\ thr' = [thr EXCEPT ![t] = NoCall]
      /\ UNCHANGED <<alive, ev, drv, destroys>>

\* set_stream_last_event(), and the call returns.
SetLast(t) ==
  LET c == thr[t]
  IN  /\ c.pc = "last"
      /\ IF Known(c.stream)
         THEN /\ last' = [last EXCEPT ![c.stream] = c.cmd]
              /\ refs' = Release(refs, last[c.stream])
         ELSE /\ refs' = Release(refs, c.cmd)
              /\ UNCHANGED last
      /\ returned' = returned \cup {c.cmd}
      /\ thr' = [thr EXCEPT ![t] = NoCall]
      /\ UNCHANGED <<alive, ev, drv, destroys>>

-----------------------------------------------------------------------------
(* Synchronisation. *)

\* sync_stream(): vx_queue_finish.
Synchronize(t, s) ==
  /\ Idle(t)
  /\ Known(s)
  /\ thr' = [thr EXCEPT ![t].pc = "sync", ![t].stream = s]
  /\ UNCHANGED <<alive, last, ev, drv, refs, destroys, returned>>

SynchronizeEnd(t) ==
  /\ thr[t].pc = "sync"
  /\ queue[thr[t].stream] = <<>>
  /\ thr' = [thr EXCEPT ![t] = NoCall]
  /\ UNCHANGED <<alive, last, ev, drv, refs, destroys, returned>>

\* Mutant of DeviceSynchronize: only the streams the null stream waits for.
DeviceSynchronizeLegacy(t) ==
  /\ Idle(t)
  /\ thr' = [thr EXCEPT ![t].pc = "device", ![t].left = {s \in alive : Legacy(s)} \cup {Null}]
  /\ UNCHANGED <<alive, last, ev, drv, refs, destroys, returned>>

\* sync_all_streams(): the queues there are, and vx_queue_finish of one after another.
DeviceSynchronize(t) ==
  /\ Idle(t)
  /\ thr' = [thr EXCEPT ![t].pc = "device", ![t].left = alive \cup {Null}]
  /\ UNCHANGED <<alive, last, ev, drv, refs, destroys, returned>>

DeviceSynchronizeStep(t) ==
  /\ thr[t].pc = "device"
  /\ \E s \in thr[t].left :
       /\ queue[s] = <<>>
       /\ thr' = [thr EXCEPT ![t] = IF thr[t].left = {s} THEN NoCall
                                ELSE [thr[t] EXCEPT !.left = @ \ {s}]]
  /\ UNCHANGED <<alive, last, ev, drv, refs, destroys, returned>>

\* grxEventSynchronize(): until the counter has reached the latest target.
EventSynchronize(t, e) ==
  /\ Idle(t)
  /\ ev[e].live /\ ev[e].recorded
  /\ thr' = [thr EXCEPT ![t].pc = "await", ![t].event = e, ![t].target = ev[e].target]
  /\ UNCHANGED <<alive, last, ev, drv, refs, destroys, returned>>

EventSynchronizeEnd(t) ==
  /\ thr[t].pc = "await"
  /\ value[thr[t].event] >= thr[t].target
  /\ thr' = [thr EXCEPT ![t] = NoCall]
  /\ UNCHANGED <<alive, last, ev, drv, refs, destroys, returned>>

\* query_stream() and grxEventQuery() answer success.
QueryStream(s) == last[s] = NoEvent \/ last[s] \in done
QueryEvent(e)  == ev[e].recorded => value[e] >= ev[e].target

-----------------------------------------------------------------------------
(* Streams and events come and go. *)

InUse(s) == \E t \in Threads : thr[t].pc # "idle" /\ thr[t].stream = s

CreateStream(t, s) ==
  /\ Idle(t)
  /\ s \in Streams \ alive /\ ~InUse(s)
  /\ alive' = alive \cup {s}
  /\ UNCHANGED <<last, ev, thr, drv, refs, destroys, returned>>

\* destroy_stream(): the handle is gone at once, its work is waited for.
DestroyStream(t, s) ==
  /\ Idle(t)
  /\ s \in alive /\ ~InUse(s)
  /\ destroys < MaxDestroys
  /\ destroys' = destroys + 1
  /\ alive' = alive \ {s}
  /\ thr' = [thr EXCEPT ![t].pc = "destroy", ![t].stream = s]
  /\ UNCHANGED <<last, ev, drv, refs, returned>>

DestroyStreamEnd(t) ==
  LET s == thr[t].stream
  IN  /\ thr[t].pc = "destroy"
      /\ queue[s] = <<>>
      /\ refs' = Release(refs, last[s])
      /\ last' = [last EXCEPT ![s] = NoEvent]
      /\ thr' = [thr EXCEPT ![t] = NoCall]
      /\ UNCHANGED <<alive, ev, drv, destroys, returned>>

\* grxEventDestroy(), of an event no call is using.
DestroyEvent(t, e) ==
  /\ Idle(t)
  /\ ev[e].live /\ \A u \in Threads : thr[u].event # e
  /\ destroys < MaxDestroys
  /\ destroys' = destroys + 1
  /\ ev' = [ev EXCEPT ![e] = [@ EXCEPT !.live = FALSE, !.completion = NoEvent]]
  /\ refs' = Release(refs, ev[e].completion)
  /\ UNCHANGED <<alive, last, thr, drv, returned>>

-----------------------------------------------------------------------------
(* The driver (external): the worker of a queue runs the command at its head. *)

CanRun(s) ==
  /\ queue[s] # <<>>
  /\ LET c == cmds[Head(queue[s])]
     IN  /\ c.waits \subseteq done
         /\ c.kind = "wait" => value[c.event] >= c.target

Run(s) ==
  /\ CanRun(s)
  /\ LET id == Head(queue[s])
         c  == cmds[id]
     IN  /\ done' = done \cup {id}
         /\ value' = IF c.kind = "record" /\ value[c.event] < c.target
                     THEN [value EXCEPT ![c.event] = c.target] ELSE value
  /\ queue' = [queue EXCEPT ![s] = Tail(@)]
  /\ UNCHANGED <<alive, last, ev, thr, cmds, refs, destroys, returned>>

-----------------------------------------------------------------------------
\* What a call does once it has begun.
Continue(t) ==
  \/ Collect(t) \/ Enqueue(t) \/ EnqueueFails(t) \/ Store(t) \/ SetLast(t)
  \/ SynchronizeEnd(t) \/ DeviceSynchronizeStep(t) \/ EventSynchronizeEnd(t) \/ DestroyStreamEnd(t)

Start(t) ==
  \/ DeviceSynchronize(t)
  \/ \E s \in AllStreams : Work(t, s) \/ Synchronize(t, s)
  \/ \E s \in AllStreams, e \in Events : Record(t, s, e) \/ WaitEvent(t, s, e)
  \/ \E e \in Events : EventSynchronize(t, e) \/ DestroyEvent(t, e)
  \/ \E s \in Streams : CreateStream(t, s) \/ DestroyStream(t, s)

Next ==
  \/ \E t \in Threads : Start(t) \/ Continue(t)
  \/ \E s \in AllStreams : Run(s)

Spec == Init /\ [][Next]_vars

\* The host's threads run, and every queue has a worker.
FairSpec ==
  /\ Spec
  /\ \A t \in Threads : WF_vars(Continue(t))
  /\ \A s \in AllStreams : WF_vars(Run(s))

-----------------------------------------------------------------------------
(* The inductive invariant, for a program of one thread. *)

\* What the API's contract asks of the program.
OneThread == \A t, u \in Threads : t = u

\* Each queue has the commands of its stream that have not run, in the order they were
\* enqueued; so a stream's commands run in that order.
QueueInv ==
  /\ done \subseteq DOMAIN cmds
  /\ \A s \in AllStreams :
       /\ \A i \in DOMAIN queue[s] :
            queue[s][i] \in DOMAIN cmds \ done /\ cmds[queue[s][i]].stream = s
       /\ \A i, j \in DOMAIN queue[s] : i < j => queue[s][i] < queue[s][j]
  /\ \A c \in DOMAIN cmds \ done : \E i \in DOMAIN queue[cmds[c].stream] : queue[cmds[c].stream][i] = c
  /\ \A c, d \in DOMAIN cmds : c < d /\ cmds[c].stream = cmds[d].stream /\ d \in done => c \in done

\* Whoever waits for the commands w waits for each of a: it has run, or one of w runs after it.
Covered(a, w) ==
  \A c \in a : c \in done \/ \E d \in w : c <= d /\ cmds[c].stream = cmds[d].stream

\* Every command waits for what it must follow, and for nothing but commands before it.
WaitsInv ==
  \A c \in DOMAIN cmds : /\ cmds[c].waits \subseteq 1 .. c - 1 /\ cmds[c].after \subseteq 1 .. c - 1
                         /\ Covered(cmds[c].after, cmds[c].waits)

\* A stream's last event is the last of what it was given, if any of that has not run; a
\* stream that is gone has nothing left to run, unless it is being destroyed.
LastInv ==
  /\ returned \subseteq DOMAIN cmds
  /\ \A s \in AllStreams : last[s] # NoEvent => last[s] \in returned /\ cmds[last[s]].stream = s
  /\ \A c \in returned : c \in done \/ (last[cmds[c].stream] # NoEvent /\ c <= last[cmds[c].stream])
  /\ \A s \in Streams \ alive :
       queue[s] = <<>> \/ \E t \in Threads : thr[t].pc = "destroy" /\ thr[t].stream = s

\* A record of event e; the event is about to be told of one.
IsRecord(c, e) == c \in DOMAIN cmds /\ cmds[c].kind = "record" /\ cmds[c].event = e
Storing(e)     == \E t \in Threads : thr[t].pc = "store" /\ thr[t].event = e

\* The records of an event have targets of their own, in order, up to the latest, which the
\* event holds; its counter has the target of one that has run. A wait has the target of
\* the record it is for.
RecordInv ==
  /\ \A c \in DOMAIN cmds : cmds[c].kind = "record" =>
       /\ cmds[c].event \in Events /\ cmds[c].target \in 1 .. c
       /\ \A d \in DOMAIN cmds : IsRecord(d, cmds[c].event) /\ c < d => cmds[c].target < cmds[d].target
       /\ cmds[c].target <= ev[cmds[c].event].target + (IF Storing(cmds[c].event) THEN 1 ELSE 0)
  /\ \A e \in Events :
       /\ ev[e].target <= Len(cmds)
       /\ ev[e].completion # NoEvent => ev[e].completion \in DOMAIN cmds
       /\ ev[e].live /\ ev[e].recorded =>
            IsRecord(ev[e].completion, e) /\ cmds[ev[e].completion].target = ev[e].target
       /\ value[e] > 0 => \E c \in done : IsRecord(c, e) /\ cmds[c].target = value[e]
  /\ \A c \in DOMAIN cmds : cmds[c].kind = "wait" =>
       IsRecord(cmds[c].rec, cmds[c].event) /\ cmds[cmds[c].rec].target = cmds[c].target

\* What a thread inside a call has, by where it is.
CallInv ==
  \A t \in Threads :
    LET c == thr[t]
    IN  /\ c.pc \in {"collect", "enqueue", "store", "last"} => Known(c.stream)
        /\ c.pc \in {"collect", "enqueue"} =>
             /\ Len(cmds) < MaxCmds
             /\ c.after \subseteq DOMAIN cmds
             /\ c.kind = "record" => c.event \in Events
             /\ c.kind = "wait" =>
                  c.event \in Events /\ IsRecord(c.rec, c.event) /\ cmds[c.rec].target = c.target
        /\ c.pc = "collect" => \A a \in c.after : a \in returned /\ MustFollow(c.stream, cmds[a].stream)
        /\ c.pc = "enqueue" => c.waits \subseteq DOMAIN cmds /\ Covered(c.after, c.waits)
        /\ c.pc \in {"store", "last"} =>
             /\ c.cmd \in DOMAIN cmds /\ c.cmd = Len(cmds)
             /\ cmds[c.cmd].stream = c.stream
        /\ c.pc = "store" => /\ IsRecord(c.cmd, c.event) /\ cmds[c.cmd].target = c.target
                             /\ c.event \in Events /\ c.target = ev[c.event].target + 1
        /\ c.pc = "await" => c.event \in Events
        /\ c.pc = "destroy" => c.stream \in Streams \ alive
        /\ c.pc = "device" => \A s \in AllStreams \ c.left : queue[s] = <<>>

\* References to each completion event: streams', events' and the one a call has.
Carries(t, c) == thr[t].pc \in {"store", "last"} /\ thr[t].cmd = c

RefsInv ==
  \A c \in Ids : refs[c] = Cardinality({s \in AllStreams : last[s] = c})
                             + Cardinality({e \in Events : ev[e].completion = c})
                             + (IF \E t \in Threads : Carries(t, c) THEN 1 ELSE 0)

-----------------------------------------------------------------------------
(* What must hold. *)

\* "Work on the null stream waits for every blocking stream, and work on a
\* blocking stream waits for the null stream": no command runs before one it
\* must follow whose call had returned when its own began.
LegacyOrder == \A c \in done : cmds[c].after \subseteq done

\* A wait is for the record the event held when it was asked for: what follows it
\* runs after that record, and so after everything enqueued before it.
WaitsForItsRecord == \A c \in done : cmds[c].kind = "wait" => cmds[c].rec \in done

\* Records of a wait's event that came after the one it is for, on another stream.
Overtakers(c) ==
  {r \in DOMAIN cmds : /\ cmds[r].kind = "record" /\ cmds[r].event = cmds[c].event
                       /\ r > cmds[c].rec /\ cmds[r].stream # cmds[cmds[c].rec].stream}

\* So it is, as long as the event is not recorded again on another stream.
WaitsUnlessOvertaken ==
  \A c \in done : cmds[c].kind = "wait" /\ Overtakers(c) = {} => cmds[c].rec \in done

IInv ==
  /\ TypeOK /\ QueueInv /\ WaitsInv /\ LastInv /\ RecordInv /\ CallInv /\ RefsInv
  /\ LegacyOrder /\ WaitsUnlessOvertaken

\* A success from grxStreamQuery or grxEventQuery is true: everything the stream
\* was given, or everything up to the event's latest record, has completed.
AnswersAreTrue ==
  (\A t \in Threads : Idle(t)) =>
    /\ \A s \in AllStreams : QueryStream(s) => {c \in returned : cmds[c].stream = s} \subseteq done
    /\ \A e \in Events : ev[e].live /\ ev[e].recorded /\ QueryEvent(e) => ev[e].completion \in done

\* A synchronising call returns only when what the program gave the stream, or any
\* stream of the device, has completed: the non-blocking ones, the work behind
\* events, and what a stream destroyed since had been given.
SyncsMeanDone ==
  [][\A t \in Threads : Idle(t)' =>
       /\ thr[t].pc = "device" => returned \subseteq done
       /\ thr[t].pc = "sync" => {c \in returned : cmds[c].stream = thr[t].stream} \subseteq done]_vars

\* Between calls, each completion event has exactly the references that streams
\* and events hold: none is freed while one of them names it, and none is leaked.
RefsExact ==
  (\A t \in Threads : Idle(t)) =>
    \A c \in Ids : refs[c] = Cardinality({s \in AllStreams : last[s] = c})
                               + Cardinality({e \in Events : ev[e].completion = c})

\* No circle of waits: every call returns, the synchronising ones with all that
\* was enqueued run.
CallsReturn == \A t \in Threads : ~Idle(t) ~> Idle(t)

=============================================================================
