---------------------------- MODULE StreamsProofs ----------------------------
(***************************************************************************)
(* Streams and events under a program of one thread, for any number of     *)
(* streams, events and commands: the inductive invariant IInv, CUDA's      *)
(* legacy order, the truth of queries and synchronisations, and the        *)
(* references to completion events. CallsReturn stays with TLC.            *)
(***************************************************************************)
EXTENDS Streams, FiniteSetTheorems, TLAPS

USE StreamsAssumption, CmdsAssumption

-----------------------------------------------------------------------------
(* What the invariant says. *)

LEMMA NoCallType == NoCall \in Calls /\ NoCall.pc = "idle"
  BY DEF NoCall, Calls, AllStreams, NoEvent

\* Commands are numbered from 1 to Len(cmds), within the bound.
LEMMA CmdsType ==
  ASSUME TypeOK
  PROVE  /\ Len(cmds) \in 0 .. MaxCmds /\ DOMAIN cmds = 1 .. Len(cmds)
         /\ DOMAIN cmds \subseteq Ids /\ DOMAIN cmds \subseteq Nat
         /\ \A c \in DOMAIN cmds : cmds[c] \in Cmds /\ cmds[c].stream \in AllStreams
<1>1. cmds \in Seq(Cmds) /\ Len(cmds) <= MaxCmds
  BY DEF TypeOK
<1>2. Len(cmds) \in Nat /\ DOMAIN cmds = 1 .. Len(cmds) /\ \A c \in 1 .. Len(cmds) : cmds[c] \in Cmds
  BY <1>1
<1>3. \A r \in Cmds : r.stream \in AllStreams
  BY DEF Cmds
<1> QED BY <1>1, <1>2, <1>3 DEF Ids

\* What an empty queue means.
LEMMA EmptyQueue ==
  ASSUME TypeOK, QueueInv, NEW s \in AllStreams, queue[s] = <<>>, NEW c \in DOMAIN cmds,
         cmds[c].stream = s
  PROVE  c \in done
  BY DEF QueueInv

-----------------------------------------------------------------------------
(* Steps of a call that touch nothing but the thread. *)

LEMMA ThreadStep ==
  ASSUME OneThread, IInv, NEW t \in Threads,
         UNCHANGED <<alive, last, ev, drv, refs, destroys, returned>>,
         thr' \in [Threads -> Calls], CallInv',
         thr[t].pc \notin {"store", "last", "destroy"}, thr'[t].pc \notin {"store", "last"}
  PROVE  IInv'
<1>0. \A u \in Threads : u = t
  BY DEF OneThread
<1> USE DEF drv
<1>1. TypeOK'
  BY DEF IInv, TypeOK
<1>2. QueueInv' /\ WaitsInv' /\ LegacyOrder'
  BY DEF IInv, QueueInv, WaitsInv, Covered, LegacyOrder
<1>3. LastInv'
  BY <1>0 DEF IInv, LastInv
<1>4. RecordInv'
  <2>1. \A e : (Storing(e) <=> FALSE) /\ (Storing(e)' <=> FALSE)
    BY <1>0 DEF Storing
  <2> QED BY <2>1 DEF IInv, RecordInv, IsRecord
<1>5. RefsInv'
  <2>1. \A c : (\E u \in Threads : Carries(u, c)) <=> (\E u \in Threads : Carries(u, c))'
    BY <1>0 DEF Carries
  <2> QED BY <2>1 DEF IInv, RefsInv
<1>6. WaitsUnlessOvertaken'
  BY DEF IInv, WaitsUnlessOvertaken, Overtakers
<1> QED BY <1>1, <1>2, <1>3, <1>4, <1>5, <1>6 DEF IInv

\* grxLaunchKernel, the copies, grxEventRecord and grxStreamWaitEvent begin: what has
\* returned is what they must follow, and a wait has its record and its target.
LEMMA BeginStep ==
  ASSUME OneThread, IInv, NEW t \in Threads, NEW s \in AllStreams,
         NEW kind \in {"work", "record", "wait"}, NEW e \in Events \cup {NoEvent}, NEW target \in Nat,
         NEW rec \in Nat, BeginCall(t, kind, s, e, target, rec),
         kind # "work" => e \in Events,
         kind = "wait" => IsRecord(rec, e) /\ cmds[rec].target = target
  PROVE  IInv'
<1> DEFINE a == {c \in returned : MustFollow(s, cmds[c].stream)}
           r == [NoCall EXCEPT !.pc = "collect", !.kind = kind, !.stream = s, !.event = e,
                               !.target = target, !.rec = rec, !.after = a]
<1>0. /\ thr[t].pc = "idle" /\ Begun < MaxCmds /\ Known(s)
      /\ thr' = [thr EXCEPT ![t] = r]
      /\ UNCHANGED <<alive, last, ev, drv, refs, destroys, returned>>
  BY DEF BeginCall, Idle
<1>1. \A u \in Threads : u = t
  BY DEF OneThread
<1>2. TypeOK /\ LastInv
  BY DEF IInv
<1>3. Len(cmds) < MaxCmds
  <2>1. {u \in Threads : thr[u].pc \in {"collect", "enqueue"}} = {}
    BY <1>0, <1>1
  <2>2. Begun = Len(cmds) + 0
    BY <2>1, FS_EmptySet DEF Begun
  <2> QED BY <1>0, <1>2, <2>2, CmdsType
<1>4. a \subseteq returned /\ a \subseteq DOMAIN cmds /\ a \subseteq Ids
  BY <1>2, CmdsType DEF LastInv
<1>5. r \in Calls
  BY <1>4, NoCallType DEF Calls
<1>6. /\ r.pc = "collect" /\ r.kind = kind /\ r.stream = s /\ r.event = e /\ r.target = target
      /\ r.rec = rec /\ r.after = a
  BY DEF NoCall
<1>7. thr' \in [Threads -> Calls] /\ thr'[t] = r
  BY <1>0, <1>2, <1>5 DEF TypeOK
<1>8. \A c \in a : c \in returned /\ MustFollow(s, cmds[c].stream)
  OBVIOUS
<1> HIDE DEF r, a
<1>9. CallInv'
  BY <1>0, <1>1, <1>3, <1>4, <1>6, <1>7, <1>8 DEF CallInv, drv, IsRecord, Known, MustFollow
<1> QED BY <1>0, <1>6, <1>7, <1>9, ThreadStep

\* collect_wait_events(): the events collected cover all that the call must follow, since a
\* blocking stream that is gone has nothing left to run.
LEMMA CollectStep == ASSUME OneThread, IInv, NEW t \in Threads, Collect(t) PROVE IInv'
<1> DEFINE s == thr[t].stream  w == WaitList(s)  a == thr[t].after
<1>0. /\ thr[t].pc = "collect"
      /\ thr' = [thr EXCEPT ![t].pc = "enqueue", ![t].waits = w]
      /\ UNCHANGED <<alive, last, ev, drv, refs, destroys, returned>>
  BY DEF Collect
<1>1. \A u \in Threads : u = t
  BY DEF OneThread
<1>2. TypeOK /\ LastInv /\ QueueInv /\ CallInv
  BY DEF IInv
<1>3. s \in AllStreams /\ thr[t] \in Calls
  BY <1>2 DEF TypeOK, Calls
<1>4. w \subseteq DOMAIN cmds /\ w \subseteq Ids
  <2>1. \A q \in AllStreams : last[q] # NoEvent => last[q] \in DOMAIN cmds
    BY <1>2 DEF LastInv
  <2>2. alive \subseteq AllStreams /\ Null \in AllStreams
    BY <1>2 DEF TypeOK, AllStreams
  <2>3. w \subseteq DOMAIN cmds
    BY <1>3, <2>1, <2>2 DEF WaitList
  <2> QED BY <1>2, <2>3, CmdsType
<1>5. Covered(a, w)
  <2> SUFFICES ASSUME NEW c \in a, c \notin done
               PROVE  \E d \in w : c <= d /\ cmds[c].stream = cmds[d].stream
    BY DEF Covered
  <2> DEFINE r == cmds[c].stream
  <2>1. c \in returned /\ MustFollow(s, r) /\ c \in DOMAIN cmds /\ r \in AllStreams
    BY <1>0, <1>2, CmdsType DEF CallInv, LastInv
  <2>2. last[r] # NoEvent /\ c <= last[r] /\ cmds[last[r]].stream = r
    BY <1>2, <2>1 DEF LastInv
  <2>3. r \in Streams => r \in alive
    BY <1>0, <1>1, <1>2, <2>1, EmptyQueue DEF LastInv
  <2>4. last[r] \in w
    <3> HIDE DEF r
    <3> QED BY <1>3, <2>1, <2>2, <2>3 DEF WaitList, MustFollow, AllStreams, Legacy
  <2> QED BY <2>2, <2>4
<1> HIDE DEF w
<1>6. thr' \in [Threads -> Calls] /\ thr'[t] = [thr[t] EXCEPT !.pc = "enqueue", !.waits = w]
  <2>1. thr' = [thr EXCEPT ![t] = [thr[t] EXCEPT !.pc = "enqueue", !.waits = w]]
    BY <1>0, <1>2 DEF TypeOK
  <2>2. [thr[t] EXCEPT !.pc = "enqueue", !.waits = w] \in Calls
    BY <1>3, <1>4 DEF Calls
  <2> QED BY <1>2, <2>1, <2>2 DEF TypeOK
<1>7. /\ thr'[t].pc = "enqueue" /\ thr'[t].waits = w /\ thr'[t].after = a /\ thr'[t].stream = s
      /\ thr'[t].kind = thr[t].kind /\ thr'[t].event = thr[t].event /\ thr'[t].rec = thr[t].rec
      /\ thr'[t].target = thr[t].target
  BY <1>3, <1>6 DEF Calls
<1>8. /\ Known(s) /\ Len(cmds) < MaxCmds /\ a \subseteq DOMAIN cmds
      /\ thr[t].kind = "record" => thr[t].event \in Events
      /\ thr[t].kind = "wait" => /\ thr[t].event \in Events /\ IsRecord(thr[t].rec, thr[t].event)
                                 /\ cmds[thr[t].rec].target = thr[t].target
  BY <1>0, <1>2 DEF CallInv
<1>9. /\ UNCHANGED <<cmds, done, alive>>
      /\ thr'[t].stream = Null \/ thr'[t].stream \in alive
      /\ thr'[t].after \subseteq DOMAIN cmds /\ thr'[t].waits \subseteq DOMAIN cmds
      /\ \A c \in thr'[t].after :
           c \in done \/ \E d \in thr'[t].waits : c <= d /\ cmds[c].stream = cmds[d].stream
  BY <1>0, <1>4, <1>5, <1>7, <1>8 DEF Known, Covered, drv
<1>10. CallInv'
  <2> HIDE DEF s, a
  <2> QED BY <1>1, <1>7, <1>8, <1>9 DEF CallInv, Known, Covered, IsRecord
<1> QED BY <1>0, <1>6, <1>7, <1>10, ThreadStep

\* A call that ends or that only waits.
LEMMA IdleStep ==
  ASSUME OneThread, IInv, NEW t \in Threads,
         EnqueueFails(t) \/ SynchronizeEnd(t) \/ EventSynchronizeEnd(t)
  PROVE  IInv'
<1>0. /\ thr[t].pc \in {"enqueue", "sync", "await"} /\ thr' = [thr EXCEPT ![t] = NoCall]
      /\ UNCHANGED <<alive, last, ev, drv, refs, destroys, returned>>
  BY DEF EnqueueFails, SynchronizeEnd, EventSynchronizeEnd
<1>1. \A u \in Threads : u = t
  BY DEF OneThread
<1>2. thr' \in [Threads -> Calls] /\ thr'[t].pc = "idle"
  BY <1>0, NoCallType DEF IInv, TypeOK
<1>3. CallInv'
  BY <1>1, <1>2 DEF CallInv
<1> QED BY <1>0, <1>2, <1>3, ThreadStep

LEMMA SyncStep ==
  ASSUME OneThread, IInv, NEW t \in Threads,
         (\E s \in AllStreams : Synchronize(t, s)) \/ (\E e \in Events : EventSynchronize(t, e))
  PROVE  IInv'
<1>0. UNCHANGED <<alive, last, ev, drv, refs, destroys, returned>> /\ thr[t].pc = "idle"
  BY DEF Synchronize, EventSynchronize, Idle
<1>1. \A u \in Threads : u = t
  BY DEF OneThread
<1>2. thr \in [Threads -> Calls] /\ thr[t] \in Calls
  BY DEF IInv, TypeOK
<1>3. CASE \E s \in AllStreams : Synchronize(t, s)
  <2>1. PICK s \in AllStreams : thr' = [thr EXCEPT ![t].pc = "sync", ![t].stream = s]
    BY <1>3 DEF Synchronize
  <2>2. thr' \in [Threads -> Calls] /\ thr'[t].pc = "sync"
    BY <1>2, <2>1 DEF Calls
  <2>3. CallInv'
    BY <1>1, <2>2 DEF CallInv
  <2> QED BY <1>0, <2>2, <2>3, ThreadStep
<1>4. CASE \E e \in Events : EventSynchronize(t, e)
  <2>1. PICK e \in Events : thr' = [thr EXCEPT ![t].pc = "await", ![t].event = e, ![t].target = ev[e].target]
    BY <1>4 DEF EventSynchronize
  <2>2. ev[e].target \in Nat
    BY DEF IInv, TypeOK
  <2>3. thr' \in [Threads -> Calls] /\ thr'[t].pc = "await" /\ thr'[t].event = e
    BY <1>2, <2>1, <2>2 DEF Calls
  <2>4. CallInv'
    BY <1>1, <2>3 DEF CallInv
  <2> QED BY <1>0, <2>3, <2>4, ThreadStep
<1> QED BY <1>3, <1>4

\* sync_all_streams() and each vx_queue_finish of it: the queues no longer on its list are empty.
LEMMA DeviceStep ==
  ASSUME OneThread, IInv, NEW t \in Threads, DeviceSynchronize(t) \/ DeviceSynchronizeStep(t)
  PROVE  IInv'
<1>0. UNCHANGED <<alive, last, ev, drv, refs, destroys, returned>>
  BY DEF DeviceSynchronize, DeviceSynchronizeStep
<1>1. \A u \in Threads : u = t
  BY DEF OneThread
<1>2. thr \in [Threads -> Calls] /\ thr[t] \in Calls /\ alive \subseteq Streams
  BY DEF IInv, TypeOK
<1>3. CASE DeviceSynchronize(t)
  <2>1. thr[t].pc = "idle" /\ thr' = [thr EXCEPT ![t].pc = "device", ![t].left = alive \cup {Null}]
    BY <1>3 DEF DeviceSynchronize, Idle
  <2>2. thr' \in [Threads -> Calls] /\ thr'[t].pc = "device" /\ thr'[t].left = alive \cup {Null}
    BY <1>2, <2>1 DEF Calls, AllStreams
  <2>3. \A s \in AllStreams \ (alive \cup {Null}) : queue[s] = <<>>
    BY <1>1, <2>1 DEF IInv, LastInv, AllStreams
  <2>4. CallInv'
    BY <1>0, <1>1, <2>2, <2>3 DEF CallInv, drv
  <2> QED BY <1>0, <2>1, <2>2, <2>4, ThreadStep
<1>4. CASE DeviceSynchronizeStep(t)
  <2>1. thr[t].pc = "device"
    BY <1>4 DEF DeviceSynchronizeStep
  <2>2. PICK s \in thr[t].left :
          /\ queue[s] = <<>>
          /\ thr' = [thr EXCEPT ![t] = IF thr[t].left = {s} THEN NoCall
                                      ELSE [thr[t] EXCEPT !.left = @ \ {s}]]
    BY <1>4 DEF DeviceSynchronizeStep
  <2>3. CASE thr[t].left = {s}
    <3>1. thr' \in [Threads -> Calls] /\ thr'[t].pc = "idle"
      BY <1>2, <2>2, <2>3, NoCallType
    <3>2. CallInv'
      BY <1>1, <3>1 DEF CallInv
    <3> QED BY <1>0, <2>1, <3>1, <3>2, ThreadStep
  <2>4. CASE thr[t].left # {s}
    <3> DEFINE r == [thr[t] EXCEPT !.left = thr[t].left \ {s}]
    <3>1. r \in Calls /\ r.pc = "device" /\ r.left = thr[t].left \ {s}
      BY <1>2, <2>1 DEF Calls
    <3>2. thr' \in [Threads -> Calls] /\ thr'[t].pc = "device" /\ thr'[t].left = thr[t].left \ {s}
      <4>1. thr'[t] = r
        BY <1>2, <2>2, <2>4
      <4>2. thr' = [thr EXCEPT ![t] = r]
        BY <1>2, <2>2, <2>4
      <4> HIDE DEF r
      <4> QED BY <1>2, <3>1, <4>1, <4>2
    <3>3. \A q \in AllStreams \ thr'[t].left : queue[q] = <<>>
      BY <2>1, <2>2, <3>2 DEF IInv, CallInv
    <3>4. CallInv'
      BY <1>0, <1>1, <3>2, <3>3 DEF CallInv, drv
    <3> QED BY <1>0, <2>1, <3>2, <3>4, ThreadStep
  <2> QED BY <2>3, <2>4
<1> QED BY <1>3, <1>4

\* The calls that enqueue begin.
LEMMA StartCallStep ==
  ASSUME OneThread, IInv, NEW t \in Threads, NEW s \in AllStreams,
         Work(t, s) \/ \E e \in Events : Record(t, s, e) \/ WaitEvent(t, s, e)
  PROVE  IInv'
<1>1. CASE Work(t, s)
  <2>1. BeginCall(t, "work", s, NoEvent, 0, 0)
    BY <1>1 DEF Work
  <2> QED BY <2>1, BeginStep
<1>2. CASE \E e \in Events : Record(t, s, e)
  <2>1. PICK e \in Events : BeginCall(t, "record", s, e, 0, 0)
    BY <1>2 DEF Record
  <2> QED BY <2>1, BeginStep
<1>3. CASE \E e \in Events : WaitEvent(t, s, e)
  <2>1. PICK e \in Events : /\ ev[e].live /\ ev[e].recorded
                            /\ BeginCall(t, "wait", s, e, ev[e].target, ev[e].completion)
    BY <1>3 DEF WaitEvent
  <2>2. /\ IsRecord(ev[e].completion, e) /\ cmds[ev[e].completion].target = ev[e].target
        /\ ev[e].target \in Nat /\ ev[e].completion \in Nat
    BY <2>1 DEF IInv, TypeOK, RecordInv, Ids, NoEvent
  <2> QED BY <2>1, <2>2, BeginStep
<1> QED BY <1>1, <1>2, <1>3

-----------------------------------------------------------------------------
(* The driver takes a command. *)

\* What Append does to the commands.
LEMMA CmdsAppend ==
  ASSUME TypeOK, NEW r \in Cmds, Len(cmds) < MaxCmds, cmds' = Append(cmds, r)
  PROVE  /\ Len(cmds') = Len(cmds) + 1 /\ Len(cmds) + 1 \in Ids
         /\ DOMAIN cmds' = DOMAIN cmds \cup {Len(cmds) + 1}
         /\ \A c \in DOMAIN cmds : cmds'[c] = cmds[c] /\ c < Len(cmds) + 1 /\ c \in Nat
         /\ cmds'[Len(cmds) + 1] = r /\ cmds' \in Seq(Cmds)
<1>1. cmds \in Seq(Cmds) /\ Len(cmds) \in Nat
  BY DEF TypeOK
<1>2. DOMAIN cmds = 1 .. Len(cmds) /\ DOMAIN cmds' = 1 .. Len(cmds) + 1
  BY <1>1
<1> QED BY <1>1, <1>2 DEF Ids

LEMMA EnqueueStep == ASSUME OneThread, IInv, NEW t \in Threads, Enqueue(t) PROVE IInv'
<1> DEFINE c  == thr[t]
           n  == Len(cmds) + 1
           tg == IF c.kind = "record" THEN ev[c.event].target + 1 ELSE c.target
           r  == [kind |-> c.kind, stream |-> c.stream, event |-> c.event, target |-> tg,
                  waits |-> c.waits, after |-> c.after, rec |-> c.rec]
           s  == c.stream
<1>0. /\ c.pc = "enqueue"
      /\ cmds' = Append(cmds, r)
      /\ queue' = [queue EXCEPT ![s] = Append(@, n)]
      /\ refs' = [refs EXCEPT ![n] = 1]
      /\ thr' = [thr EXCEPT ![t].pc = IF c.kind = "record" THEN "store" ELSE "last",
                            ![t].target = tg, ![t].cmd = n]
      /\ UNCHANGED <<alive, last, ev, done, value, destroys, returned>>
  BY DEF Enqueue
<1>1. \A u \in Threads : u = t
  BY DEF OneThread
<1>2. TypeOK /\ QueueInv /\ WaitsInv /\ LastInv /\ RecordInv /\ CallInv /\ RefsInv /\ LegacyOrder
      /\ WaitsUnlessOvertaken
  BY DEF IInv
<1>3. /\ Known(s) /\ Len(cmds) < MaxCmds /\ c.after \subseteq DOMAIN cmds
      /\ c.kind = "record" => c.event \in Events
      /\ c.kind = "wait" => c.event \in Events /\ IsRecord(c.rec, c.event) /\ cmds[c.rec].target = c.target
      /\ c.waits \subseteq DOMAIN cmds /\ Covered(c.after, c.waits)
  BY <1>0, <1>2 DEF CallInv
<1>4. c \in Calls /\ s \in AllStreams /\ thr \in [Threads -> Calls]
  BY <1>2 DEF TypeOK, Calls
<1>5. tg \in Nat /\ (c.kind = "record" => tg \in 1 .. n /\ tg = ev[c.event].target + 1)
  <2>1. CASE c.kind = "record"
    <3>1. ev[c.event].target \in Nat /\ ev[c.event].target <= Len(cmds) /\ Len(cmds) \in Nat
      BY <1>2, <1>3, <2>1 DEF TypeOK, RecordInv
    <3> QED BY <2>1, <3>1
  <2>2. CASE c.kind # "record"
    BY <1>4, <2>2 DEF Calls
  <2> QED BY <2>1, <2>2
<1> HIDE DEF tg
<1>6. r \in Cmds
  BY <1>4, <1>5 DEF Cmds, Calls
<1>7. /\ Len(cmds') = n /\ n \in Ids /\ n \in Nat \ {0}
      /\ DOMAIN cmds' = DOMAIN cmds \cup {n} /\ n \notin DOMAIN cmds
      /\ \A d \in DOMAIN cmds : cmds'[d] = cmds[d] /\ d < n /\ d \in Nat \ {0}
      /\ cmds' \in Seq(Cmds)
  BY <1>0, <1>2, <1>3, <1>6, CmdsAppend, CmdsType DEF Ids
<1>8. cmds'[n] = r
  BY <1>0, <1>2, <1>3, <1>6, CmdsAppend
<1>9. /\ cmds'[n].kind = c.kind /\ cmds'[n].stream = s /\ cmds'[n].event = c.event
      /\ cmds'[n].target = tg /\ cmds'[n].waits = c.waits /\ cmds'[n].after = c.after
      /\ cmds'[n].rec = c.rec
  BY <1>8
<1>10. /\ thr' \in [Threads -> Calls] /\ thr'[t].pc = (IF c.kind = "record" THEN "store" ELSE "last")
       /\ thr'[t].target = tg /\ thr'[t].cmd = n /\ thr'[t].stream = s /\ thr'[t].event = c.event
       /\ thr'[t].kind = c.kind
  <2> DEFINE x == [c EXCEPT !.pc = IF c.kind = "record" THEN "store" ELSE "last", !.target = tg, !.cmd = n]
  <2>1. x \in Calls
    BY <1>4, <1>5, <1>7 DEF Calls
  <2>2. thr' = [thr EXCEPT ![t] = x]
    BY <1>0, <1>4
  <2>3. /\ x.pc = (IF c.kind = "record" THEN "store" ELSE "last") /\ x.target = tg /\ x.cmd = n
        /\ x.stream = s /\ x.event = c.event /\ x.kind = c.kind
    BY <1>4 DEF Calls
  <2> HIDE DEF x
  <2> QED BY <1>4, <2>1, <2>2, <2>3
<1>11. queue \in [AllStreams -> Seq(Ids)] /\ queue[s] \in Seq(Ids)
  BY <1>2, <1>4 DEF TypeOK
<1>12. /\ queue' \in [AllStreams -> Seq(Ids)] /\ Len(queue'[s]) = Len(queue[s]) + 1
       /\ Len(queue[s]) \in Nat
       /\ DOMAIN queue[s] = 1 .. Len(queue[s]) /\ DOMAIN queue'[s] = 1 .. Len(queue[s]) + 1
       /\ queue'[s][Len(queue[s]) + 1] = n
       /\ \A i \in DOMAIN queue[s] : queue'[s][i] = queue[s][i]
       /\ \A q \in AllStreams : q # s => queue'[q] = queue[q]
  <2>1. queue'[s] = Append(queue[s], n) /\ \A q \in AllStreams : q # s => queue'[q] = queue[q]
    BY <1>0, <1>4, <1>11
  <2>2. queue' \in [AllStreams -> Seq(Ids)]
    <3>1. Append(queue[s], n) \in Seq(Ids)
      BY <1>7, <1>11
    <3> QED BY <1>0, <1>11, <3>1
  <2> HIDE DEF s, n
  <2> QED BY <1>7, <1>11, <2>1, <2>2
<1> HIDE DEF c, n, r, s
<1>13. TypeOK'
  <2>1. refs' \in [Ids -> Nat]
    BY <1>0, <1>2, <1>7 DEF TypeOK
  <2>2. Len(cmds') <= MaxCmds
    BY <1>7 DEF Ids
  <2> QED BY <1>0, <1>2, <1>7, <1>10, <1>12, <2>1, <2>2 DEF TypeOK
<1>14. QueueInv'
  <2>1. (done \subseteq DOMAIN cmds)'
    BY <1>0, <1>2, <1>7 DEF QueueInv
  <2>2. ASSUME NEW q \in AllStreams
        PROVE  /\ \A i \in DOMAIN queue'[q] :
                    queue'[q][i] \in DOMAIN cmds' \ done /\ cmds'[queue'[q][i]].stream = q
               /\ \A i, j \in DOMAIN queue'[q] : i < j => queue'[q][i] < queue'[q][j]
    <3>1. /\ \A i \in DOMAIN queue[q] :
               queue[q][i] \in DOMAIN cmds \ done /\ cmds[queue[q][i]].stream = q
          /\ \A i, j \in DOMAIN queue[q] : i < j => queue[q][i] < queue[q][j]
          /\ n \notin done
      BY <1>2, <1>7, <2>2 DEF QueueInv
    <3>2. CASE q # s
      BY <1>7, <1>12, <2>2, <3>1, <3>2
    <3>3. CASE q = s
      <4>1. \A i \in DOMAIN queue'[q] : (i \in DOMAIN queue[q] /\ queue'[q][i] = queue[q][i])
                                        \/ (i = Len(queue[s]) + 1 /\ queue'[q][i] = n)
        BY <1>12, <3>3
      <4>2. \A i \in DOMAIN queue'[q] : queue'[q][i] \in DOMAIN cmds' \ done /\ cmds'[queue'[q][i]].stream = q
        BY <1>7, <1>9, <3>1, <3>3, <4>1
      <4>3. ASSUME NEW i \in DOMAIN queue'[q], NEW j \in DOMAIN queue'[q], i < j
            PROVE  queue'[q][i] < queue'[q][j]
        <5>1. i \in DOMAIN queue[q] /\ queue'[q][i] = queue[q][i]
          BY <1>12, <3>3, <4>1, <4>3
        <5>2. CASE j \in DOMAIN queue[q] /\ queue'[q][j] = queue[q][j]
          BY <3>1, <4>3, <5>1, <5>2
        <5>3. CASE queue'[q][j] = n
          BY <1>7, <3>1, <5>1, <5>3
        <5> QED BY <4>1, <5>2, <5>3
      <4> QED BY <4>2, <4>3
    <3> QED BY <3>2, <3>3
  <2>3. ASSUME NEW d \in DOMAIN cmds', d \notin done
        PROVE  \E i \in DOMAIN queue'[cmds'[d].stream] : queue'[cmds'[d].stream][i] = d
    <3>1. CASE d = n
      <4>1. cmds'[d].stream = s /\ Len(queue[s]) + 1 \in DOMAIN queue'[s]
        BY <1>9, <1>12, <3>1
      <4> QED BY <1>12, <3>1, <4>1
    <3>2. CASE d \in DOMAIN cmds
      <4>1. PICK i \in DOMAIN queue[cmds[d].stream] : queue[cmds[d].stream][i] = d
        BY <1>2, <2>3, <3>2 DEF QueueInv
      <4>2. cmds'[d] = cmds[d] /\ cmds[d].stream \in AllStreams
        BY <1>2, <1>7, <3>2, CmdsType
      <4> QED BY <1>12, <4>1, <4>2
    <3> QED BY <1>7, <2>3, <3>1, <3>2
  <2>4. ASSUME NEW b \in DOMAIN cmds', NEW d \in DOMAIN cmds', b < d, cmds'[b].stream = cmds'[d].stream,
               d \in done
        PROVE  b \in done
    <3>1. d \in DOMAIN cmds
      BY <1>2, <2>4 DEF QueueInv
    <3>2. b \in DOMAIN cmds
      BY <1>7, <2>4, <3>1
    <3> QED BY <1>2, <1>7, <2>4, <3>1, <3>2 DEF QueueInv
  <2> QED BY <1>0, <2>1, <2>2, <2>3, <2>4 DEF QueueInv
<1>15. WaitsInv' /\ LegacyOrder'
  <2>1. ASSUME NEW d \in DOMAIN cmds
        PROVE  /\ cmds'[d].waits \subseteq 1 .. d - 1 /\ cmds'[d].after \subseteq 1 .. d - 1
               /\ \A b \in cmds'[d].after :
                    b \in done \/ \E g \in cmds'[d].waits : b <= g /\ cmds'[b].stream = cmds'[g].stream
    <3>1. /\ cmds[d].waits \subseteq 1 .. d - 1 /\ cmds[d].after \subseteq 1 .. d - 1
          /\ Covered(cmds[d].after, cmds[d].waits) /\ cmds'[d] = cmds[d]
      BY <1>2, <1>7, <2>1 DEF WaitsInv
    <3>2. 1 .. d - 1 \subseteq DOMAIN cmds
      BY <1>2, <2>1, CmdsType
    <3>3. \A b \in 1 .. d - 1 : cmds'[b] = cmds[b]
      BY <1>7, <3>2
    <3> QED BY <3>1, <3>3 DEF Covered
  <2>2. /\ cmds'[n].waits \subseteq 1 .. n - 1 /\ cmds'[n].after \subseteq 1 .. n - 1
        /\ \A b \in cmds'[n].after :
             b \in done \/ \E g \in cmds'[n].waits : b <= g /\ cmds'[b].stream = cmds'[g].stream
    <3>1. DOMAIN cmds \subseteq 1 .. n - 1
      BY <1>7
    <3>2. c.waits \subseteq 1 .. n - 1 /\ c.after \subseteq 1 .. n - 1
      BY <1>3, <3>1
    <3>3. \A b \in c.after \cup c.waits : cmds'[b] = cmds[b]
      BY <1>3, <1>7
    <3> QED BY <1>3, <1>9, <3>2, <3>3 DEF Covered
  <2>3. \A d \in done : cmds'[d] = cmds[d]
    BY <1>2, <1>7 DEF QueueInv
  <2>4. LegacyOrder'
    BY <1>0, <1>2, <2>3 DEF LegacyOrder
  <2>5. \A d \in DOMAIN cmds' :
          /\ cmds'[d].waits \subseteq 1 .. d - 1 /\ cmds'[d].after \subseteq 1 .. d - 1
          /\ \A b \in cmds'[d].after :
               b \in done \/ \E g \in cmds'[d].waits : b <= g /\ cmds'[b].stream = cmds'[g].stream
    BY <1>7, <2>1, <2>2
  <2> QED BY <1>0, <2>4, <2>5 DEF WaitsInv, Covered
<1>16. LastInv'
  <2>1. \A d \in returned : d \in DOMAIN cmds' /\ cmds'[d] = cmds[d]
    BY <1>2, <1>7 DEF LastInv
  <2>2. \A q \in Streams \ alive : queue'[q] = queue[q] /\ queue[q] = <<>>
    BY <1>0, <1>1, <1>2, <1>3, <1>12 DEF LastInv, Known, AllStreams, c, s
  <2> QED BY <1>0, <1>2, <2>1, <2>2 DEF LastInv
<1>17. \A d, e : IsRecord(d, e)' <=> IsRecord(d, e) \/ (d = n /\ c.kind = "record" /\ e = c.event)
  BY <1>7, <1>9 DEF IsRecord
<1>18. /\ \A d, e : IsRecord(d, e) => cmds'[d] = cmds[d] /\ d \in DOMAIN cmds /\ d < n
       /\ \A e : ~Storing(e) /\ (Storing(e)' <=> c.kind = "record" /\ e = c.event)
  BY <1>0, <1>1, <1>7, <1>10 DEF IsRecord, Storing, c
<1>19. RecordInv'
  <2>1. ASSUME NEW d \in DOMAIN cmds', cmds'[d].kind = "record"
        PROVE  /\ cmds'[d].event \in Events /\ cmds'[d].target \in 1 .. d
               /\ \A b \in DOMAIN cmds' : (IsRecord(b, cmds[d].event)' /\ d < b) => cmds'[d].target < cmds'[b].target
               /\ cmds'[d].target <= ev[cmds'[d].event].target
                                       + (IF c.kind = "record" /\ cmds'[d].event = c.event THEN 1 ELSE 0)
    <3> DEFINE e == cmds'[d].event
    <3>1. CASE d \in DOMAIN cmds
      <4>1. cmds'[d] = cmds[d] /\ cmds[d].kind = "record" /\ e = cmds[d].event
        BY <1>7, <2>1, <3>1
      <4>2. /\ e \in Events /\ cmds[d].target \in 1 .. d /\ cmds[d].target <= ev[e].target + 0
            /\ \A b \in DOMAIN cmds : IsRecord(b, e) /\ d < b => cmds[d].target < cmds[b].target
        BY <1>2, <1>18, <3>1, <4>1 DEF RecordInv
      <4>3. ev[e].target \in Nat /\ d \in Nat
        BY <1>2, <1>7, <3>1, <4>2 DEF TypeOK
      <4>4. ASSUME NEW b \in DOMAIN cmds', IsRecord(b, cmds[d].event)', d < b
            PROVE  cmds'[d].target < cmds'[b].target
        <5>1. IsRecord(b, e) \/ (b = n /\ c.kind = "record" /\ e = c.event)
          BY <1>7, <1>9, <4>4 DEF IsRecord
        <5>2. CASE IsRecord(b, e)
          BY <1>18, <4>1, <4>2, <4>4, <5>2
        <5>3. CASE b = n /\ c.kind = "record" /\ e = c.event
          <6>1. cmds'[b].target = ev[e].target + 1
            BY <1>5, <1>9, <5>3
          <6> QED BY <4>1, <4>2, <4>3, <6>1
        <5> QED BY <5>1, <5>2, <5>3
      <4>5. cmds'[d].target <= ev[e].target + (IF c.kind = "record" /\ e = c.event THEN 1 ELSE 0)
        <5> HIDE DEF e
        <5> QED BY <4>1, <4>2, <4>3
      <4> QED BY <4>1, <4>2, <4>4, <4>5
    <3>2. CASE d = n
      <4>1. c.kind = "record" /\ e = c.event /\ cmds'[d].target = tg /\ e \in Events
        BY <1>3, <1>9, <2>1, <3>2
      <4>2. tg \in 1 .. d /\ tg = ev[e].target + 1 /\ ev[e].target \in Nat
        BY <1>2, <1>5, <3>2, <4>1 DEF TypeOK
      <4>3. \A b \in DOMAIN cmds' : ~(d < b)
        BY <1>7, <3>2
      <4>4. cmds'[d].target <= ev[e].target + (IF c.kind = "record" /\ e = c.event THEN 1 ELSE 0)
        <5> HIDE DEF e
        <5> QED BY <4>1, <4>2
      <4> QED BY <4>1, <4>2, <4>3, <4>4
    <3> QED BY <1>7, <2>1, <3>1, <3>2
  <2>2. ASSUME NEW e \in Events
        PROVE  /\ ev[e].target <= Len(cmds')
               /\ ev[e].completion # NoEvent => ev[e].completion \in DOMAIN cmds'
               /\ ev[e].live /\ ev[e].recorded =>
                    IsRecord(ev[e].completion, e)' /\ cmds'[ev[e].completion].target = ev[e].target
               /\ value[e] > 0 => \E d \in done : IsRecord(d, e)' /\ cmds'[d].target = value[e]
    <3>1. /\ ev[e].target <= Len(cmds) /\ ev[e].target \in Nat /\ Len(cmds) \in Nat
          /\ ev[e].completion # NoEvent => ev[e].completion \in DOMAIN cmds
          /\ ev[e].live /\ ev[e].recorded =>
               IsRecord(ev[e].completion, e) /\ cmds[ev[e].completion].target = ev[e].target
          /\ value[e] > 0 => \E d \in done : IsRecord(d, e) /\ cmds[d].target = value[e]
      BY <1>2, <2>2 DEF RecordInv, TypeOK
    <3>2. ev[e].target <= Len(cmds')
      BY <1>7, <3>1 DEF n
    <3>3. ev[e].completion # NoEvent => ev[e].completion \in DOMAIN cmds'
      BY <1>7, <3>1
    <3>4. IsRecord(ev[e].completion, e) =>
            IsRecord(ev[e].completion, e)' /\ cmds'[ev[e].completion] = cmds[ev[e].completion]
      BY <1>0, <1>7 DEF IsRecord
    <3>5. value[e] > 0 => \E d \in done : IsRecord(d, e)' /\ cmds'[d].target = value[e]
      BY <1>17, <1>18, <3>1
    <3> QED BY <3>1, <3>2, <3>3, <3>4, <3>5
  <2>3. ASSUME NEW d \in DOMAIN cmds', cmds'[d].kind = "wait"
        PROVE  /\ cmds'[d].rec \in DOMAIN cmds' /\ cmds'[cmds'[d].rec].kind = "record"
               /\ cmds'[cmds'[d].rec].event = cmds'[d].event
               /\ cmds'[cmds'[d].rec].target = cmds'[d].target
    <3>1. CASE d \in DOMAIN cmds
      <4>1. cmds'[d] = cmds[d] /\ IsRecord(cmds[d].rec, cmds[d].event) /\ cmds[cmds[d].rec].target = cmds[d].target
        BY <1>2, <1>7, <2>3, <3>1 DEF RecordInv
      <4> QED BY <1>7, <4>1 DEF IsRecord
    <3>2. CASE d = n
      <4>1. c.kind = "wait" /\ IsRecord(c.rec, c.event) /\ cmds[c.rec].target = c.target /\ tg = c.target
        BY <1>3, <1>9, <2>3, <3>2 DEF tg
      <4> QED BY <1>7, <1>9, <3>2, <4>1 DEF IsRecord
    <3> QED BY <1>7, <2>3, <3>1, <3>2
  <2>4. \A e : (IF Storing(e)' THEN 1 ELSE 0) = (IF c.kind = "record" /\ e = c.event THEN 1 ELSE 0)
    BY <1>18
  <2>5. \A d \in DOMAIN cmds' : cmds'[d].kind = "record" =>
          /\ cmds'[d].event \in Events /\ cmds'[d].target \in 1 .. d
          /\ \A b \in DOMAIN cmds' : (IsRecord(b, cmds[d].event)' /\ d < b) => cmds'[d].target < cmds'[b].target
          /\ cmds'[d].target <= ev'[cmds'[d].event].target + (IF Storing(cmds[d].event)' THEN 1 ELSE 0)
    <3> SUFFICES ASSUME NEW d \in DOMAIN cmds', cmds'[d].kind = "record"
                 PROVE  cmds'[d].target <= ev'[cmds'[d].event].target + (IF Storing(cmds[d].event)' THEN 1 ELSE 0)
      BY <2>1
    <3>1. (IF Storing(cmds[d].event)' THEN 1 ELSE 0) = (IF c.kind = "record" /\ cmds'[d].event = c.event THEN 1 ELSE 0)
      BY <1>1, <1>10 DEF Storing
    <3> QED BY <1>0, <2>1, <3>1
  <2>6. (\A e \in Events :
           /\ ev[e].target <= Len(cmds)
           /\ ev[e].completion # NoEvent => ev[e].completion \in DOMAIN cmds
           /\ ev[e].live /\ ev[e].recorded =>
                IsRecord(ev[e].completion, e) /\ cmds[ev[e].completion].target = ev[e].target
           /\ value[e] > 0 => \E d \in done : IsRecord(d, e) /\ cmds[d].target = value[e])'
    BY <1>0, <2>2
  <2>7. (\A d \in DOMAIN cmds : cmds[d].kind = "wait" =>
           IsRecord(cmds[d].rec, cmds[d].event) /\ cmds[cmds[d].rec].target = cmds[d].target)'
    BY <2>3 DEF IsRecord
  <2> QED BY <2>5, <2>6, <2>7 DEF RecordInv
<1>20. CallInv'
  <2>1. thr'[t].pc \in {"store", "last"} /\ (thr'[t].pc = "store" => c.kind = "record")
    BY <1>10
  <2>2. Known(thr[t].stream)'
    BY <1>0, <1>3, <1>10 DEF Known
  <2>3. /\ thr'[t].cmd \in DOMAIN cmds' /\ thr'[t].cmd = Len(cmds') /\ cmds'[thr'[t].cmd].stream = thr'[t].stream
    BY <1>7, <1>9, <1>10
  <2>4. thr'[t].pc = "store" =>
          /\ cmds'[thr'[t].cmd].kind = "record" /\ cmds'[thr'[t].cmd].event = thr'[t].event
          /\ cmds'[thr'[t].cmd].target = thr'[t].target /\ thr'[t].event \in Events
          /\ thr'[t].target = ev'[thr'[t].event].target + 1
    <3> SUFFICES ASSUME c.kind = "record"
                 PROVE  /\ cmds'[n].kind = "record" /\ cmds'[n].event = c.event /\ cmds'[n].target = tg
                        /\ c.event \in Events /\ tg = ev'[c.event].target + 1
      BY <1>10, <2>1
    <3> QED BY <1>0, <1>3, <1>5, <1>9
  <2> QED BY <1>1, <2>1, <2>2, <2>3, <2>4 DEF CallInv, IsRecord
<1>21. RefsInv'
  <2> SUFFICES ASSUME NEW k \in Ids
               PROVE  refs'[k] = Cardinality({q \in AllStreams : last[q] = k})
                                   + Cardinality({e \in Events : ev[e].completion = k})
                                   + (IF \E u \in Threads : Carries(u, k)' THEN 1 ELSE 0)
    BY <1>0 DEF RefsInv
  <2>1. (\E u \in Threads : Carries(u, k)') <=> k = n
    BY <1>1, <1>10 DEF Carries
  <2>2. ~\E u \in Threads : Carries(u, k)
    BY <1>0, <1>1 DEF Carries, c
  <2>3. CASE k # n
    BY <1>0, <1>2, <2>1, <2>2, <2>3 DEF RefsInv, TypeOK
  <2>4. CASE k = n
    <3>1. {q \in AllStreams : last[q] = k} = {}
      BY <1>2, <1>7, <2>4 DEF LastInv, NoEvent
    <3>2. {e \in Events : ev[e].completion = k} = {}
      BY <1>2, <1>7, <2>4 DEF RecordInv, NoEvent
    <3>3. refs'[k] = 1
      BY <1>0, <1>2, <1>7, <2>4 DEF TypeOK
    <3>4. (IF \E u \in Threads : Carries(u, k)' THEN 1 ELSE 0) = 1
      BY <2>1, <2>4
    <3>5. /\ Cardinality({q \in AllStreams : last[q] = k}) = 0
          /\ Cardinality({e \in Events : ev[e].completion = k}) = 0
      BY <3>1, <3>2, FS_EmptySet
    <3> QED BY <3>3, <3>4, <3>5
  <2> QED BY <2>3, <2>4
<1>22. WaitsUnlessOvertaken'
  <2> SUFFICES ASSUME NEW d \in done, cmds'[d].kind = "wait", Overtakers(d)' = {}
               PROVE  cmds'[d].rec \in done
    BY <1>0 DEF WaitsUnlessOvertaken
  <2>1. d \in DOMAIN cmds /\ cmds'[d] = cmds[d]
    BY <1>2, <1>7 DEF QueueInv
  <2>2. cmds[d].rec \in DOMAIN cmds /\ cmds'[cmds[d].rec] = cmds[cmds[d].rec]
    BY <1>2, <1>7, <2>1 DEF RecordInv, IsRecord
  <2>3. Overtakers(d) \subseteq Overtakers(d)'
    BY <1>7, <2>1, <2>2 DEF Overtakers
  <2> QED BY <1>2, <2>1, <2>3 DEF WaitsUnlessOvertaken
<1> QED BY <1>13, <1>14, <1>15, <1>16, <1>19, <1>20, <1>21, <1>22 DEF IInv

-----------------------------------------------------------------------------
(* References to completion events, counted. *)

Same(a, b) == IF a = b THEN 1 ELSE 0

\* Those of S to which f gives k.
Holders(S, f, k) == {y \in S : f[y] = k}

\* The holders of an event when one of them takes another in its place.
LEMMA CountUpdate ==
  ASSUME NEW S, IsFiniteSet(S), NEW f, NEW g, NEW x \in S, \A y \in S : y # x => g[y] = f[y], NEW k
  PROVE  /\ Cardinality(Holders(S, f, k)) \in Nat
         /\ Cardinality(Holders(S, g, k)) = Cardinality(Holders(S, f, k)) - Same(f[x], k) + Same(g[x], k)
<1> DEFINE F == Holders(S, f, k)
           G == Holders(S, g, k)
<1>0. F = {y \in S : f[y] = k} /\ G = {y \in S : g[y] = k}
  BY DEF Holders
<1> HIDE DEF F, G
<1>1. IsFiniteSet(F) /\ IsFiniteSet(G)
  BY <1>0, FS_Subset
<1>2. Cardinality(F) \in Nat /\ Cardinality(G) \in Nat
  BY <1>1, FS_CardinalityType
<1>3. Cardinality(G) = Cardinality(F) - Same(f[x], k) + Same(g[x], k)
  <2>1. CASE f[x] = k /\ g[x] = k
    <3>1. F = G
      BY <1>0, <2>1
    <3> QED BY <1>2, <2>1, <3>1 DEF Same
  <2>2. CASE f[x] # k /\ g[x] # k
    <3>1. F = G
      BY <1>0, <2>2
    <3> QED BY <1>2, <2>2, <3>1 DEF Same
  <2>3. CASE f[x] # k /\ g[x] = k
    <3>1. G = F \cup {x} /\ x \notin F
      BY <1>0, <2>3
    <3>2. Cardinality(G) = Cardinality(F) + 1
      BY <1>1, <3>1, FS_AddElement
    <3> QED BY <1>2, <2>3, <3>2 DEF Same
  <2>4. CASE f[x] = k /\ g[x] # k
    <3>1. F = G \cup {x} /\ x \notin G
      BY <1>0, <2>4
    <3>2. Cardinality(F) = Cardinality(G) + 1
      BY <1>1, <3>1, FS_AddElement
    <3> QED BY <1>2, <2>4, <3>2 DEF Same
  <2> QED BY <2>1, <2>2, <2>3, <2>4
<1> QED BY <1>2, <1>3 DEF F, G

LEMMA StreamsFinite == IsFiniteSet(AllStreams)
  BY FiniteAssumption, FS_AddElement DEF AllStreams

LEMMA StreamCount ==
  ASSUME NEW x \in AllStreams, NEW y, last \in [AllStreams -> Ids \cup {NoEvent}],
         last' = [last EXCEPT ![x] = y], NEW k
  PROVE  /\ Cardinality({q \in AllStreams : last[q] = k}) \in Nat
         /\ Cardinality({q \in AllStreams : last'[q] = k})
              = Cardinality({q \in AllStreams : last[q] = k}) - Same(last[x], k) + Same(y, k)
<1>1. IsFiniteSet(AllStreams)
  BY StreamsFinite
<1>2. last'[x] = y /\ \A q \in AllStreams : q # x => last'[q] = last[q]
  OBVIOUS
<1>3. /\ Cardinality(Holders(AllStreams, last, k)) \in Nat
      /\ Cardinality(Holders(AllStreams, last', k))
           = Cardinality(Holders(AllStreams, last, k)) - Same(last[x], k) + Same(last'[x], k)
  <2> DEFINE f == last
             g == last'
  <2>1. \A q \in AllStreams : q # x => g[q] = f[q]
    BY <1>2
  <2> HIDE DEF f, g
  <2>2. /\ Cardinality(Holders(AllStreams, f, k)) \in Nat
        /\ Cardinality(Holders(AllStreams, g, k))
             = Cardinality(Holders(AllStreams, f, k)) - Same(f[x], k) + Same(g[x], k)
    BY <1>1, <2>1, CountUpdate
  <2> QED BY <2>2 DEF f, g
<1>4. /\ Holders(AllStreams, last, k) = {q \in AllStreams : last[q] = k}
      /\ Holders(AllStreams, last', k) = {q \in AllStreams : last'[q] = k}
  BY DEF Holders
<1> QED BY <1>2, <1>3, <1>4

LEMMA EventCount ==
  ASSUME NEW x \in Events, \A e \in Events : e # x => ev'[e] = ev[e], NEW k
  PROVE  /\ Cardinality({e \in Events : ev[e].completion = k}) \in Nat
         /\ Cardinality({e \in Events : ev'[e].completion = k})
              = Cardinality({e \in Events : ev[e].completion = k})
                  - Same(ev[x].completion, k) + Same(ev'[x].completion, k)
<1> DEFINE f == [e \in Events |-> ev[e].completion]
           g == [e \in Events |-> ev'[e].completion]
<1>1. \A e \in Events : f[e] = ev[e].completion /\ g[e] = ev'[e].completion
  OBVIOUS
<1>2. /\ Holders(Events, f, k) = {e \in Events : ev[e].completion = k}
      /\ Holders(Events, g, k) = {e \in Events : ev'[e].completion = k}
  BY <1>1 DEF Holders
<1>3. \A e \in Events : e # x => g[e] = f[e]
  BY <1>1
<1> HIDE DEF f, g
<1>4. /\ Cardinality(Holders(Events, f, k)) \in Nat
      /\ Cardinality(Holders(Events, g, k))
           = Cardinality(Holders(Events, f, k)) - Same(f[x], k) + Same(g[x], k)
  BY <1>3, FiniteAssumption, CountUpdate
<1> QED BY <1>1, <1>2, <1>4

\* vx_event_release and vx_event_retain.
LEMMA ReleaseAt ==
  ASSUME refs \in [Ids -> Nat], NEW c \in Ids \cup {NoEvent}
  PROVE  /\ Release(refs, c) \in [Ids -> Int]
         /\ \A k \in Ids : Release(refs, c)[k] = refs[k] - Same(c, k)
<1>1. CASE c = NoEvent
  BY <1>1 DEF Release, Same, Ids, NoEvent
<1>2. CASE c # NoEvent
  BY <1>2 DEF Release, Same
<1> QED BY <1>1, <1>2

LEMMA RetainAt ==
  ASSUME NEW r \in [Ids -> Int], NEW c \in Ids
  PROVE  /\ Retain(r, c) \in [Ids -> Int]
         /\ \A k \in Ids : Retain(r, c)[k] = r[k] + Same(c, k)
  BY DEF Retain, Same

\* The references are natural numbers, since each counts its holders.
LEMMA RefsType ==
  ASSUME TypeOK, RefsInv', DOMAIN refs' = Ids, refs' = [k \in Ids |-> refs'[k]]
  PROVE  refs' \in [Ids -> Nat]
<1> SUFFICES ASSUME NEW k \in Ids PROVE refs'[k] \in Nat
  OBVIOUS
<1> DEFINE A == {q \in AllStreams : last'[q] = k}
           B == {e \in Events : ev'[e].completion = k}
<1>1. IsFiniteSet(A) /\ IsFiniteSet(B)
  BY StreamsFinite, FiniteAssumption, FS_Subset
<1>2. Cardinality(A) \in Nat /\ Cardinality(B) \in Nat
  BY <1>1, FS_CardinalityType
<1>3. refs'[k] = Cardinality(A) + Cardinality(B) + (IF \E u \in Threads : Carries(u, k)' THEN 1 ELSE 0)
  BY DEF RefsInv
<1> HIDE DEF A, B
<1>4. CASE \E u \in Threads : Carries(u, k)'
  <2>1. refs'[k] = Cardinality(A) + Cardinality(B) + 1
    BY <1>3, <1>4
  <2> QED BY <1>2, <2>1
<1>5. CASE ~\E u \in Threads : Carries(u, k)'
  <2>1. refs'[k] = Cardinality(A) + Cardinality(B) + 0
    BY <1>3, <1>5
  <2> QED BY <1>2, <2>1
<1> QED BY <1>4, <1>5

-----------------------------------------------------------------------------
(* What the runtime keeps of a command. *)

\* Steps that leave the commands and the driver alone keep what is said of them.
LEMMA DriverKept ==
  ASSUME IInv, UNCHANGED drv
  PROVE  QueueInv' /\ WaitsInv' /\ LegacyOrder' /\ WaitsUnlessOvertaken'
  BY DEF IInv, drv, QueueInv, WaitsInv, Covered, LegacyOrder, WaitsUnlessOvertaken, Overtakers

\* grxEventRecord stores: the event has the latest record and its target.
LEMMA StoreStep == ASSUME OneThread, IInv, NEW t \in Threads, Store(t) PROVE IInv'
<1> DEFINE c == thr[t]
           e == c.event
           x == [ev[e] EXCEPT !.target = c.target, !.recorded = TRUE, !.completion = c.cmd]
<1>0. /\ c.pc = "store" /\ ev' = [ev EXCEPT ![e] = x]
      /\ refs' = Retain(Release(refs, ev[e].completion), c.cmd)
      /\ thr' = [thr EXCEPT ![t].pc = "last"]
      /\ UNCHANGED <<alive, last, drv, destroys, returned>>
  BY DEF Store
<1>1. \A u \in Threads : u = t
  BY DEF OneThread
<1>2. TypeOK /\ LastInv /\ RecordInv /\ CallInv /\ RefsInv
  BY DEF IInv
<1>3. /\ Known(c.stream) /\ c.cmd \in DOMAIN cmds /\ c.cmd = Len(cmds) /\ cmds[c.cmd].stream = c.stream
      /\ IsRecord(c.cmd, e) /\ cmds[c.cmd].target = c.target
      /\ e \in Events /\ c.target = ev[e].target + 1
  BY <1>0, <1>2 DEF CallInv
<1>4. /\ thr' \in [Threads -> Calls] /\ thr'[t].pc = "last" /\ thr'[t].cmd = c.cmd
      /\ thr'[t].stream = c.stream
  <2>1. thr \in [Threads -> Calls] /\ c \in Calls
    BY <1>2 DEF TypeOK
  <2>2. thr' = [thr EXCEPT ![t] = [c EXCEPT !.pc = "last"]]
    BY <1>0, <2>1
  <2>3. [c EXCEPT !.pc = "last"] \in Calls
    BY <2>1 DEF Calls
  <2> QED BY <2>1, <2>2, <2>3 DEF Calls
<1>5. c.cmd \in Ids /\ c.target \in 1 .. c.cmd /\ c.cmd \in 1 .. MaxCmds
  <2>1. cmds[c.cmd].target \in 1 .. c.cmd
    BY <1>2, <1>3 DEF RecordInv, IsRecord
  <2> HIDE DEF c, e
  <2> QED BY <1>2, <1>3, <2>1, CmdsType DEF Ids
<1>6. /\ ev[e] \in [live : BOOLEAN, target : 0 .. MaxCmds, recorded : BOOLEAN, completion : Ids \cup {NoEvent}]
      /\ ev \in [Events -> [live : BOOLEAN, target : 0 .. MaxCmds, recorded : BOOLEAN,
                            completion : Ids \cup {NoEvent}]]
  BY <1>2, <1>3 DEF TypeOK
<1>7. /\ x \in [live : BOOLEAN, target : 0 .. MaxCmds, recorded : BOOLEAN, completion : Ids \cup {NoEvent}]
      /\ x.target = c.target /\ x.completion = c.cmd /\ x.recorded = TRUE
  <2>1. c.target \in 0 .. MaxCmds /\ c.cmd \in Ids
    BY <1>5
  <2> HIDE DEF c, e
  <2> QED BY <1>6, <2>1
<1>8. /\ ev' \in [Events -> [live : BOOLEAN, target : 0 .. MaxCmds, recorded : BOOLEAN,
                             completion : Ids \cup {NoEvent}]]
      /\ ev'[e] = x /\ \A y \in Events : y # e => ev'[y] = ev[y]
  <2> HIDE DEF x
  <2> QED BY <1>0, <1>3, <1>6, <1>7
<1> HIDE DEF c, e, x
<1>9. /\ refs' \in [Ids -> Int]
      /\ \A k \in Ids : refs'[k] = refs[k] - Same(ev[e].completion, k) + Same(c.cmd, k)
  <2>1. refs \in [Ids -> Nat] /\ ev[e].completion \in Ids \cup {NoEvent}
    BY <1>2, <1>6 DEF TypeOK
  <2>2. /\ Release(refs, ev[e].completion) \in [Ids -> Int]
        /\ \A k \in Ids : Release(refs, ev[e].completion)[k] = refs[k] - Same(ev[e].completion, k)
    BY <2>1, ReleaseAt
  <2> QED BY <1>0, <1>5, <2>2, RetainAt
<1>10. RefsInv'
  <2> SUFFICES ASSUME NEW k \in Ids
               PROVE  refs'[k] = Cardinality({q \in AllStreams : last[q] = k})
                                   + Cardinality({y \in Events : ev'[y].completion = k})
                                   + (IF \E u \in Threads : Carries(u, k)' THEN 1 ELSE 0)
    BY <1>0 DEF RefsInv
  <2> DEFINE A == Cardinality({q \in AllStreams : last[q] = k})
             B == Cardinality({y \in Events : ev[y].completion = k})
             D == Cardinality({y \in Events : ev'[y].completion = k})
             H == IF \E u \in Threads : Carries(u, k) THEN 1 ELSE 0
             J == IF \E u \in Threads : Carries(u, k)' THEN 1 ELSE 0
  <2>1. refs[k] = A + B + H
    BY <1>2 DEF RefsInv
  <2>2. D = B - Same(ev[e].completion, k) + Same(c.cmd, k) /\ B \in Nat
    <3>1. ev'[e].completion = c.cmd
      BY <1>7, <1>8
    <3> QED BY <1>3, <1>8, <3>1, EventCount
  <2>3. J = H
    BY <1>0, <1>1, <1>4 DEF Carries, c
  <2>4. A \in Nat
    BY StreamsFinite, FS_Subset, FS_CardinalityType
  <2>5. H \in Nat /\ Same(ev[e].completion, k) \in Int /\ Same(c.cmd, k) \in Int
    BY DEF Same
  <2> HIDE DEF A, B, D, H, J
  <2>6. refs'[k] = A + D + J
    BY <1>9, <2>1, <2>2, <2>3, <2>4, <2>5
  <2> QED BY <2>6 DEF A, D, J
<1>11. TypeOK'
  <2>1. refs' \in [Ids -> Nat]
    BY <1>2, <1>9, <1>10, RefsType
  <2> QED BY <1>0, <1>2, <1>4, <1>8, <2>1 DEF TypeOK, drv
<1>12. LastInv'
  BY <1>0, <1>1, <1>2, <1>4 DEF LastInv, drv, c
<1>13. RecordInv'
  <2>1. \A y : (Storing(y) <=> y = e) /\ ~Storing(y)'
    BY <1>0, <1>1, <1>4 DEF Storing, c, e
  <2>2. UNCHANGED <<cmds, done, value>>
    BY <1>0 DEF drv
  <2>3. ASSUME NEW d \in DOMAIN cmds, cmds[d].kind = "record"
        PROVE  cmds[d].target <= ev'[cmds[d].event].target + 0
    <3>1. /\ cmds[d].event \in Events /\ cmds[d].target \in Nat
          /\ cmds[d].target <= ev[cmds[d].event].target + (IF Storing(cmds[d].event) THEN 1 ELSE 0)
      BY <1>2, <2>3, CmdsType DEF RecordInv
    <3>2. CASE cmds[d].event = e
      <4>1. cmds[d].target <= ev[e].target + 1
        BY <2>1, <3>1, <3>2
      <4>2. ev'[e].target = ev[e].target + 1 /\ ev[e].target \in Nat
        BY <1>3, <1>6, <1>7, <1>8
      <4> QED BY <3>1, <3>2, <4>1, <4>2
    <3>3. CASE cmds[d].event # e
      BY <1>8, <2>1, <3>1, <3>3
    <3> QED BY <3>2, <3>3
  <2>4. ASSUME NEW y \in Events
        PROVE  /\ ev'[y].target <= Len(cmds)
               /\ ev'[y].completion # NoEvent => ev'[y].completion \in DOMAIN cmds
               /\ ev'[y].live /\ ev'[y].recorded =>
                    IsRecord(ev'[y].completion, y) /\ cmds[ev'[y].completion].target = ev'[y].target
    <3>1. CASE y = e
      BY <1>3, <1>5, <1>7, <1>8, <3>1
    <3>2. CASE y # e
      BY <1>2, <1>8, <2>4, <3>2 DEF RecordInv
    <3> QED BY <3>1, <3>2
  <2>5. \A d \in DOMAIN cmds : cmds[d].kind = "record" =>
          /\ cmds[d].event \in Events /\ cmds[d].target \in 1 .. d
          /\ \A b \in DOMAIN cmds : IsRecord(b, cmds[d].event) /\ d < b => cmds[d].target < cmds[b].target
          /\ cmds[d].target <= ev'[cmds[d].event].target + 0
    BY <1>2, <2>3 DEF RecordInv
  <2>6. /\ \A y \in Events : value[y] > 0 => \E d \in done : IsRecord(d, y) /\ cmds[d].target = value[y]
        /\ \A d \in DOMAIN cmds : cmds[d].kind = "wait" =>
             IsRecord(cmds[d].rec, cmds[d].event) /\ cmds[cmds[d].rec].target = cmds[d].target
    BY <1>2 DEF RecordInv
  <2> QED BY <2>1, <2>2, <2>4, <2>5, <2>6 DEF RecordInv, IsRecord
<1>14. CallInv'
  BY <1>0, <1>1, <1>3, <1>4 DEF CallInv, Known, drv
<1>15. UNCHANGED drv
  BY <1>0
<1> QED BY <1>10, <1>11, <1>12, <1>13, <1>14, <1>15, DriverKept DEF IInv

\* set_stream_last_event(): the stream is there, and what it is given is its newest.
LEMMA SetLastStep == ASSUME OneThread, IInv, NEW t \in Threads, SetLast(t) PROVE IInv'
<1> DEFINE c == thr[t]
           s == c.stream
           n == c.cmd
<1>1. \A u \in Threads : u = t
  BY DEF OneThread
<1>2. TypeOK /\ LastInv /\ RecordInv /\ CallInv /\ RefsInv
  BY DEF IInv
<1>3. c.pc = "last" /\ Known(s) /\ n \in DOMAIN cmds /\ n = Len(cmds) /\ cmds[n].stream = s
  BY <1>2 DEF SetLast, CallInv
<1>4. /\ last' = [last EXCEPT ![s] = n] /\ refs' = Release(refs, last[s])
      /\ returned' = returned \cup {n} /\ thr' = [thr EXCEPT ![t] = NoCall]
      /\ UNCHANGED <<alive, ev, drv, destroys>>
  BY <1>3 DEF SetLast
<1>5. s \in AllStreams /\ n \in Ids /\ last \in [AllStreams -> Ids \cup {NoEvent}] /\ n # NoEvent
  BY <1>2, <1>3, CmdsType DEF TypeOK, Calls, Ids, NoEvent
<1>6. thr' \in [Threads -> Calls] /\ thr'[t].pc = "idle"
  BY <1>2, <1>4, NoCallType DEF TypeOK
<1>7. c.pc = "last" /\ c.cmd = n
  BY <1>3
<1> HIDE DEF c, s, n
<1>8. /\ last' \in [AllStreams -> Ids \cup {NoEvent}] /\ last'[s] = n
      /\ \A q \in AllStreams : q # s => last'[q] = last[q]
  BY <1>4, <1>5
<1>9. /\ refs' \in [Ids -> Int]
      /\ \A k \in Ids : refs'[k] = refs[k] - Same(last[s], k)
  <2>1. refs \in [Ids -> Nat] /\ last[s] \in Ids \cup {NoEvent}
    BY <1>2, <1>5 DEF TypeOK
  <2> QED BY <1>4, <2>1, ReleaseAt
<1>10. RefsInv'
  <2> SUFFICES ASSUME NEW k \in Ids
               PROVE  refs'[k] = Cardinality({q \in AllStreams : last'[q] = k})
                                   + Cardinality({y \in Events : ev[y].completion = k})
                                   + (IF \E u \in Threads : Carries(u, k)' THEN 1 ELSE 0)
    BY <1>4 DEF RefsInv
  <2> DEFINE A == Cardinality({q \in AllStreams : last[q] = k})
             B == Cardinality({y \in Events : ev[y].completion = k})
             D == Cardinality({q \in AllStreams : last'[q] = k})
             H == IF \E u \in Threads : Carries(u, k) THEN 1 ELSE 0
             J == IF \E u \in Threads : Carries(u, k)' THEN 1 ELSE 0
  <2>1. refs[k] = A + B + H
    BY <1>2 DEF RefsInv
  <2>2. D = A - Same(last[s], k) + Same(n, k) /\ A \in Nat
    BY <1>4, <1>5, StreamCount
  <2>3. J = 0 /\ H = Same(n, k)
    BY <1>1, <1>6, <1>7 DEF Carries, Same, c
  <2>4. B \in Nat
    BY FiniteAssumption, FS_Subset, FS_CardinalityType
  <2>5. Same(last[s], k) \in Int /\ Same(n, k) \in Int
    BY DEF Same
  <2> HIDE DEF A, B, D, H, J
  <2>6. refs'[k] = D + B + J
    BY <1>9, <2>1, <2>2, <2>3, <2>4, <2>5
  <2> QED BY <2>6 DEF B, D, J
<1>11. TypeOK'
  <2>1. refs' \in [Ids -> Nat]
    BY <1>2, <1>9, <1>10, RefsType
  <2> QED BY <1>2, <1>4, <1>5, <1>6, <1>8, <2>1 DEF TypeOK, drv
<1>12. LastInv'
  <2>1. UNCHANGED <<cmds, done, queue, alive>>
    BY <1>4 DEF drv
  <2>2. returned' \subseteq DOMAIN cmds
    BY <1>2, <1>3, <1>4 DEF LastInv, n
  <2>3. \A q \in AllStreams : last'[q] # NoEvent => last'[q] \in returned' /\ cmds[last'[q]].stream = q
    BY <1>2, <1>3, <1>4, <1>8 DEF LastInv
  <2>4. ASSUME NEW d \in returned'
        PROVE  d \in done \/ (last'[cmds[d].stream] # NoEvent /\ d <= last'[cmds[d].stream])
    <3>1. d \in DOMAIN cmds /\ cmds[d].stream \in AllStreams /\ d \in Nat /\ d <= Len(cmds)
      BY <1>2, <2>2, <2>4, CmdsType
    <3>2. CASE cmds[d].stream = s
      BY <1>3, <1>5, <1>8, <3>1, <3>2
    <3>3. CASE cmds[d].stream # s
      <4>1. d # n
        BY <1>3, <3>3
      <4> QED BY <1>2, <1>4, <1>8, <2>4, <3>1, <3>3, <4>1 DEF LastInv
    <3> QED BY <3>2, <3>3
  <2>5. \A q \in Streams \ alive : queue[q] = <<>>
    BY <1>1, <1>2, <1>7 DEF LastInv, c
  <2> QED BY <2>1, <2>2, <2>3, <2>4, <2>5 DEF LastInv
<1>13. RecordInv'
  <2>1. \A y : (Storing(y) <=> FALSE) /\ (Storing(y)' <=> FALSE)
    BY <1>1, <1>6, <1>7 DEF Storing, c
  <2> QED BY <1>2, <1>4, <2>1 DEF RecordInv, IsRecord, drv
<1>14. CallInv'
  BY <1>1, <1>6 DEF CallInv
<1>15. UNCHANGED drv
  BY <1>4
<1> QED BY <1>10, <1>11, <1>12, <1>13, <1>14, <1>15, DriverKept DEF IInv

\* destroy_stream() ends: the stream's queue is empty, so its last event may go.
LEMMA DestroyStreamEndStep == ASSUME OneThread, IInv, NEW t \in Threads, DestroyStreamEnd(t) PROVE IInv'
<1> DEFINE s == thr[t].stream
<1>1. \A u \in Threads : u = t
  BY DEF OneThread
<1>2. TypeOK /\ QueueInv /\ LastInv /\ RecordInv /\ CallInv /\ RefsInv
  BY DEF IInv
<1>3. thr[t].pc = "destroy" /\ queue[s] = <<>> /\ s \in Streams \ alive
  BY <1>2 DEF DestroyStreamEnd, CallInv
<1>4. /\ last' = [last EXCEPT ![s] = NoEvent] /\ refs' = Release(refs, last[s])
      /\ thr' = [thr EXCEPT ![t] = NoCall]
      /\ UNCHANGED <<alive, ev, drv, destroys, returned>>
  BY DEF DestroyStreamEnd
<1>5. s \in AllStreams /\ last \in [AllStreams -> Ids \cup {NoEvent}]
  BY <1>2, <1>3 DEF TypeOK, AllStreams
<1>6. thr' \in [Threads -> Calls] /\ thr'[t].pc = "idle"
  BY <1>2, <1>4, NoCallType DEF TypeOK
<1> HIDE DEF s
<1>8. /\ last' \in [AllStreams -> Ids \cup {NoEvent}] /\ last'[s] = NoEvent
      /\ \A q \in AllStreams : q # s => last'[q] = last[q]
  BY <1>4, <1>5
<1>9. /\ refs' \in [Ids -> Int]
      /\ \A k \in Ids : refs'[k] = refs[k] - Same(last[s], k)
  <2>1. refs \in [Ids -> Nat] /\ last[s] \in Ids \cup {NoEvent}
    BY <1>2, <1>5 DEF TypeOK
  <2> QED BY <1>4, <2>1, ReleaseAt
<1>10. RefsInv'
  <2> SUFFICES ASSUME NEW k \in Ids
               PROVE  refs'[k] = Cardinality({q \in AllStreams : last'[q] = k})
                                   + Cardinality({y \in Events : ev[y].completion = k})
                                   + (IF \E u \in Threads : Carries(u, k)' THEN 1 ELSE 0)
    BY <1>4 DEF RefsInv
  <2> DEFINE A == Cardinality({q \in AllStreams : last[q] = k})
             B == Cardinality({y \in Events : ev[y].completion = k})
             D == Cardinality({q \in AllStreams : last'[q] = k})
             H == IF \E u \in Threads : Carries(u, k) THEN 1 ELSE 0
             J == IF \E u \in Threads : Carries(u, k)' THEN 1 ELSE 0
  <2>1. refs[k] = A + B + H
    BY <1>2 DEF RefsInv
  <2>2. D = A - Same(last[s], k) + Same(NoEvent, k) /\ A \in Nat
    BY <1>4, <1>5, StreamCount
  <2>3. J = 0 /\ H = 0
    BY <1>1, <1>3, <1>6 DEF Carries
  <2>4. B \in Nat
    BY FiniteAssumption, FS_Subset, FS_CardinalityType
  <2>5. Same(last[s], k) \in Int /\ Same(NoEvent, k) = 0
    BY DEF Same, NoEvent, Ids
  <2> HIDE DEF A, B, D, H, J
  <2>6. refs'[k] = D + B + J
    BY <1>9, <2>1, <2>2, <2>3, <2>4, <2>5
  <2> QED BY <2>6 DEF B, D, J
<1>11. TypeOK'
  <2>1. refs' \in [Ids -> Nat]
    BY <1>2, <1>9, <1>10, RefsType
  <2> QED BY <1>2, <1>4, <1>5, <1>6, <1>8, <2>1 DEF TypeOK, drv
<1>12. LastInv'
  <2>1. UNCHANGED <<cmds, done, queue, alive, returned>>
    BY <1>4 DEF drv
  <2>2. \A q \in AllStreams : last'[q] # NoEvent => last'[q] \in returned /\ cmds[last'[q]].stream = q
    BY <1>2, <1>8 DEF LastInv
  <2>3. ASSUME NEW d \in returned
        PROVE  d \in done \/ (last'[cmds[d].stream] # NoEvent /\ d <= last'[cmds[d].stream])
    <3>1. d \in DOMAIN cmds /\ cmds[d].stream \in AllStreams
      BY <1>2, <2>3, CmdsType DEF LastInv
    <3>2. CASE cmds[d].stream = s
      BY <1>2, <1>3, <1>5, <3>1, <3>2, EmptyQueue
    <3>3. CASE cmds[d].stream # s
      BY <1>2, <1>8, <2>3, <3>1, <3>3 DEF LastInv
    <3> QED BY <3>2, <3>3
  <2>4. \A q \in Streams \ alive : queue[q] = <<>>
    BY <1>1, <1>2, <1>3 DEF LastInv, s
  <2> QED BY <1>2, <2>1, <2>2, <2>3, <2>4 DEF LastInv
<1>13. RecordInv'
  <2>1. \A y : (Storing(y) <=> FALSE) /\ (Storing(y)' <=> FALSE)
    BY <1>1, <1>3, <1>6 DEF Storing
  <2> QED BY <1>2, <1>4, <2>1 DEF RecordInv, IsRecord, drv
<1>14. CallInv'
  BY <1>1, <1>6 DEF CallInv
<1>15. UNCHANGED drv
  BY <1>4
<1> QED BY <1>10, <1>11, <1>12, <1>13, <1>14, <1>15, DriverKept DEF IInv

-----------------------------------------------------------------------------
(* Streams and events come and go. *)

\* grxEventDestroy(): the reference on its latest record goes with it.
LEMMA DestroyEventStep ==
  ASSUME OneThread, IInv, NEW t \in Threads, NEW e \in Events, DestroyEvent(t, e)
  PROVE  IInv'
<1> DEFINE x == [ev[e] EXCEPT !.live = FALSE, !.completion = NoEvent]
<1>0. /\ thr[t].pc = "idle" /\ ev' = [ev EXCEPT ![e] = x]
      /\ refs' = Release(refs, ev[e].completion)
      /\ destroys < MaxDestroys /\ destroys' = destroys + 1
      /\ UNCHANGED <<alive, last, thr, drv, returned>>
  BY DEF DestroyEvent, Idle
<1>1. \A u \in Threads : u = t
  BY DEF OneThread
<1>2. TypeOK /\ LastInv /\ RecordInv /\ CallInv /\ RefsInv
  BY DEF IInv
<1>3. /\ ev[e] \in [live : BOOLEAN, target : 0 .. MaxCmds, recorded : BOOLEAN, completion : Ids \cup {NoEvent}]
      /\ ev \in [Events -> [live : BOOLEAN, target : 0 .. MaxCmds, recorded : BOOLEAN,
                            completion : Ids \cup {NoEvent}]]
  BY <1>2 DEF TypeOK
<1>4. /\ x \in [live : BOOLEAN, target : 0 .. MaxCmds, recorded : BOOLEAN, completion : Ids \cup {NoEvent}]
      /\ x.target = ev[e].target /\ x.completion = NoEvent /\ x.live = FALSE
  BY <1>3
<1> HIDE DEF x
<1>5. /\ ev' \in [Events -> [live : BOOLEAN, target : 0 .. MaxCmds, recorded : BOOLEAN,
                             completion : Ids \cup {NoEvent}]]
      /\ ev'[e] = x /\ \A y \in Events : y # e => ev'[y] = ev[y]
  BY <1>0, <1>3, <1>4
<1>6. /\ refs' \in [Ids -> Int]
      /\ \A k \in Ids : refs'[k] = refs[k] - Same(ev[e].completion, k)
  <2>1. refs \in [Ids -> Nat] /\ ev[e].completion \in Ids \cup {NoEvent}
    BY <1>2, <1>3 DEF TypeOK
  <2> QED BY <1>0, <2>1, ReleaseAt
<1>7. RefsInv'
  <2> SUFFICES ASSUME NEW k \in Ids
               PROVE  refs'[k] = Cardinality({q \in AllStreams : last[q] = k})
                                   + Cardinality({y \in Events : ev'[y].completion = k})
                                   + (IF \E u \in Threads : Carries(u, k)' THEN 1 ELSE 0)
    BY <1>0 DEF RefsInv
  <2> DEFINE A == Cardinality({q \in AllStreams : last[q] = k})
             B == Cardinality({y \in Events : ev[y].completion = k})
             D == Cardinality({y \in Events : ev'[y].completion = k})
             H == IF \E u \in Threads : Carries(u, k) THEN 1 ELSE 0
             J == IF \E u \in Threads : Carries(u, k)' THEN 1 ELSE 0
  <2>1. refs[k] = A + B + H
    BY <1>2 DEF RefsInv
  <2>2. D = B - Same(ev[e].completion, k) + Same(NoEvent, k) /\ B \in Nat
    <3>1. ev'[e].completion = NoEvent
      BY <1>4, <1>5
    <3> QED BY <1>5, <3>1, EventCount
  <2>3. J = 0 /\ H = 0
    BY <1>0, <1>1 DEF Carries
  <2>4. A \in Nat
    BY StreamsFinite, FS_Subset, FS_CardinalityType
  <2>5. Same(ev[e].completion, k) \in Int /\ Same(NoEvent, k) = 0
    BY DEF Same, NoEvent, Ids
  <2> HIDE DEF A, B, D, H, J
  <2>6. refs'[k] = A + D + J
    BY <1>6, <2>1, <2>2, <2>3, <2>4, <2>5
  <2> QED BY <2>6 DEF A, D, J
<1>8. TypeOK'
  <2>1. refs' \in [Ids -> Nat]
    BY <1>2, <1>6, <1>7, RefsType
  <2>2. destroys' \in 0 .. MaxDestroys
    BY <1>0, <1>2 DEF TypeOK
  <2> QED BY <1>0, <1>2, <1>5, <2>1, <2>2 DEF TypeOK, drv
<1>9. LastInv'
  BY <1>0, <1>2 DEF LastInv, drv
<1>10. RecordInv'
  <2>1. \A y : (Storing(y) <=> FALSE) /\ (Storing(y)' <=> FALSE)
    BY <1>0, <1>1 DEF Storing
  <2>2. UNCHANGED <<cmds, done, value>>
    BY <1>0 DEF drv
  <2>3. \A y \in Events : ev'[y].target = ev[y].target
    BY <1>4, <1>5
  <2>4. ASSUME NEW y \in Events
        PROVE  /\ ev'[y].target <= Len(cmds)
               /\ ev'[y].completion # NoEvent => ev'[y].completion \in DOMAIN cmds
               /\ ev'[y].live /\ ev'[y].recorded =>
                    IsRecord(ev'[y].completion, y) /\ cmds[ev'[y].completion].target = ev'[y].target
    <3>1. CASE y = e
      BY <1>2, <1>4, <1>5, <2>3, <3>1 DEF RecordInv
    <3>2. CASE y # e
      BY <1>2, <1>5, <2>4, <3>2 DEF RecordInv
    <3> QED BY <3>1, <3>2
  <2>5. \A d \in DOMAIN cmds : cmds[d].kind = "record" =>
          /\ cmds[d].event \in Events /\ cmds[d].target \in 1 .. d
          /\ \A b \in DOMAIN cmds : IsRecord(b, cmds[d].event) /\ d < b => cmds[d].target < cmds[b].target
          /\ cmds[d].target <= ev'[cmds[d].event].target + 0
    BY <1>2, <2>1, <2>3 DEF RecordInv
  <2>6. /\ \A y \in Events : value[y] > 0 => \E d \in done : IsRecord(d, y) /\ cmds[d].target = value[y]
        /\ \A d \in DOMAIN cmds : cmds[d].kind = "wait" =>
             IsRecord(cmds[d].rec, cmds[d].event) /\ cmds[cmds[d].rec].target = cmds[d].target
    BY <1>2 DEF RecordInv
  <2> QED BY <2>1, <2>2, <2>4, <2>5, <2>6 DEF RecordInv, IsRecord
<1>11. CallInv'
  BY <1>0, <1>1 DEF CallInv
<1>12. UNCHANGED drv
  BY <1>0
<1> QED BY <1>7, <1>8, <1>9, <1>10, <1>11, <1>12, DriverKept DEF IInv

LEMMA StreamsComeAndGo ==
  ASSUME OneThread, IInv, NEW t \in Threads, NEW s \in Streams,
         CreateStream(t, s) \/ DestroyStream(t, s)
  PROVE  IInv'
<1>0. /\ thr[t].pc = "idle" /\ UNCHANGED <<last, ev, drv, refs, returned>>
  BY DEF CreateStream, DestroyStream, Idle
<1>1. \A u \in Threads : u = t
  BY DEF OneThread
<1>2. TypeOK /\ LastInv /\ RecordInv /\ CallInv /\ RefsInv
  BY DEF IInv
<1>3. /\ TypeOK' /\ thr' \in [Threads -> Calls]
      /\ thr'[t].pc \in {"idle", "destroy"} /\ (thr'[t].pc = "destroy" => thr'[t].stream = s)
      /\ \A q \in Streams \ alive' : q \in Streams \ alive \/ (q = s /\ thr'[t].pc = "destroy")
      /\ thr'[t].pc = "destroy" => s \notin alive'
  <2>1. CASE CreateStream(t, s)
    BY <1>0, <1>2, <2>1 DEF CreateStream, TypeOK, drv
  <2>2. CASE DestroyStream(t, s)
    <3>1. /\ destroys < MaxDestroys /\ destroys' = destroys + 1 /\ alive' = alive \ {s}
          /\ thr' = [thr EXCEPT ![t].pc = "destroy", ![t].stream = s]
      BY <2>2 DEF DestroyStream
    <3>2. thr \in [Threads -> Calls] /\ thr[t] \in Calls
      BY <1>2 DEF TypeOK
    <3>3. thr' \in [Threads -> Calls] /\ thr'[t].pc = "destroy" /\ thr'[t].stream = s
      BY <3>1, <3>2 DEF Calls, AllStreams
    <3>4. destroys' \in 0 .. MaxDestroys
      BY <1>2, <3>1 DEF TypeOK
    <3>5. TypeOK'
      BY <1>0, <1>2, <3>1, <3>3, <3>4 DEF TypeOK, drv
    <3> QED BY <3>1, <3>3, <3>5
  <2> QED BY <2>1, <2>2
<1>4. LastInv'
  <2>1. \A q \in Streams \ alive' : queue[q] = <<>> \/ (thr'[t].pc = "destroy" /\ thr'[t].stream = q)
    BY <1>0, <1>1, <1>2, <1>3 DEF LastInv
  <2> QED BY <1>0, <1>2, <2>1 DEF LastInv, drv
<1>5. RecordInv'
  <2>1. \A y : (Storing(y) <=> FALSE) /\ (Storing(y)' <=> FALSE)
    BY <1>0, <1>1, <1>3 DEF Storing
  <2> QED BY <1>0, <1>2, <2>1 DEF RecordInv, IsRecord, drv
<1>6. CallInv'
  BY <1>1, <1>3 DEF CallInv
<1>7. RefsInv'
  <2>1. \A c : (\E u \in Threads : Carries(u, c)) <=> (\E u \in Threads : Carries(u, c))'
    BY <1>0, <1>1, <1>3 DEF Carries
  <2> QED BY <1>0, <1>2, <2>1 DEF RefsInv
<1>8. UNCHANGED drv
  BY <1>0
<1> QED BY <1>3, <1>4, <1>5, <1>6, <1>7, <1>8, DriverKept DEF IInv

-----------------------------------------------------------------------------
(* The worker of a queue runs its head. *)

LEMMA RunStep == ASSUME IInv, NEW s \in AllStreams, Run(s) PROVE IInv'
<1> DEFINE n == Head(queue[s])
           L == Len(queue[s])
<1>0. /\ queue[s] # <<>> /\ cmds[n].waits \subseteq done
      /\ cmds[n].kind = "wait" => value[cmds[n].event] >= cmds[n].target
      /\ done' = done \cup {n}
      /\ value' = IF cmds[n].kind = "record" /\ value[cmds[n].event] < cmds[n].target
                  THEN [value EXCEPT ![cmds[n].event] = cmds[n].target] ELSE value
      /\ queue' = [queue EXCEPT ![s] = Tail(queue[s])]
      /\ UNCHANGED <<alive, last, ev, thr, cmds, refs, destroys, returned>>
  BY DEF Run, CanRun
<1>1. TypeOK /\ QueueInv /\ WaitsInv /\ LastInv /\ RecordInv /\ CallInv /\ RefsInv /\ LegacyOrder
      /\ WaitsUnlessOvertaken
  BY DEF IInv
<1>2. queue \in [AllStreams -> Seq(Ids)] /\ queue[s] \in Seq(Ids)
  BY <1>1 DEF TypeOK
<1>3. /\ L \in Nat \ {0} /\ DOMAIN queue[s] = 1 .. L /\ n = queue[s][1] /\ 1 \in DOMAIN queue[s]
      /\ Tail(queue[s]) \in Seq(Ids) /\ DOMAIN Tail(queue[s]) = 1 .. L - 1
      /\ \A i \in 1 .. L - 1 : Tail(queue[s])[i] = queue[s][i + 1] /\ i + 1 \in 1 .. L /\ 1 < i + 1
  BY <1>0, <1>2
<1>4. /\ queue' \in [AllStreams -> Seq(Ids)] /\ DOMAIN queue'[s] = 1 .. L - 1
      /\ \A i \in 1 .. L - 1 : queue'[s][i] = queue[s][i + 1]
      /\ \A q \in AllStreams : q # s => queue'[q] = queue[q]
  BY <1>0, <1>2, <1>3
<1>5. n \in DOMAIN cmds /\ n \notin done /\ cmds[n].stream = s
  BY <1>1, <1>3 DEF QueueInv
<1> HIDE DEF n, L
<1>6. \A i \in 1 .. L - 1 : queue[s][i + 1] \in DOMAIN cmds \ done /\ n < queue[s][i + 1]
  <2> SUFFICES ASSUME NEW i \in 1 .. L - 1
               PROVE  queue[s][i + 1] \in DOMAIN cmds \ done /\ n < queue[s][i + 1]
    OBVIOUS
  <2>1. i + 1 \in DOMAIN queue[s] /\ 1 \in DOMAIN queue[s] /\ 1 < i + 1
    BY <1>3
  <2> QED BY <1>1, <1>3, <2>1 DEF QueueInv
<1>7. DOMAIN cmds \subseteq Nat /\ DOMAIN cmds \subseteq Ids
  BY <1>1, CmdsType
<1>8. ASSUME NEW b \in DOMAIN cmds, b < n, cmds[b].stream = s PROVE b \in done
  <2> SUFFICES ASSUME b \notin done PROVE FALSE
    OBVIOUS
  <2>1. PICK i \in DOMAIN queue[s] : queue[s][i] = b
    BY <1>1, <1>8 DEF QueueInv
  <2>2. i # 1
    BY <1>3, <1>5, <1>7, <1>8, <2>1
  <2>3. i - 1 \in 1 .. L - 1 /\ (i - 1) + 1 = i
    BY <1>3, <2>2
  <2>4. n < queue[s][i]
    BY <1>6, <2>3
  <2> QED BY <1>5, <1>7, <1>8, <2>1, <2>4
<1>9. /\ \A b, d \in DOMAIN cmds : b < d /\ cmds[b].stream = cmds[d].stream /\ d \in done' => b \in done'
      /\ done' \subseteq DOMAIN cmds /\ done \subseteq done'
  BY <1>0, <1>1, <1>5, <1>8 DEF QueueInv
<1>10. QueueInv'
  <2>1. ASSUME NEW q \in AllStreams
        PROVE  /\ \A i \in DOMAIN queue'[q] :
                    queue'[q][i] \in DOMAIN cmds \ done' /\ cmds[queue'[q][i]].stream = q
               /\ \A i, j \in DOMAIN queue'[q] : i < j => queue'[q][i] < queue'[q][j]
    <3>1. /\ \A i \in DOMAIN queue[q] :
               queue[q][i] \in DOMAIN cmds \ done /\ cmds[queue[q][i]].stream = q
          /\ \A i, j \in DOMAIN queue[q] : i < j => queue[q][i] < queue[q][j]
      BY <1>1, <2>1 DEF QueueInv
    <3>2. CASE q # s
      BY <1>0, <1>4, <1>5, <3>1, <3>2
    <3>3. CASE q = s
      <4>1. ASSUME NEW i \in DOMAIN queue'[q]
            PROVE  queue'[q][i] \in DOMAIN cmds \ done' /\ cmds[queue'[q][i]].stream = q
        <5>1. i \in 1 .. L - 1 /\ queue'[q][i] = queue[q][i + 1] /\ i + 1 \in DOMAIN queue[q]
          BY <1>3, <1>4, <3>3
        <5>2. queue[q][i + 1] # n
          BY <1>5, <1>6, <1>7, <3>3, <5>1
        <5> QED BY <1>0, <3>1, <5>1, <5>2
      <4>2. ASSUME NEW i \in DOMAIN queue'[q], NEW j \in DOMAIN queue'[q], i < j
            PROVE  queue'[q][i] < queue'[q][j]
        <5>1. /\ queue'[q][i] = queue[q][i + 1] /\ i + 1 \in DOMAIN queue[q]
              /\ queue'[q][j] = queue[q][j + 1] /\ j + 1 \in DOMAIN queue[q] /\ i + 1 < j + 1
          BY <1>3, <1>4, <3>3, <4>2
        <5> QED BY <3>1, <5>1
      <4> QED BY <4>1, <4>2
    <3> QED BY <3>2, <3>3
  <2>2. ASSUME NEW d \in DOMAIN cmds, d \notin done'
        PROVE  \E i \in DOMAIN queue'[cmds[d].stream] : queue'[cmds[d].stream][i] = d
    <3>1. d \notin done /\ d # n
      BY <1>0, <2>2
    <3>2. PICK i \in DOMAIN queue[cmds[d].stream] : queue[cmds[d].stream][i] = d
      BY <1>1, <3>1 DEF QueueInv
    <3>3. cmds[d].stream \in AllStreams
      BY <1>1, CmdsType
    <3>4. CASE cmds[d].stream # s
      BY <1>4, <3>2, <3>3, <3>4
    <3>5. CASE cmds[d].stream = s
      <4>1. i # 1
        BY <1>3, <3>1, <3>2, <3>5
      <4>2. i - 1 \in 1 .. L - 1 /\ (i - 1) + 1 = i
        BY <1>3, <3>2, <3>5, <4>1
      <4>3. queue'[s][i - 1] = d
        BY <1>4, <3>2, <3>5, <4>2
      <4> QED BY <1>4, <3>5, <4>2, <4>3
    <3> QED BY <3>4, <3>5
  <2> QED BY <1>0, <1>9, <2>1, <2>2 DEF QueueInv
<1>11. WaitsInv' /\ RefsInv'
  BY <1>0, <1>1, <1>9 DEF WaitsInv, Covered, RefsInv, Carries
<1>12. LastInv'
  BY <1>0, <1>1, <1>4, <1>9 DEF LastInv, AllStreams
<1>13. CallInv'
  BY <1>0, <1>1, <1>4, <1>9 DEF CallInv, Known, IsRecord, Covered
<1>14. LegacyOrder'
  <2>1. ASSUME NEW a \in cmds[n].after PROVE a \in done
    <3>1. a \in 1 .. n - 1 /\ Covered(cmds[n].after, cmds[n].waits) /\ cmds[n].waits \subseteq 1 .. n - 1
      BY <1>1, <1>5, <2>1 DEF WaitsInv
    <3>2. 1 .. n - 1 \subseteq DOMAIN cmds
      BY <1>1, <1>5, CmdsType
    <3>3. a \in done \/ \E d \in cmds[n].waits : a <= d /\ cmds[a].stream = cmds[d].stream
      BY <2>1, <3>1 DEF Covered
    <3>4. CASE \E d \in cmds[n].waits : a <= d /\ cmds[a].stream = cmds[d].stream
      <4>1. PICK d \in cmds[n].waits : a <= d /\ cmds[a].stream = cmds[d].stream
        BY <3>4
      <4>2. d \in done /\ d \in DOMAIN cmds /\ a \in DOMAIN cmds
        BY <1>0, <3>1, <3>2, <4>1
      <4>3. a = d \/ a < d
        BY <1>7, <4>1, <4>2
      <4> QED BY <1>1, <4>1, <4>2, <4>3 DEF QueueInv
    <3> QED BY <3>3, <3>4
  <2> QED BY <1>0, <1>1, <1>9, <2>1 DEF LegacyOrder
<1>15. RecordInv' /\ value' \in [Events -> 0 .. MaxCmds]
  <2>1. value \in [Events -> 0 .. MaxCmds]
    BY <1>1 DEF TypeOK
  <2>2. cmds[n].kind = "record" =>
          /\ cmds[n].event \in Events /\ cmds[n].target \in 1 .. n /\ IsRecord(n, cmds[n].event)
          /\ cmds[n].target \in 0 .. MaxCmds
    <3>1. cmds[n].kind = "record" => cmds[n].event \in Events /\ cmds[n].target \in 1 .. n
      BY <1>1, <1>5 DEF RecordInv
    <3> QED BY <1>5, <1>7, <3>1 DEF IsRecord, Ids
  <2>3. value' \in [Events -> 0 .. MaxCmds]
    BY <1>0, <2>1, <2>2
  <2>4. \A y \in Events : value'[y] = value[y] \/ (IsRecord(n, y) /\ cmds[n].target = value'[y])
    BY <1>0, <2>1, <2>2
  <2>5. \A y \in Events : value'[y] > 0 => \E d \in done' : IsRecord(d, y) /\ cmds[d].target = value'[y]
    BY <1>0, <1>1, <2>4 DEF RecordInv
  <2>6. UNCHANGED <<cmds, ev, thr>>
    BY <1>0
  <2> QED BY <1>1, <2>3, <2>5, <2>6 DEF RecordInv, IsRecord, Storing
<1>16. WaitsUnlessOvertaken'
  <2>1. ASSUME cmds[n].kind = "wait", Overtakers(n) = {} PROVE cmds[n].rec \in done
    <3> DEFINE e == cmds[n].event
               r == cmds[n].rec
    <3>1. IsRecord(r, e) /\ cmds[r].target = cmds[n].target /\ value[e] >= cmds[n].target
      BY <1>0, <1>1, <1>5, <2>1 DEF RecordInv
    <3>2. r \in DOMAIN cmds /\ cmds[r].kind = "record" /\ cmds[r].event = e
      BY <3>1 DEF IsRecord
    <3>3. /\ e \in Events /\ cmds[r].target \in 1 .. r
          /\ \A d \in DOMAIN cmds : IsRecord(d, e) /\ r < d => cmds[r].target < cmds[d].target
      BY <1>1, <3>2 DEF RecordInv
    <3>4. value[e] \in Nat /\ r \in Nat
      BY <1>1, <1>7, <3>2, <3>3 DEF TypeOK
    <3> HIDE DEF e, r
    <3>5. value[e] > 0
      BY <3>1, <3>3, <3>4
    <3>6. PICK d \in done : IsRecord(d, e) /\ cmds[d].target = value[e]
      BY <1>1, <3>3, <3>5 DEF RecordInv
    <3>7. d \in DOMAIN cmds /\ d \in Nat /\ cmds[d].kind = "record" /\ cmds[d].event = e
      BY <1>7, <3>6 DEF IsRecord
    <3>8. ~(d < r)
      <4> SUFFICES ASSUME d < r PROVE FALSE
        OBVIOUS
      <4>1. cmds[d].target < cmds[r].target
        BY <1>1, <3>1, <3>2, <3>7 DEF RecordInv
      <4> QED BY <3>1, <3>3, <3>4, <3>6, <4>1
    <3>9. CASE d = r
      BY <3>6, <3>9 DEF r
    <3>10. CASE d > r
      <4>1. cmds[d].stream = cmds[r].stream
        BY <2>1, <3>7, <3>10 DEF Overtakers, e, r
      <4>2. r \in done
        BY <1>1, <3>2, <3>4, <3>6, <3>7, <3>10, <4>1 DEF QueueInv
      <4> QED BY <4>2 DEF r
    <3> QED BY <3>4, <3>7, <3>8, <3>9, <3>10
  <2>2. \A d : Overtakers(d)' = Overtakers(d)
    BY <1>0 DEF Overtakers
  <2>3. \A d \in done' : d \in done \/ d = n
    BY <1>0
  <2> QED BY <1>0, <1>1, <1>9, <2>1, <2>2, <2>3 DEF WaitsUnlessOvertaken
<1>17. TypeOK'
  BY <1>0, <1>1, <1>4, <1>5, <1>7, <1>15 DEF TypeOK
<1> QED BY <1>10, <1>11, <1>12, <1>13, <1>14, <1>15, <1>16, <1>17 DEF IInv

-----------------------------------------------------------------------------
(* The theorems. *)

LEMMA InitInv == ASSUME Init PROVE IInv
<1>1. TypeOK
  <2>1. thr \in [Threads -> Calls]
    BY NoCallType DEF Init
  <2>2. cmds \in Seq(Cmds) /\ Len(cmds) <= MaxCmds /\ queue \in [AllStreams -> Seq(Ids)]
    BY DEF Init
  <2> QED BY <2>1, <2>2 DEF Init, TypeOK, Ids, NoEvent
<1>2. DOMAIN cmds = {} /\ Len(cmds) = 0
  BY DEF Init
<1>3. QueueInv /\ WaitsInv /\ LegacyOrder /\ WaitsUnlessOvertaken
  BY <1>2 DEF Init, QueueInv, WaitsInv, LegacyOrder, WaitsUnlessOvertaken
<1>4. LastInv
  BY DEF Init, LastInv, AllStreams
<1>5. RecordInv
  BY <1>2 DEF Init, RecordInv
<1>6. CallInv
  BY NoCallType DEF Init, CallInv
<1>7. RefsInv
  <2> SUFFICES ASSUME NEW k \in Ids
               PROVE  refs[k] = Cardinality({q \in AllStreams : last[q] = k})
                                  + Cardinality({e \in Events : ev[e].completion = k})
                                  + (IF \E u \in Threads : Carries(u, k) THEN 1 ELSE 0)
    BY DEF RefsInv
  <2>1. k # NoEvent /\ refs[k] = 0
    BY DEF Init, Ids, NoEvent
  <2>2. {q \in AllStreams : last[q] = k} = {} /\ {e \in Events : ev[e].completion = k} = {}
    BY <2>1 DEF Init
  <2>3. /\ Cardinality({q \in AllStreams : last[q] = k}) = 0
        /\ Cardinality({e \in Events : ev[e].completion = k}) = 0
    BY <2>2, FS_EmptySet
  <2>4. ~\E u \in Threads : Carries(u, k)
    BY NoCallType DEF Init, Carries
  <2> QED BY <2>1, <2>3, <2>4
<1> QED BY <1>1, <1>3, <1>4, <1>5, <1>6, <1>7 DEF IInv

LEMMA InductiveStep == ASSUME OneThread, IInv, [Next]_vars PROVE IInv'
<1>1. CASE UNCHANGED vars
  <2>1. UNCHANGED <<alive, last, ev, thr, cmds, queue, done, value, refs, destroys, returned>>
    BY <1>1 DEF vars
  <2>2. TypeOK' /\ QueueInv' /\ WaitsInv' /\ LastInv' /\ LegacyOrder' /\ WaitsUnlessOvertaken'
    BY <2>1 DEF IInv, TypeOK, QueueInv, WaitsInv, Covered, LastInv, LegacyOrder, WaitsUnlessOvertaken,
                Overtakers
  <2>3. RecordInv' /\ CallInv'
    BY <2>1 DEF IInv, RecordInv, CallInv, IsRecord, Storing, Covered, Known
  <2>4. RefsInv'
    BY <2>1 DEF IInv, RefsInv, Carries
  <2> QED BY <2>2, <2>3, <2>4 DEF IInv
<1>2. CASE \E t \in Threads : Start(t)
  <2>1. PICK t \in Threads : Start(t)
    BY <1>2
  <2>2. CASE DeviceSynchronize(t)
    BY <2>2, DeviceStep
  <2>3. CASE \E s \in AllStreams : Work(t, s) \/ Synchronize(t, s)
    BY <2>3, StartCallStep, SyncStep
  <2>4. CASE \E s \in AllStreams, e \in Events : Record(t, s, e) \/ WaitEvent(t, s, e)
    BY <2>4, StartCallStep
  <2>5. CASE \E e \in Events : EventSynchronize(t, e) \/ DestroyEvent(t, e)
    BY <2>5, SyncStep, DestroyEventStep
  <2>6. CASE \E s \in Streams : CreateStream(t, s) \/ DestroyStream(t, s)
    BY <2>6, StreamsComeAndGo
  <2> QED BY <2>1, <2>2, <2>3, <2>4, <2>5, <2>6 DEF Start
<1>3. CASE \E t \in Threads : Continue(t)
  <2>1. PICK t \in Threads : Continue(t)
    BY <1>3
  <2> QED BY <2>1, CollectStep, EnqueueStep, IdleStep, StoreStep, SetLastStep, DeviceStep,
             DestroyStreamEndStep DEF Continue
<1>4. CASE \E s \in AllStreams : Run(s)
  BY <1>4, RunStep
<1> QED BY <1>1, <1>2, <1>3, <1>4 DEF Next

\* IInv is an invariant of the streams, for any number of them, of events and of commands:
\* collect_wait_events(), set_stream_last_event() and grxEventRecord together keep it.
THEOREM StreamsInvariance == ASSUME OneThread PROVE Spec => []IInv
<1>1. Init => IInv
  BY InitInv
<1>2. IInv /\ [Next]_vars => IInv'
  BY InductiveStep
<1> QED BY <1>1, <1>2, PTL DEF Spec

\* CUDA's legacy order: no command runs before one it must follow whose call had returned.
THEOREM LegacyOrderHolds == ASSUME OneThread PROVE Spec => []LegacyOrder
<1>1. IInv => LegacyOrder
  BY DEF IInv
<1> QED BY <1>1, StreamsInvariance, PTL

\* What follows a grxStreamWaitEvent runs after the record it is for, unless the event is
\* recorded again on another stream.
THEOREM WaitsForRecord == ASSUME OneThread PROVE Spec => []WaitsUnlessOvertaken
<1>1. IInv => WaitsUnlessOvertaken
  BY DEF IInv
<1> QED BY <1>1, StreamsInvariance, PTL

\* What grxStreamQuery and grxEventQuery answer is so: a stream's commands run in order up
\* to its last event, and the counter reaches a record's target only when that record runs.
LEMMA TrueAnswers == ASSUME IInv PROVE AnswersAreTrue
<1>1. TypeOK /\ QueueInv /\ LastInv /\ RecordInv
  BY DEF IInv
<1>2. DOMAIN cmds \subseteq Nat
  BY <1>1, CmdsType
<1> SUFFICES ASSUME \A t \in Threads : Idle(t)
             PROVE  /\ \A s \in AllStreams : QueryStream(s) => {c \in returned : cmds[c].stream = s} \subseteq done
                    /\ \A e \in Events : ev[e].live /\ ev[e].recorded /\ QueryEvent(e) => ev[e].completion \in done
  BY DEF AnswersAreTrue
<1>3. ASSUME NEW s \in AllStreams, QueryStream(s), NEW c \in returned, cmds[c].stream = s
      PROVE  c \in done
  <2> SUFFICES ASSUME c \notin done PROVE FALSE
    OBVIOUS
  <2>1. last[s] # NoEvent /\ c <= last[s] /\ c \in DOMAIN cmds
    BY <1>1, <1>3 DEF LastInv
  <2>2. last[s] \in done /\ last[s] \in DOMAIN cmds /\ cmds[last[s]].stream = s
    BY <1>1, <1>3, <2>1 DEF LastInv, QueryStream
  <2>3. c = last[s] \/ c < last[s]
    BY <1>2, <2>1, <2>2
  <2> QED BY <1>1, <1>3, <2>1, <2>2, <2>3 DEF QueueInv
<1>4. ASSUME NEW e \in Events, ev[e].live, ev[e].recorded, QueryEvent(e)
      PROVE  ev[e].completion \in done
  <2> DEFINE r == ev[e].completion
  <2>1. IsRecord(r, e) /\ cmds[r].target = ev[e].target /\ value[e] >= ev[e].target
    BY <1>1, <1>4 DEF RecordInv, QueryEvent
  <2>2. ~Storing(e)
    BY DEF Storing, Idle
  <2>3. r \in DOMAIN cmds /\ cmds[r].kind = "record" /\ cmds[r].event = e
    BY <2>1 DEF IsRecord
  <2>4. cmds[r].target \in 1 .. r /\ value[e] \in Nat /\ r \in Nat /\ ev[e].target \in Nat
    BY <1>1, <1>2, <2>3 DEF RecordInv, TypeOK
  <2> HIDE DEF r
  <2>5. value[e] > 0
    BY <2>1, <2>4
  <2>6. PICK d \in done : IsRecord(d, e) /\ cmds[d].target = value[e]
    BY <1>1, <2>5 DEF RecordInv
  <2>7. d \in DOMAIN cmds /\ d \in Nat /\ cmds[d].kind = "record" /\ cmds[d].event = e
    BY <1>2, <2>6 DEF IsRecord
  <2>8. d < r => cmds[d].target < cmds[r].target
    BY <1>1, <2>1, <2>3, <2>7 DEF RecordInv
  <2>9. r < d => cmds[r].target < cmds[d].target
    BY <1>1, <2>3, <2>6, <2>7 DEF RecordInv
  <2>10. cmds[d].target <= ev[e].target + 0
    BY <1>1, <2>2, <2>7 DEF RecordInv
  <2>11. d = r
    BY <2>1, <2>4, <2>6, <2>7, <2>8, <2>9, <2>10
  <2> QED BY <2>6, <2>11 DEF r
<1> QED BY <1>3, <1>4

THEOREM AnswersTrue == ASSUME OneThread PROVE Spec => []AnswersAreTrue
  BY StreamsInvariance, TrueAnswers, PTL

\* Between calls every completion event has exactly the references of its holders.
THEOREM ExactReferences == ASSUME OneThread PROVE Spec => []RefsExact
<1>1. IInv => RefsExact
  <2> SUFFICES ASSUME IInv, \A t \in Threads : Idle(t), NEW c \in Ids
               PROVE  refs[c] = Cardinality({s \in AllStreams : last[s] = c})
                                  + Cardinality({e \in Events : ev[e].completion = c})
    BY DEF RefsExact
  <2> DEFINE A == Cardinality({s \in AllStreams : last[s] = c})
             B == Cardinality({e \in Events : ev[e].completion = c})
  <2>1. ~\E t \in Threads : Carries(t, c)
    BY DEF Carries, Idle
  <2>2. refs[c] = A + B + 0
    BY <2>1 DEF IInv, RefsInv
  <2>3. A \in Nat /\ B \in Nat
    BY StreamsFinite, FiniteAssumption, FS_Subset, FS_CardinalityType
  <2> HIDE DEF A, B
  <2>4. refs[c] = A + B
    BY <2>2, <2>3
  <2> QED BY <2>4 DEF A, B
<1> QED BY <1>1, StreamsInvariance, PTL

\* grxDeviceSynchronize and grxStreamSynchronize return only once all they are for has run:
\* sync_all_streams() misses no queue with work in it.
LEMMA SyncReturns ==
  ASSUME OneThread, IInv, [Next]_vars, NEW t \in Threads, Idle(t)', ~(UNCHANGED vars)
  PROVE  /\ thr[t].pc = "device" => returned \subseteq done
         /\ thr[t].pc = "sync" => {c \in returned : cmds[c].stream = thr[t].stream} \subseteq done
<1>1. TypeOK /\ QueueInv /\ LastInv /\ CallInv
  BY DEF IInv
<1>2. \A u \in Threads : u = t
  BY DEF OneThread
<1>3. \A c \in returned : c \in DOMAIN cmds /\ cmds[c].stream \in AllStreams
  BY <1>1, CmdsType DEF LastInv
<1>4. ASSUME thr[t].pc \in {"device", "sync"} PROVE DeviceSynchronizeStep(t) \/ SynchronizeEnd(t)
  <2>1. ~\E s \in AllStreams : Run(s)
    BY <1>4 DEF Run, Idle
  <2>2. ~Start(t)
    BY <1>4 DEF Start, DeviceSynchronize, Work, BeginCall, Synchronize, Record, WaitEvent,
                EventSynchronize, DestroyEvent, CreateStream, DestroyStream, Idle
  <2>3. Continue(t)
    BY <1>2, <2>1, <2>2 DEF Next
  <2> QED BY <1>4, <2>3 DEF Continue, Collect, Enqueue, EnqueueFails, Store, SetLast,
                            EventSynchronizeEnd, DestroyStreamEnd
<1>5. ASSUME thr[t].pc = "device" PROVE returned \subseteq done
  <2>1. PICK s \in thr[t].left :
          /\ queue[s] = <<>>
          /\ thr' = [thr EXCEPT ![t] = IF thr[t].left = {s} THEN NoCall
                                      ELSE [thr[t] EXCEPT !.left = @ \ {s}]]
    BY <1>4, <1>5 DEF DeviceSynchronizeStep, SynchronizeEnd
  <2>2. thr[t].left = {s}
    <3> SUFFICES ASSUME thr[t].left # {s} PROVE FALSE
      OBVIOUS
    <3>1. thr \in [Threads -> Calls] /\ thr[t] \in Calls
      BY <1>1 DEF TypeOK
    <3>2. thr'[t] = [thr[t] EXCEPT !.left = @ \ {s}]
      BY <2>1, <3>1
    <3>3. thr'[t].pc = "device"
      BY <1>5, <3>1, <3>2 DEF Calls
    <3> QED BY <3>3 DEF Idle
  <2>3. \A q \in AllStreams : queue[q] = <<>>
    BY <1>1, <1>5, <2>1, <2>2 DEF CallInv
  <2> QED BY <1>1, <1>3, <2>3, EmptyQueue
<1>6. ASSUME thr[t].pc = "sync", NEW c \in returned, cmds[c].stream = thr[t].stream PROVE c \in done
  <2>1. queue[thr[t].stream] = <<>>
    BY <1>4, <1>6 DEF SynchronizeEnd, DeviceSynchronizeStep
  <2> QED BY <1>1, <1>3, <1>6, <2>1, EmptyQueue
<1> QED BY <1>5, <1>6

THEOREM SyncsWait == ASSUME OneThread PROVE Spec => SyncsMeanDone
<1>1. ASSUME IInv, [Next]_vars
      PROVE  [\A t \in Threads : Idle(t)' =>
                /\ thr[t].pc = "device" => returned \subseteq done
                /\ thr[t].pc = "sync" => {c \in returned : cmds[c].stream = thr[t].stream} \subseteq done]_vars
  BY <1>1, SyncReturns
<1> QED BY <1>1, StreamsInvariance, PTL DEF Spec, SyncsMeanDone

=============================================================================
