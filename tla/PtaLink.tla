------------------------------- MODULE PtaLink -------------------------------
(***************************************************************************)
(* pta_chiplet_gemm without a queue: the link transport, where a command   *)
(* is handed to the tile by a function call (the twin's pta_twin_submit)   *)
(* and PTA_STATUS is polled until the tile is idle. Several holders may    *)
(* drive one tile, each with a device, a result buffer C and the status    *)
(* its call keeps on the stack; the twin has pointers to both until the    *)
(* command ends.                                                           *)
(*                                                                         *)
(* The twin here keeps its whole command queue, which behind the module    *)
(* (PtaModule) never holds more than one.                                  *)
(***************************************************************************)
EXTENDS Integers, Sequences

CONSTANTS
  Holders,   \* who drive the tile
  Depth,     \* build.queue_depth
  MaxPolls,  \* kMaxPolls, at least one
  MaxCalls,  \* bound: calls of each holder
  MaxCals,   \* bound: calibrations
  MaxResets  \* bound: resets of the tile

\* "fit" runs, "unfit" is refused by the tile, "wide" is not taken by submit.
Kinds     == {"fit", "unfit", "wide"}
Untouched == 0
NoCmd     == [holder |-> "nobody", call |-> 0, kind |-> "fit"]

VARIABLES
  state,   \* what has the tile: nothing, a GEMM or a calibration
  cur,     \* the GEMM in the tile
  q,       \* commands taken and not begun
  cal,     \* a calibration is pending
  cals, resets,
  pc, call, kind, polls,  \* each holder's call
  status,  \* each holder's status, on the stack of the call in progress
  C,       \* each holder's result buffer: the call whose result it holds
  error    \* each device's error

tileVars == <<state, cur, q, cal>>
callVars == <<pc, call, kind, polls, error>>
vars     == <<tileVars, cals, resets, callVars, status, C>>

Init ==
  /\ state = "IDLE" /\ cur = NoCmd /\ q = <<>> /\ cal = FALSE
  /\ cals = 0 /\ resets = 0
  /\ pc = [h \in Holders |-> "idle"]
  /\ call = [h \in Holders |-> 0]
  /\ kind = [h \in Holders |-> "fit"]
  /\ polls = [h \in Holders |-> 0]
  /\ status = [h \in Holders |-> "PENDING"]
  /\ C = [h \in Holders |-> Untouched]
  /\ error = [h \in Holders |-> "OK"]

-----------------------------------------------------------------------------
(* The tile. *)

Idle == state = "IDLE" /\ q = <<>>     \* neither BUSY nor CAL_BUSY

\* cmd_end: the status is written through the pointer the command came with,
\* whether or not the call it belonged to is still there.
CmdEnd(st, cmds, how) ==
  [h \in Holders |-> IF \E i \in DOMAIN cmds : cmds[i].holder = h THEN how ELSE st[h]]

\* The tile is free: a calibration takes it, or the first command of the queue
\* that is not refused.
StartNext(cmds, pending, st) ==
  LET fits == {i \in DOMAIN cmds : cmds[i].kind = "fit"}
      n == IF fits = {} THEN Len(cmds) ELSE (CHOOSE i \in fits : \A j \in fits : i <= j) - 1
      refused == SubSeq(cmds, 1, n)
      rest == SubSeq(cmds, n + 1, Len(cmds))
  IN  IF pending
      THEN state' = "CAL" /\ cur' = NoCmd /\ cal' = FALSE /\ q' = cmds /\ status' = st
      ELSE /\ cal' = FALSE
           /\ status' = CmdEnd(st, refused, "REFUSED")
           /\ IF rest = <<>>
              THEN state' = "IDLE" /\ cur' = NoCmd /\ q' = <<>>
              ELSE state' = "GEMM" /\ cur' = Head(rest) /\ q' = Tail(rest)

\* Time passes: what has the tile ends. A GEMM's results go through its pointer.
Run ==
  /\ \/ /\ state = "GEMM"
        /\ C' = [C EXCEPT ![cur.holder] = cur.call]
        /\ StartNext(q, cal, CmdEnd(status, <<cur>>, "DONE"))
     \/ /\ state = "CAL"
        /\ StartNext(q, cal, status)
        /\ UNCHANGED C
  /\ UNCHANGED <<cals, resets, callVars>>

\* CAL_NOW.
Calibrate ==
  /\ cals < MaxCals
  /\ cals' = cals + 1
  /\ \/ state = "IDLE" /\ StartNext(q, TRUE, status)
     \/ state # "IDLE" /\ cal' = TRUE /\ UNCHANGED <<state, cur, q, status>>
  /\ UNCHANGED <<resets, callVars, C>>

\* drop_all: everything taken and not ended is lost.
Reset ==
  /\ resets < MaxResets
  /\ resets' = resets + 1
  /\ state' = "IDLE" /\ cur' = NoCmd /\ q' = <<>> /\ cal' = FALSE
  /\ status' = CmdEnd(status, IF state = "GEMM" THEN <<cur>> \o q ELSE q, "LOST")
  /\ UNCHANGED <<cals, callVars, C>>

-----------------------------------------------------------------------------
(* pta_chiplet_gemm. *)

Return(h, e) == pc' = [pc EXCEPT ![h] = "idle"] /\ error' = [error EXCEPT ![h] = e]

\* The caller asks for a GEMM into a buffer it has filled.
Gemm(h, k) ==
  /\ pc[h] = "idle" /\ call[h] < MaxCalls
  /\ pc' = [pc EXCEPT ![h] = "before"]
  /\ call' = [call EXCEPT ![h] = @ + 1]
  /\ kind' = [kind EXCEPT ![h] = k]
  /\ polls' = [polls EXCEPT ![h] = 0]
  /\ C' = [C EXCEPT ![h] = Untouched]
  /\ UNCHANGED <<tileVars, cals, resets, status, error>>

\* wait_idle, one read of PTA_STATUS: before the command and after it.
Poll(h, from, to) ==
  /\ pc[h] = from
  /\ \/ /\ Idle
        /\ pc' = [pc EXCEPT ![h] = to]
        /\ polls' = [polls EXCEPT ![h] = 0]
        /\ UNCHANGED error
     \/ /\ ~Idle /\ polls[h] + 1 < MaxPolls
        /\ polls' = [polls EXCEPT ![h] = @ + 1]
        /\ UNCHANGED <<pc, error>>
     \/ /\ ~Idle /\ polls[h] + 1 = MaxPolls
        /\ Return(h, "WEDGED")
        /\ UNCHANGED polls
  /\ UNCHANGED <<tileVars, cals, resets, call, kind, status, C>>

\* pta_twin_submit has no room: the tile is taken, or about to be, and the queue full.
Full == (state # "IDLE" \/ cal) /\ Len(q) >= Depth

\* pta_twin_submit: into the tile if it is free, else into the queue.
TwinSubmit(cmd, st) ==
  IF Idle /\ ~cal
  THEN StartNext(<<cmd>>, FALSE, st)
  ELSE q' = Append(q, cmd) /\ status' = st /\ UNCHANGED <<state, cur, cal>>

\* The hand-over, with a status of this call's own.
Submit(h) ==
  LET pending == [status EXCEPT ![h] = "PENDING"] IN
  /\ pc[h] = "submit"
  /\ \/ /\ kind[h] = "wide" \/ Full
        /\ Return(h, "NOT_ACCEPTED")
        /\ status' = pending
        /\ UNCHANGED tileVars
     \/ /\ kind[h] # "wide" /\ ~Full
        /\ TwinSubmit([holder |-> h, call |-> call[h], kind |-> kind[h]], pending)
        /\ pc' = [pc EXCEPT ![h] = "after"]
        /\ UNCHANGED error
  /\ UNCHANGED <<cals, resets, call, kind, polls, C>>

\* The tile has been seen idle: the call ends as its status says.
End(h) ==
  /\ pc[h] = "end"
  /\ Return(h, CASE status[h] = "DONE"    -> "OK"
                 [] status[h] = "REFUSED" -> "REFUSED"
                 [] OTHER                 -> "LOST")
  /\ UNCHANGED <<tileVars, cals, resets, call, kind, polls, status, C>>

Next ==
  \/ Run \/ Calibrate \/ Reset
  \/ \E h \in Holders :
       \/ \E k \in Kinds : Gemm(h, k)
       \/ Poll(h, "before", "submit") \/ Submit(h) \/ Poll(h, "after", "end") \/ End(h)

Spec == Init /\ [][Next]_vars

-----------------------------------------------------------------------------
\* pta_chiplet_gemm returns "0 with C written, or -1 with C untouched": between
\* calls a device whose error is not OK has a C that nothing has been written to.
FailureLeavesC ==
  \A h \in Holders : pc[h] = "idle" /\ error[h] # "OK" => C[h] = Untouched

=============================================================================
