----------------------------- MODULE RttMinima -----------------------------
(***************************************************************************)
(* The minimum tracking and window management of RADalgo_bidir             *)
(* (sync_bidir.c).  Per stamp it maintains                                 *)
(*   - RTThat, the on-line minimum of the round-trip times, and            *)
(*     next_RTThat, its successor for the next history window;             *)
(*   - RTThat_shift, the minimum over the sliding shift window, by which   *)
(*     upward shifts are detected;                                         *)
(*   - far_i and near_i, the stamps of the warmup period estimate, and     *)
(*     pstamp, the stamp of the far past of the full period estimate;      *)
(*   - all the windows, which change when the configuration is reloaded.   *)
(*                                                                         *)
(* An action is one call of RADalgo_bidir, by PROC, for one stamp.  A      *)
(* stamp is its RTT in counter units; 0 is the RTT of a blank stamp.  The  *)
(* windows that set_algo_windows derives from poll_period and the          *)
(* metaparameters are the table Windows; plocal_span is                    *)
(* plocal_win + plocal_win/2, the only form in which the local period      *)
(* window enters these algorithms.                                         *)
(***************************************************************************)
EXTENDS History, Sequences

CONSTANTS
  Confs,       \* configurations a reload can install
  Windows,     \* [Confs -> windows in stamps]
  WarmupMin,   \* the 100 stamps of line 2389
  RTTs,        \* round-trip times of stamps
  Thres,       \* RTThat_shift_thres
  MaxStamps,   \* bound: stamps processed
  MaxReloads   \* bound: reloads that change poll period or quality

ASSUME WindowsAssumption ==
  /\ WarmupMin \in Nat \ {0} /\ Thres \in Nat /\ RTTs \subseteq Nat
  /\ Windows \in [Confs -> [shift_win : Nat \ {0, 1}, offset_win : Nat \ {0, 1},
                            plocal_span : Nat \ {0, 1}, h_win : Nat \ {0, 1}]]

VARIABLES
  state,    \* struct bidir_algostate
  reloads,  \* reloads so far
  changed,  \* ghost: what reloads changed after the warmup
  raw       \* ghost: the RTTs of the stamps processed, the latest Keep of them

vars == <<state, reloads, changed, raw>>

si == state.stamp_i

Max2(a, b) == IF a >= b THEN a ELSE b
Min2(a, b) == IF a <= b THEN a ELSE b

------------------------------------------------------------------------------
(* Windows.                                                                 *)

set_algo_windows(st, c) ==
  [st EXCEPT !.shift_win = Windows[c].shift_win,
             !.offset_win = Windows[c].offset_win,
             !.plocal_span = Windows[c].plocal_span,
             !.h_win = Windows[c].h_win]

\* Mutant: the local period window is forgotten.
LargestWinNoLocal(st) == Max2(st.offset_win, st.shift_win)

LargestWin(st) == Max2(st.offset_win, Max2(st.shift_win, st.plocal_span))

adjust_warmup_win(st) ==
  LET warmup == IF st.stamp_i = 0 THEN Max2(st.warmup_win, LargestWin(st))
                                  ELSE LargestWin(st) + st.stamp_i
      least == warmup + st.shift_win
  IN  [st EXCEPT !.warmup_win = warmup,
                 !.h_win = IF least > @ \div 2 THEN 3 * (2 * least + 1) ELSE @]

\* A reload, seen before the stamp is processed.  In the full phase the shift
\* window is set again from the stamps still in the history, before the
\* histories are resized.
update_state(st0, c) ==
  LET st == set_algo_windows(st0, c)
      warm == st.stamp_i < st.warmup_win
      i == st.stamp_i
      end == Max2(IF i - 1 > st.shift_win - 1 THEN i - st.shift_win ELSE 0,
                  history_old(st.RTT_hist))
      adj == IF warm
             THEN adjust_warmup_win(st)
             ELSE [st EXCEPT !.shift_end = end,
                             !.RTThat_shift = history_find(st.RTT_hist,
                                  history_min(st.RTT_hist, end, i - 1))]
  IN  [adj EXCEPT
         !.RTT_hist = history_resize(@, IF warm THEN adj.warmup_win ELSE LargestWin(adj)),
         !.RTThat_hist = history_resize(@, IF warm THEN adj.warmup_win ELSE adj.offset_win)]

------------------------------------------------------------------------------
(* Warmup.                                                                  *)

init_algos(st, RTT) == [st EXCEPT !.RTThat = RTT, !.wwidth = 1]

process_RTT_warmup(st, RTT) ==
  IF RTT < st.RTThat
  THEN [st EXCEPT !.RTThat = RTT, !.pstamp_i = st.stamp_i]
  ELSE st

\* Mutant: the near window is taken one stamp short.
NearWindowShort(st, RTT) ==
  LET h == st.RTT_hist
      i == st.stamp_i
  IN  IF i % 4 # 0
      THEN [st EXCEPT !.near_i = history_min_slide(h, @, i - st.wwidth + 1, i - 1)]
      ELSE [st EXCEPT
              !.far_i = IF history_find(h, st.wwidth) < history_find(h, @)
                        THEN st.wwidth ELSE @,
              !.near_i = IF RTT < history_find(h, @) THEN i ELSE @,
              !.wwidth = @ + 1]

\* far_i and near_i: the best stamps of a window at the start and of one at
\* the end, both one wider at every 4th stamp (warmup_winratio).
process_phat_warmup(st, RTT) ==
  LET h == st.RTT_hist
      i == st.stamp_i
  IN  IF i % 4 # 0
      THEN [st EXCEPT !.near_i = history_min_slide(h, @, i - st.wwidth, i - 1)]
      ELSE [st EXCEPT
              !.far_i = IF history_find(h, st.wwidth) < history_find(h, @)
                        THEN st.wwidth ELSE @,
              !.near_i = IF RTT < history_find(h, @) THEN i ELSE @,
              !.wwidth = @ + 1]

\* RTThat_hist has warmup_win = si + 1 slots: the loop that adds RTThat for
\* every stamp so far fills it.
init_RTTOWDAsym_full(st) ==
  LET i == st.stamp_i
      end == Max2(IF i > st.shift_win THEN i - (st.shift_win - 1) ELSE 0,
                  history_old(st.RTT_hist))
  IN  [st EXCEPT
         !.next_RTThat = st.RTThat,
         !.shift_end = end,
         !.RTThat_shift = history_find(st.RTT_hist, history_min(st.RTT_hist, end, i)),
         !.RTThat_hist = [@ EXCEPT !.buffer = [k \in DOMAIN @ |-> st.RTThat],
                                   !.item_count = i + 1, !.newest_i = i]]

init_phat_full(st) ==
  [st EXCEPT !.pstamp = history_find(st.RTT_hist, st.pstamp_i)]

\* From here on far_i, near_i and wwidth belong to the local period algorithm,
\* which is not in this module: they are blanked.
LeaveToPlocal(st) == [st EXCEPT !.far_i = 0, !.near_i = 0, !.wwidth = 0]

Warmup(st0, RTT) ==
  LET st == process_phat_warmup(process_RTT_warmup(st0, RTT), RTT)
  IN  IF st.stamp_i = st.warmup_win - 1
      THEN LeaveToPlocal(init_phat_full(init_RTTOWDAsym_full(
             [st EXCEPT !.history_end = st.h_win - 1])))
      ELSE st

------------------------------------------------------------------------------
(* Full phase.                                                              *)

\* Half way through the first history window the successors are started;
\* when the window is full it slides by half and they take over.
StartSuccessors(st, RTT) ==
  [st EXCEPT !.next_RTThat = st.stamp, !.jsearch_win = st.warmup_win, !.jcount = 1,
             !.next_pstamp_i = st.stamp_i, !.next_pstamp = RTT]

\* Mutant: the stamp at hand becomes pstamp, not the one chosen half a window ago.
SlideToCurrent(st, RTT) ==
  [st EXCEPT !.history_end = @ + st.h_win \div 2,
             !.RTThat = st.next_RTThat, !.next_RTThat = st.stamp,
             !.pstamp_i = st.stamp_i, !.pstamp = RTT,
             !.jcount = 1, !.next_pstamp_i = st.stamp_i, !.next_pstamp = RTT]

SlideHistory(st, RTT) ==
  [st EXCEPT !.history_end = @ + st.h_win \div 2,
             !.RTThat = st.next_RTThat, !.next_RTThat = st.stamp,
             !.pstamp_i = st.next_pstamp_i, !.pstamp = st.next_pstamp,
             !.jcount = 1, !.next_pstamp_i = st.stamp_i, !.next_pstamp = RTT]

\* Mutant: the successors are never started.
SlideOnly(st0, RTT) ==
  IF st0.stamp_i = st0.history_end THEN SlideHistory(st0, RTT) ELSE st0

manage_historywin(st0, RTT) ==
  LET st == IF st0.stamp_i = st0.h_win \div 2 THEN StartSuccessors(st0, RTT) ELSE st0
  IN  IF st.stamp_i = st.history_end THEN SlideHistory(st, RTT) ELSE st

\* Mutant: the successor is not maintained.
NoSuccessorMinimum(st, RTT) ==
  LET m == Min2(st.RTThat, RTT)
  IN  [st EXCEPT !.RTThat = m,
                 !.RTThat_hist = history_add(@, st.stamp_i, m)]

\* Mutant: the minimum is recorded before the stamp is taken into it.
RecordsOldMinimum(st, RTT) ==
  [st EXCEPT !.RTThat = Min2(@, RTT),
             !.RTThat_hist = history_add(@, st.stamp_i, st.RTThat),
             !.next_RTThat = Min2(@, RTT)]

OnlineMinima(st, RTT) ==
  LET m == Min2(st.RTThat, RTT)
  IN  [st EXCEPT !.RTThat = m,
                 !.RTThat_hist = history_add(@, st.stamp_i, m),
                 !.next_RTThat = Min2(@, RTT)]

\* The shift window grows on the right while it is too short, else slides.
ShiftWindow(st, RTT) ==
  IF st.stamp_i < (st.shift_win - 1) + st.shift_end
  THEN [st EXCEPT !.RTThat_shift = Min2(@, RTT)]
  ELSE [st EXCEPT
          !.absent = @ \/ SlideReadsAbsent(st.RTT_hist, st.RTThat_shift,
                                           st.shift_end, st.stamp_i - 1),
          !.RTThat_shift = history_min_slide_value(st.RTT_hist, @,
                                           st.shift_end, st.stamp_i - 1),
          !.shift_end = @ + 1]

\* lastshift is unsigned: with fewer than shift_win stamps it wraps to a huge
\* index and nothing is rewritten.
Upshift(st) ==
  LET i == st.stamp_i
      jmin == Max2(i - st.shift_win + 1, Max2(i - (st.offset_win - 1), 0))
      rewritten == IF i + 1 < st.shift_win THEN {} ELSE jmin .. i
      sz == st.RTThat_hist.buffer_sz
  IN  [st EXCEPT
         !.RTThat = st.RTThat_shift, !.next_RTThat = st.RTThat_shift,
         !.absent = @ \/ \E j \in rewritten : Absent(st.RTThat_hist, j),
         !.RTThat_hist = [@ EXCEPT !.buffer = [k \in DOMAIN @ |->
             IF \E j \in rewritten : j % sz = k THEN st.RTThat_shift ELSE @[k]]],
         !.upshift = TRUE]

process_RTT_full(st0, RTT) ==
  LET st == ShiftWindow(OnlineMinima(st0, RTT), RTT)
  IN  IF st.RTThat_shift > st.RTThat + Thres
      THEN Upshift(st) ELSE [st EXCEPT !.upshift = FALSE]

update_next_pstamp(st, RTT) ==
  IF st.jcount > st.jsearch_win
  THEN st
  ELSE [st EXCEPT !.jcount = @ + 1,
                  !.next_pstamp_i = IF RTT < st.next_pstamp THEN st.stamp_i ELSE @,
                  !.next_pstamp = IF RTT < @ THEN RTT ELSE @]

Full(st, RTT) ==
  update_next_pstamp(process_RTT_full(manage_historywin(st, RTT), RTT), RTT)

------------------------------------------------------------------------------
(* One stamp.                                                               *)

Blank ==
  [stamp_i |-> -1, stamp |-> 0, warmup_win |-> WarmupMin,
   shift_win |-> 0, offset_win |-> 0, plocal_span |-> 0, h_win |-> 0,
   RTT_hist |-> history_init(0), RTThat_hist |-> history_init(0),
   RTThat |-> 0, next_RTThat |-> 0, RTThat_shift |-> 0, shift_end |-> 0,
   history_end |-> 0, wwidth |-> 0, far_i |-> 0, near_i |-> 0,
   pstamp_i |-> 0, pstamp |-> 0, next_pstamp_i |-> 0, next_pstamp |-> 0,
   jcount |-> 0, jsearch_win |-> 0, upshift |-> FALSE, absent |-> FALSE]

FirstWindows(st0, c) ==
  LET st == adjust_warmup_win(set_algo_windows(st0, c))
  IN  [st EXCEPT !.RTT_hist = history_init(st.warmup_win),
                 !.RTThat_hist = history_init(st.warmup_win)]

ProcessStamp(st0, RTT) ==
  LET st == [st0 EXCEPT !.RTT_hist = history_add(@, st0.stamp_i, RTT)]
      done == CASE st.stamp_i = 0 -> init_algos(st, RTT)
                [] st.stamp_i \in 1 .. st.warmup_win - 1 -> Warmup(st, RTT)
                [] OTHER -> Full(st, RTT)
  IN  [done EXCEPT !.stamp = RTT]

Keep == Max({Windows[c].shift_win : c \in Confs})

Process(st, RTT) ==
  /\ ~state.absent /\ si + 1 < MaxStamps
  /\ state' = ProcessStamp(st, RTT)
  /\ raw' = LET s == Append(raw, RTT)
            IN  IF Len(s) > Keep THEN Tail(s) ELSE s

NextStamp == [state EXCEPT !.stamp_i = @ + 1]

FirstStamp ==
  /\ si = -1
  /\ \E RTT \in RTTs, c \in Confs : Process(FirstWindows(NextStamp, c), RTT)
  /\ UNCHANGED <<reloads, changed>>

LaterStamp ==
  /\ si >= 0
  /\ \E RTT \in RTTs : Process(NextStamp, RTT)
  /\ UNCHANGED <<reloads, changed>>

ReloadedStamp ==
  /\ si >= 0 /\ reloads < MaxReloads
  /\ \E RTT \in RTTs, c \in Confs : Process(update_state(NextStamp, c), RTT)
  /\ reloads' = reloads + 1
  /\ changed' = changed \cup
       IF si + 1 < state.warmup_win THEN {} ELSE
       {w \in {"shift", "history"} :
          \/ w = "shift" /\ state'.shift_win > state.shift_win
          \/ w = "history" /\ state'.h_win # state.h_win}

Init == state = Blank /\ reloads = 0 /\ changed = {} /\ raw = <<>>

Next == FirstStamp \/ LaterStamp \/ ReloadedStamp

Spec == Init /\ [][Next]_vars

------------------------------------------------------------------------------
(* Properties.                                                              *)

\* From the last stamp of the warmup on, the full algorithms are set up.
FullPhase == si >= 0 /\ si >= state.warmup_win - 1

\* The RTT of stamp i, one of the latest.
Raw(i) == raw[Len(raw) - (si - i)]

\* Types: the minima and the stamps kept are RTTs, or 0 where none has been set yet, and
\* no history holds more than it has room for.
TypeOK ==
  /\ si \in -1 .. MaxStamps - 1
  /\ raw \in UNION {[1 .. n -> RTTs] : n \in 0 .. Keep}
  /\ {state.RTThat, state.next_RTThat, state.RTThat_shift, state.stamp,
      state.pstamp, state.next_pstamp} \subseteq RTTs \cup {0}
  /\ \A h \in {state.RTT_hist, state.RTThat_hist} : h.item_count <= h.buffer_sz
  /\ state.absent \in BOOLEAN /\ state.upshift \in BOOLEAN
  /\ reloads \in 0 .. MaxReloads /\ changed \subseteq {"shift", "history"}

\* Every item the algorithms ask of a history is still in it: history_find
\* never returns the NULL that its callers dereference ("It is up to the
\* calling function to ensure that the values needed are still in the
\* array", sync_history.c:289).
NoAbsentItem == ~state.absent

\* RTThat_shift, which process_RTT_full maintains by sliding and which a
\* reload sets again, is the minimum of the raw RTTs of the stamps
\* shift_end..si, and these are the last shift_win stamps, fewer only once a
\* reload has enlarged the window.
ShiftWindowMin == FullPhase /\ ~state.absent =>
  /\ state.RTThat_shift = Min({Raw(k) : k \in state.shift_end .. si})
  /\ si - state.shift_end + 1 <= state.shift_win
  /\ "shift" \notin changed => si - state.shift_end + 1 = state.shift_win

\* "RTThat always below or equal RTThat_shift since h_win/2 > shift_win"
\* (sync_bidir.c:1143): through upward shifts and slides of the history, up
\* to a reload that enlarges the shift window over an earlier shift.
RTThatBelowShift == FullPhase /\ ~state.absent /\ "shift" \notin changed =>
  state.RTThat <= state.RTThat_shift

\* No stamp of the offset window has a negative point error: the minimum
\* recorded in RTThat_hist for it, rewritten by upward shifts, does not
\* exceed its RTT (process_thetahat_full weighs the stamps by the excess).
PointErrors == FullPhase /\ ~state.absent =>
  \A j \in Max2(si - state.offset_win + 1, si - Len(raw) + 1) .. si :
    ~Absent(state.RTThat_hist, j) => history_find(state.RTThat_hist, j) <= Raw(j)

\* Before the end of the warmup far_i and near_i are the best stamps of disjoint windows of
\* wwidth stamps at both ends of the history, so that compute_phat never
\* meets "the same i and j stamp" (sync_bidir.c:1280).
FarNear == si >= 1 /\ si < state.warmup_win - 1 =>
  /\ state.far_i < state.near_i
  /\ state.far_i = history_min(state.RTT_hist, 0, state.wwidth - 1)
  /\ state.near_i \in si - state.wwidth + 1 .. si
  /\ \A k \in si - state.wwidth + 1 .. si :
        history_find(state.RTT_hist, state.near_i) <= history_find(state.RTT_hist, k)

\* Whenever the full period algorithm runs, pstamp is a real earlier stamp no
\* further back than h_win (sync_bidir.c:110, 1388), as long as no reload
\* has changed h_win after the warmup.
PstampInWindow == si >= state.warmup_win /\ "history" \notin changed =>
  /\ state.pstamp_i \in si - state.h_win + 1 .. si - 1
  /\ state.pstamp # 0

\* "pstamp_i < lastshift by design" (sync_bidir.c:1204): an upward shift
\* never concerns the stamp kept from the far past, as long as no reload has
\* enlarged the shift window.
PstampBeforeShift == state.upshift /\ "shift" \notin changed =>
  state.pstamp_i < si - state.shift_win + 1
=============================================================================
