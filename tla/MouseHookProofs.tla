--------------------------- MODULE MouseHookProofs ---------------------------
(***************************************************************************)
(* Proofs about MouseHook, for any configuration of the modes and any      *)
(* number of timers: the delayed press for any buttons and rehooks, the    *)
(* bookkeeping of the buttons for three buttons and rehooks at rest, where *)
(* the mask and the array are sound.                                       *)
(*                                                                         *)
(* What the applications see is proved for a configuration of clicks: in   *)
(* every mode a button alone clicks as itself, a combination presses and   *)
(* releases a button the device does not have, or neither presses,         *)
(* releases nor changes the mode, and so do the wheel and the movement.    *)
(***************************************************************************)
EXTENDS MouseHook, TLAPS

(* What do_action works on. *)
St == [conf : ModeName, app : SUBSET (0 .. MOUSE_BTN_MAX - 1), out : Seq(Slot)]

(* do_action keeps the types and runs one more slot. *)
LEMMA DoKeepsSt ==
    ASSUME NEW st \in St, NEW slot \in Slot
    PROVE  Do(st, slot) \in St /\ Do(st, slot).out = Append(st.out, slot)
<1>1. MouseConf[st.conf][slot] \in Action
  BY ConfAssumption DEF St
<1> QED
  BY <1>1 DEF Do, St, Action

(* What the array and the pending press hold are buttons of the device. *)
Types ==
    /\ TypeOK
    /\ \A k \in 0 .. combinated * 2 - 1 : combination[k] \in Btn
    /\ pressed = 1 => pressed_btn \in Btn /\ cur_conf # NULL

(* So do the state it starts from and the delayed press. *)
LEMMA CurrentFacts ==
    ASSUME Types, cur_conf # NULL
    PROVE  /\ Current \in St /\ Current.out = <<>>
           /\ Flushed \in St
           /\ pressed = 1 => Flushed.out = <<<<"d_act", pressed_btn, pressed_btn>>>>
           /\ pressed = 0 => Flushed.out = <<>>
<1>1. Current \in St /\ Current.out = <<>>
  BY DEF Types, TypeOK, Current, St
<1>2. CASE pressed = 1
  <2>1. <<"d_act", pressed_btn, pressed_btn>> \in Slot
    BY <1>2 DEF Types, Slot
  <2>2. Flushed = Do(Current, <<"d_act", pressed_btn, pressed_btn>>)
    BY <1>2 DEF Flushed
  <2>3. Flushed \in St /\ Flushed.out = Append(<<>>, <<"d_act", pressed_btn, pressed_btn>>)
    BY <1>1, <2>1, <2>2, DoKeepsSt
  <2> QED
    BY <1>1, <1>2, <2>3
<1>3. CASE pressed = 0
  BY <1>1, <1>3 DEF Flushed
<1> QED
  BY <1>1, <1>2, <1>3 DEF Types, TypeOK

(* The state the actions of a step end with, and the slots they run. *)
LEMMA FinishFacts ==
    ASSUME NEW st \in St, Finish(st)
    PROVE  /\ cur_conf' \in ModeName /\ cur_conf' # NULL
           /\ appDown' \subseteq 0 .. MOUSE_BTN_MAX - 1
           /\ out' \in Seq(Slot) /\ out' = st.out
BY ConfAssumption DEF Finish, St

(* The array after a combination is recorded or removed. *)
LEMMA PairAdded ==
    ASSUME NEW c \in 0 .. 4, NEW f \in [0 .. 14 -> 0 .. 4], NEW x \in Btn, NEW y \in Btn,
           \A k \in 0 .. c * 2 - 1 : f[k] \in Btn
    PROVE  LET g == [f EXCEPT ![c * 2] = x, ![c * 2 + 1] = y]
           IN  /\ g \in [0 .. 14 -> 0 .. 4]
               /\ \A k \in 0 .. (c + 1) * 2 - 1 : g[k] \in Btn
<1> DEFINE g == [f EXCEPT ![c * 2] = x, ![c * 2 + 1] = y]
<1>1. Btn \subseteq 0 .. 4
  BY ConfAssumption DEF MOUSE_BTN_MAX
<1>2. g \in [0 .. 14 -> 0 .. 4]
  BY <1>1
<1>3. ASSUME NEW k \in 0 .. (c + 1) * 2 - 1 PROVE g[k] \in Btn
  <2>1. k = c * 2 \/ k = c * 2 + 1 \/ k \in 0 .. c * 2 - 1
    OBVIOUS
  <2>2. k \in 0 .. 14
    OBVIOUS
  <2> QED
    BY <2>1, <2>2
<1> QED
  BY <1>2, <1>3

(* The array without its i-th pair still holds buttons of the device. *)
LEMMA PairRemoved ==
    ASSUME combination \in [0 .. 14 -> 0 .. 4], combinated \in 1 .. 5,
           NEW i \in 0 .. combinated - 1,
           \A k \in 0 .. combinated * 2 - 1 : combination[k] \in Btn
    PROVE  /\ Removed(i) \in [0 .. 14 -> 0 .. 4]
           /\ \A k \in 0 .. (combinated - 1) * 2 - 1 : Removed(i)[k] \in Btn
<1>1. ASSUME NEW k \in Int, k < i * 2 + (combinated - i - 1)
      PROVE  k + 2 < combinated * 2 /\ combinated * 2 <= 10
  BY <1>1
<1>2. Removed(i) \in [0 .. 14 -> 0 .. 4]
  BY <1>1 DEF Removed
<1>3. ASSUME NEW k \in 0 .. (combinated - 1) * 2 - 1 PROVE Removed(i)[k] \in Btn
  <2>1. k \in 0 .. 14 /\ k \in 0 .. combinated * 2 - 1 /\ k \in Int
    OBVIOUS
  <2>2. k < i * 2 + (combinated - i - 1) => k + 2 \in 0 .. combinated * 2 - 1
    BY <1>1, <2>1
  <2> QED
    BY <2>1, <2>2 DEF Removed
<1> QED
  BY <1>2, <1>3

(* The types at the start. *)
LEMMA InitTypes == Init => Types
BY ConfAssumption DEF Init, Types, TypeOK, MOUSE_BTN_MAX

(* The sizes of the arrays. *)
LEMMA MaxFacts == MOUSE_BTN_MAX * 3 - 1 = 14 /\ MOUSE_BTN_MAX - 1 = 4
BY DEF MOUSE_BTN_MAX

(* What the assumption on the configuration says of the constants. *)
LEMMA ConstantFacts ==
    /\ Btn \subseteq 0 .. 4
    /\ MaxComb \in 1 .. 5
    /\ NULL \notin ModeName
BY ConfAssumption DEF MOUSE_BTN_MAX

(* What the types say of the arrays. *)
LEMMA TypesFacts ==
    ASSUME Types
    PROVE  /\ pressed \in {0, 1}
           /\ combinated \in 0 .. MaxComb
           /\ combination \in [0 .. 14 -> 0 .. 4]
           /\ \A k \in 0 .. combinated * 2 - 1 : combination[k] \in Btn
           /\ ignore_btn_mask \subseteq 0 .. 4
           /\ pressed = 1 => pressed_btn \in Btn
BY DEF Types, TypeOK, MOUSE_BTN_MAX

(* A press that completes a combination keeps the types. *)
LEMMA CombinationPressTypes ==
    ASSUME Types, NEW b \in Btn, CombinationPress(b)
    PROVE  Types' /\ cur_conf' # NULL
<1>1. pressed = 1 /\ cur_conf # NULL /\ combinated < MaxComb
  BY DEF CombinationPress, Completes, Filtering
<1>2. pressed_btn \in Btn /\ combinated \in 0 .. 4 /\ combinated + 1 \in 0 .. MaxComb
  BY <1>1, TypesFacts, ConstantFacts
<1>3. /\ combinated' = combinated + 1
      /\ combination' = [combination EXCEPT ![combinated * 2] = pressed_btn,
                                            ![combinated * 2 + 1] = b]
  BY DEF CombinationPress
<1>4. /\ combination' \in [0 .. 14 -> 0 .. 4]
      /\ \A k \in 0 .. combinated' * 2 - 1 : combination'[k] \in Btn
  BY <1>2, <1>3, PairAdded, TypesFacts
<1>5. PICK st \in St : Finish(st)
  <2>1. Do(Current, <<"comb_d_act", pressed_btn, b>>) \in St
    BY <1>1, <1>2, CurrentFacts, DoKeepsSt DEF Slot
  <2> QED
    BY <2>1 DEF CombinationPress
<1>6. /\ pressed' = 0 /\ armed' \subseteq armed /\ physDown' \subseteq Btn
      /\ UNCHANGED <<pressed_btn, comb_timer_id, queued, ignore_btn_mask, hook>>
  BY DEF CombinationPress, Settle, KillPending, Down, Types, TypeOK
<1>7. TypeOK'
  BY <1>2, <1>3, <1>4, <1>5, <1>6, FinishFacts, MaxFacts DEF Types, TypeOK
<1> QED
  BY <1>4, <1>5, <1>6, <1>7, FinishFacts, ConstantFacts DEF Types

(* So does the release of one of its buttons. *)
LEMMA CombinationReleaseTypes ==
    ASSUME Types, NEW b \in Btn, CombinationRelease(b)
    PROVE  Types' /\ cur_conf' # NULL
<1>1. PICK i \in 0 .. combinated - 1 :
         /\ Finish(Do(Flushed, <<"comb_u_act", combination[i * 2], combination[i * 2 + 1]>>))
         /\ ignore_btn_mask' = ignore_btn_mask \cup {Partner(i, b)}
         /\ combination' = Removed(i)
         /\ combinated' = combinated - 1
  BY DEF CombinationRelease
<1>2. /\ combinated \in 1 .. 5 /\ combinated - 1 \in 0 .. MaxComb /\ i \in 0 .. 4
      /\ i * 2 \in 0 .. combinated * 2 - 1 /\ i * 2 + 1 \in 0 .. combinated * 2 - 1
  BY <1>1, TypesFacts, ConstantFacts
<1>3. PICK st \in St : Finish(st)
  <2>1. cur_conf # NULL
    BY DEF CombinationRelease, Filtering
  <2>2. <<"comb_u_act", combination[i * 2], combination[i * 2 + 1]>> \in Slot
    BY <1>2, TypesFacts DEF Slot
  <2> QED
    BY <1>1, <2>1, <2>2, CurrentFacts, DoKeepsSt
<1>4. /\ combination' \in [0 .. 14 -> 0 .. 4]
      /\ \A k \in 0 .. combinated' * 2 - 1 : combination'[k] \in Btn
  BY <1>1, <1>2, PairRemoved, TypesFacts
<1>5. Partner(i, b) \in 0 .. 4
  <2>1. i * 3 \in 0 .. 14 /\ i * 3 + 1 \in 0 .. 14
    BY <1>2
  <2> QED
    BY <2>1, TypesFacts DEF Partner
<1>6. /\ pressed' = 0 /\ armed' \subseteq armed /\ physDown' \subseteq Btn
      /\ UNCHANGED <<pressed_btn, comb_timer_id, queued, hook>>
  BY DEF CombinationRelease, Settle, KillPending, Up, Types, TypeOK
<1>7. TypeOK'
  BY <1>1, <1>2, <1>3, <1>4, <1>5, <1>6, FinishFacts, MaxFacts DEF Types, TypeOK
<1> QED
  BY <1>3, <1>4, <1>6, <1>7, FinishFacts, ConstantFacts DEF Types

(* The steps of mouse_ll_proc that run actions, with the state they end with. *)
LEMMA ButtonTypes ==
    ASSUME Types, NEW b \in Btn, ButtonEvent(b)
    PROVE  Types' /\ (Filtering => cur_conf' # NULL)
<1> USE DEF Types, TypeOK
<1>1. CASE PassDown(b)
  BY <1>1, ConstantFacts, MaxFacts DEF PassDown, Down, combVars, Filtering
<1>2. CASE PassUp(b)
  BY <1>2, ConstantFacts, MaxFacts DEF PassUp, Up, combVars, Filtering
<1>3. CASE Filtering /\ ~PassDown(b) /\ ~PassUp(b)
  <2>1. cur_conf # NULL
    BY <1>3 DEF Filtering
  <2>2. \A s \in {"d_act", "u_act", "comb_d_act", "comb_u_act"}, x, y \in Btn :
           <<s, x, y>> \in Slot
    BY DEF Slot
  <2> USE <2>1, <2>2, CurrentFacts, DoKeepsSt
  <2>3. CASE CombinationPress(b)
    BY <2>3, CombinationPressTypes
  <2>4. CASE IgnoredDown(b)
    <3>1. PICK st \in St : Finish(st)
      BY <2>4 DEF IgnoredDown
    <3> QED
      BY <2>4, <3>1, FinishFacts DEF IgnoredDown, Settle, KillPending, Down
  <2>5. CASE PendingDown(b)
    <3>1. PICK st \in St : Finish(st)
      BY <2>5 DEF PendingDown
    <3> QED
      BY <2>5, <3>1, FinishFacts DEF PendingDown, combVars, Down
  <2>6. CASE PlainDown(b)
    <3>1. PICK st \in St : Finish(st)
      BY <2>6 DEF PlainDown
    <3> QED
      BY <2>6, <3>1, FinishFacts DEF PlainDown, Settle, KillPending, combVars, Down
  <2>7. CASE IgnoredUp(b)
    <3>1. PICK st \in St : Finish(st)
      BY <2>7 DEF IgnoredUp
    <3> QED
      BY <2>7, <3>1, FinishFacts DEF IgnoredUp, Settle, KillPending, Up
  <2>9. CASE PlainUp(b)
    <3>1. PICK st \in St : Finish(st)
      BY <2>9 DEF PlainUp
    <3> QED
      BY <2>9, <3>1, FinishFacts DEF PlainUp, Settle, KillPending, combVars, Up
  <2>8. CASE CombinationRelease(b)
    BY <2>8, CombinationReleaseTypes
  <2> QED
    BY <1>3, <2>3, <2>4, <2>5, <2>6, <2>7, <2>8, <2>9 DEF ButtonEvent
<1> QED
  BY <1>1, <1>2, <1>3 DEF ButtonEvent, PassDown, PassUp, CombinationPress, IgnoredDown,
     PendingDown, PlainDown, IgnoredUp, CombinationRelease, PlainUp

(* So do the steps that are no button's. *)
LEMMA OtherTypes ==
    ASSUME Types,
           \/ Wheel \/ Move \/ LoadSetting \/ ClearHook \/ SetHook
           \/ \E id \in TimerId : TimerExpires(id) \/ CombTimerNone(id) \/ CombTimer(id)
    PROVE  Types' /\ (cur_conf # NULL => cur_conf' # NULL)
<1> USE DEF Types, TypeOK, combVars
<1>1. CASE Wheel \/ Move
  <2>1. PICK slot \in {<<"wheel_act", -1, -1>>, <<"move_act", -1, -1>>}, pass \in {"WHEEL", "MOVE"} :
           Motion(slot, pass)
    BY <1>1 DEF Wheel, Move
  <2>2. slot \in Slot /\ cur_conf # NULL
    BY <2>1 DEF Slot, Motion, Filtering
  <2>3. PICK st \in St : Finish(st)
    BY <2>1, <2>2, CurrentFacts, DoKeepsSt DEF Motion
  <2>4. /\ pressed' = 0 /\ armed' \subseteq armed
        /\ UNCHANGED <<pressed_btn, comb_timer_id, queued, combVars, hook, physDown>>
    BY <2>1 DEF Motion, Settle, KillPending
  <2> QED
    BY <2>2, <2>3, <2>4, FinishFacts
<1>2. CASE LoadSetting
  BY <1>2, ConfAssumption DEF LoadSetting
<1>3. CASE ClearHook
  BY <1>3 DEF ClearHook
<1>4. CASE SetHook
  BY <1>4 DEF SetHook
<1>6. ASSUME NEW id \in TimerId, TimerExpires(id)
      PROVE  Types' /\ cur_conf' = cur_conf
  BY <1>6 DEF TimerExpires
<1>7. ASSUME NEW id \in TimerId, CombTimerNone(id)
      PROVE  Types' /\ cur_conf' = cur_conf
  BY <1>7 DEF CombTimerNone
<1>5. ASSUME NEW id \in TimerId, CombTimer(id) PROVE Types' /\ cur_conf' # NULL
  <2>1. PICK st \in St : Finish(st)
    BY <1>5, CurrentFacts DEF CombTimer
  <2> QED
    BY <1>5, <2>1, FinishFacts DEF CombTimer
<1> QED
  BY <1>1, <1>2, <1>3, <1>4, <1>5, <1>6, <1>7

(* Every step keeps the types. *)
LEMMA TypesStep == Types /\ [Next]_vars => Types'
<1>1. Types /\ UNCHANGED vars => Types'
  BY DEF Types, TypeOK, vars
<1> QED
  BY <1>1, ButtonTypes, OtherTypes DEF Next

(* The types hold throughout. *)
LEMMA TypesInvariance == Spec => []Types
BY InitTypes, TypesStep, PTL DEF Spec

(* The variables keep their types: what is recorded stays in the array,    *)
(* whatever the buttons do and whenever the hook comes and goes.           *)
THEOREM TypeCorrectness == Spec => []TypeOK
<1>1. Types => TypeOK
  BY DEF Types
<1> QED
  BY TypesInvariance, <1>1, PTL

(* A delayed press is never lost (hook.c 223, 265-283), for any buttons    *)
(* and configuration, also when the hook is removed and set meanwhile.     *)
THEOREM DelayedPress == Spec => PendingNeverLost
<1>1. ASSUME Types, Next, pressed = 1, pressed' = 0 \/ pressed_btn' # pressed_btn
      PROVE  out' # <<>> /\ out'[1][1] \in {"d_act", "comb_d_act"} /\ out'[1][2] = pressed_btn
  <2> DEFINE Runs(o) == o # <<>> /\ o[1][1] \in {"d_act", "comb_d_act"} /\ o[1][2] = pressed_btn
  <2>1. cur_conf # NULL /\ pressed_btn \in Btn
    BY <1>1 DEF Types
  <2>2. Flushed \in St /\ Flushed.out = <<<<"d_act", pressed_btn, pressed_btn>>>>
    BY <1>1, <2>1, CurrentFacts
  <2>3. Runs(Flushed.out)
    BY <2>2
  <2>4. ASSUME NEW slot \in Slot PROVE Runs(Do(Flushed, slot).out)
    <3>1. Do(Flushed, slot).out = Append(Flushed.out, slot)
      BY <2>2, DoKeepsSt
    <3> QED
      BY <2>2, <3>1
  <2>5. ASSUME NEW b \in Btn PROVE Runs(Do(Current, <<"comb_d_act", pressed_btn, b>>).out)
    <3>1. Do(Current, <<"comb_d_act", pressed_btn, b>>).out
            = Append(<<>>, <<"comb_d_act", pressed_btn, b>>)
      BY <1>1, <2>1, CurrentFacts, DoKeepsSt DEF Slot
    <3> QED
      BY <3>1
  <2> HIDE DEF Runs
  <2>6. CASE \E b \in Btn : ButtonEvent(b)
    <3> PICK b \in Btn : ButtonEvent(b)
      BY <2>6
    <3>1. CASE PassDown(b) \/ PassUp(b)
      BY <1>1, <3>1 DEF PassDown, PassUp
    <3>2. CASE CombinationPress(b)
      BY <2>5, <3>2 DEF CombinationPress, Finish, Runs
    <3>3. CASE IgnoredDown(b) \/ PendingDown(b) \/ IgnoredUp(b)
      BY <2>3, <3>3 DEF IgnoredDown, PendingDown, IgnoredUp, Finish, Runs
    <3>4. CASE PlainDown(b) \/ PlainUp(b)
      <4>1. <<"d_act", b, b>> \in Slot /\ <<"u_act", b, b>> \in Slot
        BY DEF Slot
      <4> QED
        BY <2>4, <3>4, <4>1 DEF PlainDown, PlainUp, Finish, Runs
    <3>5. CASE CombinationRelease(b)
      <4>1. PICK i \in 0 .. combinated - 1 :
               Finish(Do(Flushed, <<"comb_u_act", combination[i * 2], combination[i * 2 + 1]>>))
        BY <3>5 DEF CombinationRelease
      <4>2. combinated \in Nat /\ i * 2 \in 0 .. combinated * 2 - 1
            /\ i * 2 + 1 \in 0 .. combinated * 2 - 1
        BY <1>1, TypesFacts, ConstantFacts
      <4>3. <<"comb_u_act", combination[i * 2], combination[i * 2 + 1]>> \in Slot
        BY <1>1, <4>2, TypesFacts DEF Slot
      <4> QED
        BY <2>4, <4>1, <4>3 DEF Finish, Runs
    <3> QED
      BY <3>1, <3>2, <3>3, <3>4, <3>5 DEF ButtonEvent
  <2>7. CASE Wheel \/ Move
    <3>1. PICK slot \in {<<"wheel_act", -1, -1>>, <<"move_act", -1, -1>>}, pass \in {"WHEEL", "MOVE"} :
             Motion(slot, pass)
      BY <2>7 DEF Wheel, Move
    <3>2. slot \in Slot
      BY <3>1 DEF Slot
    <3> QED
      BY <2>3, <2>4, <3>1, <3>2 DEF Motion, Finish, Runs
  <2>8. CASE LoadSetting \/ ClearHook \/ SetHook
    BY <1>1, <2>8 DEF LoadSetting, ClearHook, SetHook
  <2>9. CASE \E id \in TimerId : TimerExpires(id) \/ CombTimerNone(id) \/ CombTimer(id)
    BY <1>1, <2>3, <2>9 DEF TimerExpires, CombTimerNone, CombTimer, Finish, Runs
  <2> QED
    BY <1>1, <2>6, <2>7, <2>8, <2>9 DEF Next
<1>2. ASSUME Types, [Next]_vars
      PROVE  [pressed = 1 /\ (pressed' = 0 \/ pressed_btn' # pressed_btn) =>
                 /\ out' # <<>>
                 /\ out'[1][1] \in {"d_act", "comb_d_act"}
                 /\ out'[1][2] = pressed_btn]_vars
  BY <1>1, <1>2
<1> QED
  BY TypesInvariance, <1>2, PTL DEF Spec, PendingNeverLost
-----------------------------------------------------------------------------
(***************************************************************************)
(* The bookkeeping of the buttons.  With three buttons at most one         *)
(* combination is held, since each takes two: the only one is the first,   *)
(* where the indices i * 2 and i * 3 agree and nothing has to be moved.    *)
(* The hook is removed only at rest, as the program does not forget what   *)
(* it recorded.                                                            *)
(***************************************************************************)
ThreeButtons ==
    \A a, b, c, d \in Btn : a = b \/ a = c \/ a = d \/ b = c \/ b = d \/ c = d

Book ==
    /\ combinated \in {0, 1}
    /\ ignore_btn_mask \subseteq physDown
    /\ combinated = 1 => /\ {combination[0], combination[1]} \subseteq physDown \ ignore_btn_mask
                         /\ combination[0] # combination[1]
    /\ pressed = 1 => /\ pressed_btn \in physDown \ ignore_btn_mask
                      /\ combinated = 1 => pressed_btn \notin {combination[0], combination[1]}
    /\ pressed = 1 => comb_timer_id \in armed \cup queued
    /\ hook = "removed" \/ cur_conf = NULL => AtRest

(* The bookkeeping at the start. *)
LEMMA InitBook == Init => Book
BY DEF Init, Book, AtRest

(* A button event keeps the bookkeeping. *)
LEMMA ButtonBook ==
    ASSUME Types, Book, ThreeButtons, NEW b \in Btn, ButtonEvent(b)
    PROVE  Book'
<1>1. Types' /\ (Filtering => cur_conf' # NULL)
  BY ButtonTypes
<1>2. physDown \subseteq Btn /\ hook \in {"installed", "removed"} /\ pressed \in {0, 1}
      /\ DOMAIN combination = 0 .. 14
  BY TypesFacts DEF Types, TypeOK
<1> USE <1>1, <1>2 DEF Book, AtRest, Filtering
<1>3. CASE PassDown(b)
  BY <1>3 DEF PassDown, Down, combVars
<1>4. CASE PassUp(b)
  BY <1>4 DEF PassUp, Up, combVars
<1>5. CASE CombinationPress(b)
  BY <1>5 DEF CombinationPress, Completes, Settle, Down, ThreeButtons
<1>6. CASE IgnoredDown(b)
  BY <1>6 DEF IgnoredDown, Down
<1>7. CASE PendingDown(b)
  BY <1>7 DEF PendingDown, Down, combVars
<1>8. CASE PlainDown(b)
  BY <1>8 DEF PlainDown, Down, Settle, combVars
<1>9. CASE IgnoredUp(b)
  BY <1>9 DEF IgnoredUp, Up, Settle
<1>10. CASE CombinationRelease(b)
  BY <1>10 DEF CombinationRelease, Up, Settle, InPair, Partner, Removed
<1>11. CASE PlainUp(b)
  BY <1>11 DEF PlainUp, Up, Settle, combVars, InPair
<1> QED
  BY <1>3, <1>4, <1>5, <1>6, <1>7, <1>8, <1>9, <1>10, <1>11 DEF ButtonEvent

(* So do the other steps, as long as the hook is removed at rest only. *)
LEMMA OtherBook ==
    ASSUME Types, Book, Rehook # "any",
           \/ Wheel \/ Move \/ LoadSetting \/ ClearHook \/ SetHook
           \/ \E id \in TimerId : TimerExpires(id) \/ CombTimerNone(id) \/ CombTimer(id)
    PROVE  Book'
<1>1. Types' /\ (cur_conf # NULL => cur_conf' # NULL)
  BY OtherTypes
<1> USE <1>1 DEF Book, AtRest, combVars
<1>2. CASE Wheel \/ Move
  BY <1>2 DEF Wheel, Move, Motion, Settle, Filtering
<1>3. CASE LoadSetting
  BY <1>3 DEF LoadSetting
<1>4. CASE ClearHook
  BY <1>4, ConfAssumption DEF ClearHook
<1>5. CASE SetHook
  BY <1>5 DEF SetHook
<1>6. ASSUME NEW id \in TimerId, TimerExpires(id) PROVE Book'
  BY <1>6 DEF TimerExpires
<1>7. ASSUME NEW id \in TimerId, CombTimerNone(id) PROVE Book'
  BY <1>7 DEF CombTimerNone
<1>8. ASSUME NEW id \in TimerId, CombTimer(id) PROVE Book'
  BY <1>8 DEF CombTimer
<1> QED
  BY <1>2, <1>3, <1>4, <1>5, <1>6, <1>7, <1>8

(* Every step keeps the bookkeeping. *)
LEMMA BookStep ==
    ASSUME Types, Book, ThreeButtons, Rehook # "any", [Next]_vars
    PROVE  Book'
<1>1. CASE UNCHANGED vars
  BY <1>1 DEF vars, Book, AtRest
<1> QED
  BY <1>1, ButtonBook, OtherBook DEF Next

(* Every debt of the hook is for a button that is held, in one role only   *)
(* (hook.c 265-338), for any configuration of three buttons.               *)
THEOREM Debts ==
    ASSUME ThreeButtons, Rehook # "any"
    PROVE  Spec => []DebtsAreHeld
<1>1. Types /\ Book /\ [Next]_vars => Types' /\ Book'
  BY TypesStep, BookStep
<1>2. Types /\ Book => DebtsAreHeld
  <2> SUFFICES ASSUME Types, Book PROVE DebtsAreHeld
    OBVIOUS
  <2>1. Paired = IF combinated = 1 THEN {combination[0], combination[1]} ELSE {}
    BY DEF Book, Paired, InPair, Types, TypeOK
  <2>2. \A i, j \in 0 .. combinated * 2 - 1 : combination[i] = combination[j] => i = j
    BY DEF Book
  <2> QED
    BY <2>1, <2>2 DEF Book, DebtsAreHeld
<1> QED
  BY InitTypes, InitBook, <1>1, <1>2, PTL DEF Spec

(* A waiting press has a timer that will decide it (hook.c 254-304).       *)
THEOREM Timers ==
    ASSUME ThreeButtons, Rehook # "any"
    PROVE  Spec => []PendingHasTimer
<1>1. Types /\ Book /\ [Next]_vars => Types' /\ Book'
  BY TypesStep, BookStep
<1>2. Book => PendingHasTimer
  BY DEF Book, PendingHasTimer
<1> QED
  BY InitTypes, InitBook, <1>1, <1>2, PTL DEF Spec
-----------------------------------------------------------------------------
(* The refinement: the hook, seen button by button, is ButtonPhases.        *)

(* What is recorded is for buttons that are held; with three buttons there is at
   most one combination. *)
Held ==
    /\ combinated \in {0, 1}
    /\ ignore_btn_mask \subseteq physDown
    /\ combinated = 1 => /\ {combination[0], combination[1]} \subseteq physDown \ ignore_btn_mask
                         /\ combination[0] # combination[1]
    /\ pressed = 1 => /\ pressed_btn \in physDown \ ignore_btn_mask
                      /\ combinated = 1 => pressed_btn \notin {combination[0], combination[1]}

(* Three buttons hold one combination at most; the debts say the rest. *)
LEMMA HeldFromDebts ==
    ASSUME Types, ThreeButtons, DebtsAreHeld
    PROVE  Held
<1>1. combinated \in Nat /\ \A k \in 0 .. combinated * 2 - 1 : combination[k] \in Btn
  BY TypesFacts, ConstantFacts
<1>2. combinated \in {0, 1}
  <2> SUFFICES ASSUME combinated >= 2 PROVE FALSE
    BY <1>1
  <2>1. 0 \in 0 .. combinated * 2 - 1 /\ 1 \in 0 .. combinated * 2 - 1
        /\ 2 \in 0 .. combinated * 2 - 1 /\ 3 \in 0 .. combinated * 2 - 1
    BY <1>1
  <2>2. /\ combination[0] \in Btn /\ combination[1] \in Btn
        /\ combination[2] \in Btn /\ combination[3] \in Btn
    BY <1>1, <2>1
  <2>3. /\ combination[0] # combination[1] /\ combination[0] # combination[2]
        /\ combination[0] # combination[3] /\ combination[1] # combination[2]
        /\ combination[1] # combination[3] /\ combination[2] # combination[3]
    BY <2>1 DEF DebtsAreHeld
  <2> QED
    BY <2>2, <2>3 DEF ThreeButtons
<1>3. combinated = 1 => /\ 0 \in 0 .. combinated * 2 - 1 /\ 1 \in 0 .. combinated * 2 - 1
                        /\ combination[0] \in Paired /\ combination[1] \in Paired
  BY <1>1 DEF Paired, InPair
<1>4. combinated = 1 => combination[0] # combination[1]
  BY <1>3 DEF DebtsAreHeld
<1> QED
  BY <1>2, <1>3, <1>4 DEF Held, DebtsAreHeld

(* What a button's phase and the recorded combinations are in ButtonPhases. *)
phase == [b \in Btn |-> PhaseOf(b)]
pairs == {<<combination[i * 2], combination[i * 2 + 1]>> : i \in 0 .. combinated - 1}

(* The combinations as sets, when there is one at most. *)
LEMMA HeldFacts ==
    Types /\ Held =>
        /\ Paired = IF combinated = 1 THEN {combination[0], combination[1]} ELSE {}
        /\ pairs = IF combinated = 1 THEN {<<combination[0], combination[1]>>} ELSE {}
BY TypesFacts DEF Held, Paired, pairs, InPair

(* The same after a step. *)
LEMMA HeldFactsNext ==
    ASSUME Types', Held'
    PROVE  /\ Paired' = IF combinated' = 1 THEN {combination'[0], combination'[1]} ELSE {}
           /\ pairs' = IF combinated' = 1 THEN {<<combination'[0], combination'[1]>>} ELSE {}
<1>1. (Types /\ Held =>
        /\ Paired = IF combinated = 1 THEN {combination[0], combination[1]} ELSE {}
        /\ pairs = IF combinated = 1 THEN {<<combination[0], combination[1]>>} ELSE {})'
  BY HeldFacts, PTL
<1> QED
  BY <1>1

(* What the decision about the pending press runs. *)
FlushedOut == IF pressed = 1 THEN <<<<"d_act", pressed_btn, pressed_btn>>>> ELSE <<>>

(* What a step runs is appended to what it has run. *)
LEMMA RunsFacts ==
    ASSUME Types, cur_conf # NULL, NEW slot
    PROVE  /\ Finish(Do(Current, slot)) => out' = <<slot>>
           /\ Finish(Flushed) => out' = FlushedOut
           /\ Finish(Do(Flushed, slot)) => out' = Append(FlushedOut, slot)
<1>1. Current.out = <<>> /\ Flushed.out = FlushedOut
  BY CurrentFacts, TypesFacts DEF FlushedOut
<1>2. \A st : Do(st, slot).out = Append(st.out, slot)
  BY DEF Do
<1>3. Append(<<>>, slot) = <<slot>>
  OBVIOUS
<1> QED
  BY <1>1, <1>2, <1>3 DEF Finish

(* The decision, in the phases. *)
LEMMA DecidedFacts ==
    ASSUME Types, Held
    PROVE  /\ Phases!Decides(FlushedOut)
           /\ FlushedOut \in {<<>>} \cup {<<<<"d_act", p, p>>>> : p \in Btn}
           /\ Phases!Decided = [b \in Btn |-> IF pressed = 1 /\ b = pressed_btn THEN "plain"
                                              ELSE PhaseOf(b)]
           /\ phase \in [Btn -> {"up", "pending", "plain", "paired", "ignored"}]
<1>1. CASE pressed = 1
  <2>1. pressed_btn \in Btn /\ PhaseOf(pressed_btn) = "pending"
    BY <1>1, TypesFacts DEF Held, PhaseOf
  <2>2. \A b \in Btn : PhaseOf(b) = "pending" <=> b = pressed_btn
    BY <1>1, <2>1 DEF PhaseOf
  <2>3. FlushedOut = <<<<"d_act", pressed_btn, pressed_btn>>>>
    BY <1>1 DEF FlushedOut
  <2>4. Phases!Decides(FlushedOut)
    BY <2>1, <2>3 DEF Phases!Decides
  <2> QED
    BY <1>1, <2>1, <2>2, <2>3, <2>4 DEF Phases!Decided, PhaseOf, phase
<1>2. CASE pressed # 1
  <2>1. \A b \in Btn : PhaseOf(b) # "pending"
    BY <1>2 DEF PhaseOf
  <2>2. FlushedOut = <<>>
    BY <1>2 DEF FlushedOut
  <2>3. Phases!Decides(FlushedOut)
    BY <2>1, <2>2 DEF Phases!Decides
  <2> QED
    BY <1>2, <2>1, <2>2, <2>3 DEF Phases!Decided, PhaseOf, phase
<1> QED
  BY <1>1, <1>2

(* hook.c 260-279: the press that completes a combination. *)
LEMMA CombineStep ==
    ASSUME Types, Held, ThreeButtons, NEW b \in Btn, CombinationPress(b), Types', Held', Filtering'
    PROVE  Phases!Combine(b)
<1>1. Filtering /\ pressed = 1 /\ pressed_btn \in Btn /\ b \notin physDown /\ pressed_btn \in physDown
      /\ pressed' = 0 /\ physDown' = physDown \cup {b} /\ UNCHANGED ignore_btn_mask
  BY TypesFacts DEF CombinationPress, Down, Completes, Held, Settle
<1>2. combinated' = combinated + 1
  BY DEF CombinationPress
<1>3. combinated = 0 /\ combinated' = 1
  BY <1>2 DEF Held
<1>4. combination'[0] = pressed_btn /\ combination'[1] = b
  BY <1>3, TypesFacts DEF CombinationPress
<1>5. pairs = {} /\ pairs' = {<<pressed_btn, b>>}
  BY <1>3, <1>4, HeldFacts, HeldFactsNext
<1>6. phase' = [phase EXCEPT ![pressed_btn] = "paired", ![b] = "paired"]
  <2>1. Paired = {} /\ Paired' = {pressed_btn, b}
    BY <1>3, <1>4, HeldFacts, HeldFactsNext
  <2> QED
    BY <1>1, <2>1 DEF phase, PhaseOf, Held
<1>7. out' = <<<<"comb_d_act", pressed_btn, b>>>>
  <2>1. cur_conf # NULL
    BY <1>1 DEF Filtering
  <2> QED
    BY <2>1, <1>1, RunsFacts DEF CombinationPress
<1>8. phase[b] = "up" /\ phase[pressed_btn] = "pending" /\ pressed_btn \in Btn \ {b}
  BY <1>1 DEF phase, PhaseOf
<1> QED
  BY <1>1, <1>5, <1>6, <1>7, <1>8 DEF Phases!Combine, phase, pairs

(* A step that leaves the combinations and what is ignored alone. *)
LEMMA SameRoles ==
    ASSUME UNCHANGED combVars
    PROVE  pairs' = pairs /\ Paired' = Paired
BY DEF pairs, Paired, InPair, combVars

(* hook.c 293-306: a press that may begin a combination waits. *)
LEMMA PressPendingStep ==
    ASSUME Types, Held, NEW b \in Btn, PendingDown(b), Filtering'
    PROVE  Phases!PressPending(b)
<1>1. /\ Filtering /\ cur_conf # NULL /\ b \notin physDown /\ physDown' = physDown \cup {b}
      /\ pressed' = 1 /\ pressed_btn' = b /\ UNCHANGED combVars /\ Finish(Flushed)
  BY DEF PendingDown, Down, Filtering
<1>2. pairs' = pairs /\ Paired' = Paired /\ ignore_btn_mask' = ignore_btn_mask
  BY <1>1, SameRoles DEF combVars
<1>3. out' = FlushedOut
  BY <1>1, RunsFacts
<1>4. phase' = [Phases!Decided EXCEPT ![b] = "pending"]
  <2>1. b \notin Paired /\ b \notin ignore_btn_mask
    BY <1>1, HeldFacts DEF Held
  <2> QED
    BY <1>1, <1>2, <2>1, DecidedFacts, HeldFacts DEF phase, PhaseOf, Held
<1>5. phase[b] = "up"
  BY <1>1 DEF phase, PhaseOf
<1> QED
  BY <1>1, <1>2, <1>3, <1>4, <1>5, DecidedFacts DEF Phases!PressPending, phase, pairs

(* hook.c 341-343: a press that cannot begin one runs its action. *)
LEMMA PressAloneStep ==
    ASSUME Types, Held, NEW b \in Btn, PlainDown(b), Filtering'
    PROVE  Phases!PressAlone(b)
<1>1. /\ Filtering /\ cur_conf # NULL /\ b \notin physDown /\ physDown' = physDown \cup {b}
      /\ pressed' = 0 /\ UNCHANGED combVars /\ Finish(Do(Flushed, <<"d_act", b, b>>))
  BY DEF PlainDown, Down, Filtering, Settle
<1>2. pairs' = pairs /\ Paired' = Paired /\ ignore_btn_mask' = ignore_btn_mask
  BY <1>1, SameRoles DEF combVars
<1>3. out' = Append(FlushedOut, <<"d_act", b, b>>)
  BY <1>1, RunsFacts
<1>4. phase' = [Phases!Decided EXCEPT ![b] = "plain"]
  <2>1. b \notin Paired /\ b \notin ignore_btn_mask
    BY <1>1, HeldFacts DEF Held
  <2> QED
    BY <1>1, <1>2, <2>1, DecidedFacts, HeldFacts DEF phase, PhaseOf, Held
<1>5. phase[b] = "up"
  BY <1>1 DEF phase, PhaseOf
<1> QED
  BY <1>1, <1>2, <1>3, <1>4, <1>5, DecidedFacts DEF Phases!PressAlone, phase, pairs

(* hook.c 344-346: the release of a button that was pressed alone. *)
LEMMA ReleaseAloneStep ==
    ASSUME Types, Held, NEW b \in Btn, PlainUp(b), Filtering'
    PROVE  Phases!ReleaseAlone(b)
<1>1. /\ Filtering /\ cur_conf # NULL /\ b \in physDown /\ physDown' = physDown \ {b}
      /\ pressed' = 0 /\ UNCHANGED combVars /\ Finish(Do(Flushed, <<"u_act", b, b>>))
      /\ b \notin ignore_btn_mask /\ \A i \in 0 .. combinated - 1 : ~InPair(i, b)
  BY DEF PlainUp, Up, Filtering, Settle
<1>2. pairs' = pairs /\ Paired' = Paired /\ ignore_btn_mask' = ignore_btn_mask
  BY <1>1, SameRoles DEF combVars
<1>3. out' = Append(FlushedOut, <<"u_act", b, b>>)
  BY <1>1, RunsFacts
<1>4. b \notin Paired
  BY <1>1 DEF Paired
<1>5. phase' = [Phases!Decided EXCEPT ![b] = "up"]
  BY <1>1, <1>2, <1>4, DecidedFacts, HeldFacts DEF phase, PhaseOf, Held
<1>6. phase[b] \in {"pending", "plain"}
  BY <1>1, <1>4 DEF phase, PhaseOf
<1> QED
  BY <1>1, <1>2, <1>3, <1>5, <1>6, DecidedFacts DEF Phases!ReleaseAlone, phase, pairs

(* hook.c 286-291: the release of a button that is ignored. *)
LEMMA ReleaseIgnoredStep ==
    ASSUME Types, Held, NEW b \in Btn, IgnoredUp(b), Filtering'
    PROVE  Phases!ReleaseIgnored(b)
<1>1. /\ Filtering /\ cur_conf # NULL /\ b \in physDown /\ physDown' = physDown \ {b}
      /\ pressed' = 0 /\ UNCHANGED <<combinated, combination>> /\ Finish(Flushed)
      /\ b \in ignore_btn_mask /\ ignore_btn_mask' = ignore_btn_mask \ {b}
  BY DEF IgnoredUp, Up, Filtering, Settle
<1>2. pairs' = pairs /\ Paired' = Paired
  BY <1>1 DEF pairs, Paired, InPair
<1>3. out' = FlushedOut
  BY <1>1, RunsFacts
<1>4. b \notin Paired /\ (pressed = 1 => pressed_btn # b)
  BY <1>1, HeldFacts DEF Held
<1>5. phase' = [Phases!Decided EXCEPT ![b] = "up"]
  BY <1>1, <1>2, <1>4, DecidedFacts, HeldFacts DEF phase, PhaseOf, Held
<1>6. phase[b] = "ignored"
  BY <1>1, <1>4 DEF phase, PhaseOf
<1> QED
  BY <1>1, <1>2, <1>3, <1>5, <1>6, DecidedFacts DEF Phases!ReleaseIgnored, phase, pairs

(* hook.c 308-339: the release that ends a combination. *)
LEMMA ReleaseCombinationStep ==
    ASSUME Types, Held, NEW b \in Btn, CombinationRelease(b), Types', Held', Filtering'
    PROVE  Phases!ReleaseCombination(b)
<1> DEFINE x == combination[0]
           y == combination[1]
<1>1. /\ Filtering /\ cur_conf # NULL /\ b \in physDown /\ physDown' = physDown \ {b}
      /\ pressed' = 0
  BY DEF CombinationRelease, Up, Filtering, Settle
<1>2. /\ combinated = 1 /\ combinated' = 0 /\ b \in {x, y}
      /\ Finish(Do(Flushed, <<"comb_u_act", x, y>>))
      /\ ignore_btn_mask' = ignore_btn_mask \cup {IF x = b THEN y ELSE x}
  BY DEF CombinationRelease, Held, InPair, Partner
<1>3. /\ x \in Btn /\ y \in Btn /\ x # y /\ {x, y} \subseteq physDown
      /\ pressed = 1 => pressed_btn \notin {x, y}
  BY <1>2, TypesFacts DEF Held
<1>4. pairs = {<<x, y>>} /\ Paired = {x, y} /\ pairs' = {} /\ Paired' = {}
  BY <1>2, HeldFacts, HeldFactsNext
<1>5. out' = Append(FlushedOut, <<"comb_u_act", x, y>>)
  BY <1>1, <1>2, RunsFacts
<1> HIDE DEF x, y
<1>6. phase' = [Phases!Decided EXCEPT ![x] = "ignored", ![y] = "ignored", ![b] = "up"]
  BY <1>1, <1>2, <1>3, <1>4, DecidedFacts DEF phase, PhaseOf
<1>7. pairs' = pairs \ {<<x, y>>} /\ <<x, y>> \in pairs
  BY <1>4
<1> QED
  BY <1>1, <1>2, <1>3, <1>5, <1>6, <1>7, DecidedFacts DEF Phases!ReleaseCombination, phase, pairs

(* The steps that decide the pending press, if there is one, and change no button. *)
LEMMA DecideStep ==
    ASSUME Types, Held, Filtering, Filtering', pressed' = 0, UNCHANGED <<combVars, physDown>>,
           out' \in {FlushedOut, Append(FlushedOut, <<"wheel_act", -1, -1>>),
                     Append(FlushedOut, <<"move_act", -1, -1>>)}
    PROVE  Phases!Decide
<1>1. pairs' = pairs /\ Paired' = Paired /\ ignore_btn_mask' = ignore_btn_mask
  BY SameRoles DEF combVars
<1>2. phase' = Phases!Decided
  BY <1>1, DecidedFacts, HeldFacts DEF phase, PhaseOf, Held
<1> QED
  BY <1>1, <1>2, DecidedFacts DEF Phases!Decide, phase, pairs

(* A step that neither runs nor records anything. *)
LEMMA QuietStep ==
    ASSUME UNCHANGED <<combVars, physDown, pressed, pressed_btn>>, out' = <<>>, Filtering' <=> Filtering
    PROVE  Phases!Quiet
<1>1. pairs' = pairs /\ Paired' = Paired /\ ignore_btn_mask' = ignore_btn_mask
  BY SameRoles DEF combVars
<1>2. phase' = phase
  BY <1>1 DEF phase, PhaseOf
<1> QED
  BY <1>1, <1>2 DEF Phases!Quiet, phase, pairs

(* Once settings are loaded they are never unloaded. *)
LEMMA StaysFiltering ==
    ASSUME Types, [Next]_vars, Filtering, hook' = "installed"
    PROVE  Filtering'
BY ButtonTypes, OtherTypes DEF Next, Filtering, vars

(* Each step of the filtering hook is one of ButtonPhases. *)
LEMMA PhaseStep ==
    ASSUME Types, Types', Held, Held', ThreeButtons, Next, Filtering, Filtering'
    PROVE  Phases!Next
<1>0. cur_conf # NULL
  BY DEF Filtering
<1>1. ASSUME NEW b \in Btn, ButtonEvent(b) PROVE Phases!Next
  <2>1. ~PassDown(b) /\ ~PassUp(b)
    BY DEF PassDown, PassUp
  <2>2. ~IgnoredDown(b)
    BY DEF IgnoredDown, Down, Held
  <2> QED
    BY <1>1, <2>1, <2>2, CombineStep, PressPendingStep, PressAloneStep, ReleaseAloneStep,
       ReleaseIgnoredStep, ReleaseCombinationStep DEF ButtonEvent, Phases!Next
<1>2. ASSUME NEW slot \in {<<"wheel_act", -1, -1>>, <<"move_act", -1, -1>>}, NEW pass,
             Motion(slot, pass)
      PROVE  Phases!Next
  <2>1. out' \in {FlushedOut, Append(FlushedOut, slot)}
    BY <1>0, <1>2, RunsFacts DEF Motion
  <2>2. pressed' = 0 /\ UNCHANGED <<combVars, physDown>>
    BY <1>2 DEF Motion, Settle
  <2> QED
    BY <2>1, <2>2, DecideStep DEF Phases!Next
<1>3. ASSUME NEW id \in TimerId, CombTimer(id)
      PROVE  Phases!Next
  <2>1. out' = FlushedOut
    BY <1>0, <1>3, RunsFacts DEF CombTimer
  <2> QED
    BY <1>3, <2>1, DecideStep DEF CombTimer, Phases!Next
<1>4. ASSUME NEW id \in TimerId, TimerExpires(id) \/ CombTimerNone(id)
      PROVE  Phases!Next
  BY <1>4, QuietStep DEF TimerExpires, CombTimerNone, Phases!Next
<1>5. ~LoadSetting /\ ~ClearHook /\ ~SetHook
  BY DEF LoadSetting, ClearHook, SetHook, Filtering
<1> QED
  BY <1>1, <1>2, <1>3, <1>4, <1>5 DEF Next, Wheel, Move

(* HeldFromDebts after a step. *)
LEMMA NextHeldFromDebts ==
    ASSUME ThreeButtons, Types', DebtsAreHeld'
    PROVE  Held'
<1>1. (ThreeButtons /\ Types /\ DebtsAreHeld => Held)'
  BY HeldFromDebts, PTL
<1> QED
  BY <1>1

(* While the debts are held, the hook (hook.c 229-374) does to the buttons what
   ButtonPhases says, whatever the mode changes and the reinstallations of the hook. *)
THEOREM HandledAsPhases ==
    ASSUME ThreeButtons
    PROVE  Spec => PhasesWhileHeld
<1>1. ASSUME Types, Types', [Next]_vars
      PROVE  [DebtsAreHeld /\ DebtsAreHeld' /\ Filtering /\ Filtering' => Phases!Next]_vars
  BY <1>1, HeldFromDebts, NextHeldFromDebts, PhaseStep
<1> QED
  BY TypesInvariance, <1>1, PTL DEF Spec, PhasesWhileHeld

-----------------------------------------------------------------------------
(* The steps while the hook filters nothing: nothing is recorded. *)
LEMMA AtRestPhases ==
    ASSUME Types, AtRest
    PROVE  /\ Held /\ pairs = {} /\ Paired = {}
           /\ phase = [b \in Btn |-> IF b \in physDown THEN "plain" ELSE "up"]
<1>1. Held
  BY DEF AtRest, Held
<1>2. pairs = {} /\ Paired = {}
  BY <1>1, HeldFacts DEF AtRest
<1>3. phase = [b \in Btn |-> IF b \in physDown THEN "plain" ELSE "up"]
  BY <1>2 DEF AtRest, phase, PhaseOf
<1> QED
  BY <1>1, <1>2, <1>3

(* The same after a step. *)
LEMMA NextAtRestPhases ==
    ASSUME Types', AtRest'
    PROVE  /\ pairs' = {}
           /\ phase' = [b \in Btn |-> IF b \in physDown' THEN "plain" ELSE "up"]
<1>1. (Types /\ AtRest => /\ pairs = {}
           /\ phase = [b \in Btn |-> IF b \in physDown THEN "plain" ELSE "up"])'
  BY AtRestPhases, PTL
<1> QED
  BY <1>1

(* Where the hook filters nothing, or begins or ceases to, all the buttons are up
   or plain: it is the environment that ButtonPhases sees. *)
LEMMA UnfilteredStep ==
    ASSUME Types, Types', Book, Book', Next, ~Filtering \/ ~Filtering'
    PROVE  Phases!Next
<1>1. AtRest
  <2>1. hook \in {"installed", "removed"}
    BY DEF Types, TypeOK
  <2>2. CASE ~Filtering
    BY <2>1, <2>2 DEF Book, Filtering
  <2>3. CASE Filtering /\ ~Filtering'
    <3>1. hook' # "installed"
      BY <2>3, StaysFiltering
    <3>2. ClearHook
      BY <2>3, <3>1 DEF Next, ButtonEvent, PassDown, PassUp, CombinationPress, IgnoredDown,
         PendingDown, PlainDown, IgnoredUp, CombinationRelease, PlainUp, Down, Up, Wheel,
         Move, Motion, TimerExpires, CombTimerNone, CombTimer, LoadSetting, SetHook,
         Filtering
    <3>3. AtRest' /\ AtRest' = AtRest
      BY <3>2 DEF ClearHook, Book, AtRest, combVars
    <3> QED
      BY <3>3
  <2> QED
    BY <2>2, <2>3
<1>2. pairs = {} /\ phase = [b \in Btn |-> IF b \in physDown THEN "plain" ELSE "up"]
  BY <1>1, AtRestPhases
<1>3. ASSUME NEW b \in Btn, PassDown(b) \/ PassUp(b) PROVE Phases!Next
  <2>1. AtRest' /\ (~Filtering /\ ~Filtering') /\ out' = <<>>
    BY <1>1, <1>3 DEF PassDown, PassUp, Down, Up, AtRest, combVars, Filtering
  <2>2. pairs' = {} /\ phase' = [c \in Btn |-> IF c \in physDown' THEN "plain" ELSE "up"]
    BY <2>1, NextAtRestPhases
  <2>3. phase' = [phase EXCEPT ![b] = IF @ = "up" THEN "plain" ELSE "up"]
    BY <1>2, <1>3, <2>2 DEF PassDown, PassUp, Down, Up
  <2>4. phase[b] \in {"up", "plain"}
    BY <1>2
  <2>5. Phases!Bypass(b)
    BY <1>2, <2>1, <2>2, <2>3, <2>4 DEF Phases!Bypass, phase, pairs
  <2> QED
    BY <2>5 DEF Phases!Next
<1>4. CASE LoadSetting \/ ClearHook \/ SetHook
  <2>1. AtRest' /\ out' = <<>> /\ physDown' = physDown
    BY <1>1, <1>4 DEF LoadSetting, ClearHook, SetHook, AtRest, combVars
  <2>2. pairs' = pairs /\ phase' = phase
    BY <1>2, <2>1, NextAtRestPhases
  <2>3. \A b \in Btn : phase[b] \in {"up", "plain"}
    BY <1>2
  <2>4. Phases!Switch
    BY <2>1, <2>2, <2>3 DEF Phases!Switch, Phases!Settled, phase, pairs
  <2> QED
    BY <2>4 DEF Phases!Next
<1>5. ASSUME NEW id \in TimerId, TimerExpires(id) \/ CombTimerNone(id)
      PROVE  Phases!Next
  BY <1>5, QuietStep DEF TimerExpires, CombTimerNone, Phases!Next, Filtering
<1>6. \A id \in TimerId : ~CombTimer(id)
  BY <1>1 DEF CombTimer, AtRest
<1>7. CASE Filtering
  <2>1. hook' # "installed"
    BY <1>7, StaysFiltering
  <2> QED
    BY <1>4, <1>7, <2>1 DEF Next, ButtonEvent, PassDown, PassUp, CombinationPress, IgnoredDown,
         PendingDown, PlainDown, IgnoredUp, CombinationRelease, PlainUp, Down, Up, Wheel,
         Move, Motion, TimerExpires, CombTimerNone, CombTimer, Filtering
<1> QED
  BY <1>3, <1>4, <1>5, <1>6, <1>7 DEF Next, ButtonEvent, CombinationPress, IgnoredDown, PendingDown,
     PlainDown, IgnoredUp, CombinationRelease, PlainUp, Wheel, Move, Motion

(* The mapping reads nothing but the variables. *)
LEMMA PhasesUnchanged ==
    ASSUME UNCHANGED vars
    PROVE  UNCHANGED Phases!vars
BY DEF vars, Phases!vars, PhaseOf, Paired, InPair, Filtering

(* The hook begins where ButtonPhases begins. *)
LEMMA PhasesInit == Init => Phases!Init
<1> SUFFICES ASSUME Init PROVE Phases!Init
  OBVIOUS
<1>1. combinated = 0 /\ physDown = {} /\ out = <<>> /\ ~Filtering
  BY DEF Init, Filtering
<1>2. \A b \in Btn : PhaseOf(b) = "up"
  BY <1>1 DEF PhaseOf
<1>3. pairs = {}
  BY <1>1 DEF pairs
<1> QED
  BY <1>1, <1>2, <1>3 DEF Phases!Init, pairs

(* The mouse hook (hook.c 229-374) implements ButtonPhases, for any configuration
   of three buttons, when the hook is removed only with nothing recorded. *)
THEOREM Implements ==
    ASSUME ThreeButtons, Rehook # "any"
    PROVE  Spec => ImplementsPhases
<1>1. Types /\ Book /\ [Next]_vars => Types' /\ Book'
  BY TypesStep, BookStep
<1>2. ASSUME Types, Types', Book, Book', [Next]_vars
      PROVE  [Phases!Next]_(Phases!vars)
  <2>1. Held /\ Held'
    BY <1>2 DEF Book, Held
  <2>2. CASE UNCHANGED vars
    BY <2>2, PhasesUnchanged
  <2>3. CASE Next
    BY <1>2, <2>1, <2>3, PhaseStep, UnfilteredStep
  <2> QED
    BY <1>2, <2>2, <2>3
<1> QED
  BY InitTypes, InitBook, PhasesInit, <1>1, <1>2, PTL DEF Spec, ImplementsPhases, Phases!Spec

(* A press that the hook sees is the pending one, or it or the combination it
   completes is run in that very step (hook.c 254-300). *)
THEOREM PressKept ==
    ASSUME ThreeButtons, Rehook # "any"
    PROVE  Spec => PressNotSwallowed
<1>1. Types /\ Book /\ [Next]_vars => Types' /\ Book'
  BY TypesStep, BookStep
<1>2. ASSUME Types, Book, Next, NEW b \in Btn, Filtering, b \in physDown' \ physDown
      PROVE  \/ pressed' = 1 /\ pressed_btn' = b
             \/ \E i \in DOMAIN out' : b \in {out'[i][2], out'[i][3]}
  <2>0. cur_conf # NULL
    BY <1>2 DEF Filtering
  <2>1. CombinationPress(b) \/ PendingDown(b) \/ PlainDown(b)
    <3>1. PICK c \in Btn : ButtonEvent(c)
      BY <1>2 DEF Next, Wheel, Move, Motion, TimerExpires, CombTimerNone, CombTimer,
         LoadSetting, ClearHook, SetHook
    <3>2. c = b /\ Down(b)
      BY <1>2, <3>1 DEF ButtonEvent, PassDown, CombinationPress, IgnoredDown, PendingDown,
         PlainDown, PassUp, IgnoredUp, CombinationRelease, PlainUp, Down, Up
    <3>3. ~IgnoredDown(b) /\ ~PassDown(b) /\ ~Up(b)
      BY <1>2 DEF IgnoredDown, PassDown, Book, Up
    <3> QED
      BY <3>1, <3>2, <3>3 DEF ButtonEvent, PassUp, IgnoredUp, CombinationRelease, PlainUp
  <2>2. CASE CombinationPress(b)
    <3>1. out' = <<<<"comb_d_act", pressed_btn, b>>>>
      BY <1>2, <2>0, <2>2, RunsFacts DEF CombinationPress
    <3> QED
      BY <3>1
  <2>3. CASE PendingDown(b)
    BY <2>3 DEF PendingDown
  <2>4. CASE PlainDown(b)
    <3>1. out' = Append(FlushedOut, <<"d_act", b, b>>)
      BY <1>2, <2>0, <2>4, RunsFacts DEF PlainDown
    <3>2. FlushedOut \in Seq(Slot) /\ <<"d_act", b, b>> \in Slot
      <4>1. <<"d_act", b, b>> \in Slot /\ (pressed = 1 => <<"d_act", pressed_btn, pressed_btn>> \in Slot)
        BY <1>2, TypesFacts DEF Slot
      <4> QED
        BY <4>1 DEF FlushedOut
    <3>3. Len(FlushedOut) + 1 \in DOMAIN out' /\ out'[Len(FlushedOut) + 1] = <<"d_act", b, b>>
      BY <3>1, <3>2
    <3> QED
      BY <3>3
  <2> QED
    BY <2>1, <2>2, <2>3, <2>4
<1>3. ASSUME Types, Book, [Next]_vars
      PROVE  [\A b \in Btn : Filtering /\ b \in physDown' \ physDown =>
           \/ pressed' = 1 /\ pressed_btn' = b
           \/ \E i \in DOMAIN out' : b \in {out'[i][2], out'[i][3]}]_vars
  BY <1>2, <1>3
<1> QED
  BY InitTypes, InitBook, <1>1, <1>3, PTL DEF Spec, PressNotSwallowed

-----------------------------------------------------------------------------
(* What the applications see. *)

(* The actions that touch the buttons the applications see, or the mode. *)
Touching == {"BUTTON_D", "BUTTON_U", "MODECH"}

(* In a mode: a button alone clicks as itself. *)
AloneClicks(m) ==
    \A b \in Btn : /\ MouseConf[m][<<"d_act", b, b>>].code = "BUTTON_D"
                   /\ MouseConf[m][<<"d_act", b, b>>].button = b
                   /\ MouseConf[m][<<"u_act", b, b>>].code = "BUTTON_U"
                   /\ MouseConf[m][<<"u_act", b, b>>].button = b

(* A combination clicks as a button the device does not have, or as none. *)
TogetherClicks(m) ==
    \A x, y \in Btn :
      \/ /\ MouseConf[m][<<"comb_d_act", x, y>>].code = "BUTTON_D"
         /\ MouseConf[m][<<"comb_u_act", x, y>>].code = "BUTTON_U"
         /\ MouseConf[m][<<"comb_d_act", x, y>>].button
              = MouseConf[m][<<"comb_u_act", x, y>>].button
         /\ MouseConf[m][<<"comb_d_act", x, y>>].button \notin Btn
      \/ /\ MouseConf[m][<<"comb_d_act", x, y>>].code \notin Touching
         /\ MouseConf[m][<<"comb_u_act", x, y>>].code \notin Touching

(* The wheel and the movement click as nothing. *)
MotionClicks(m) ==
    \A s \in {"wheel_act", "move_act"} : MouseConf[m][<<s, -1, -1>>].code \notin Touching

(* The configurations of clicks: ClickConf of MCMouseHook is one. *)
Clicks == \A m \in ModeName : AloneClicks(m) /\ TogetherClicks(m) /\ MotionClicks(m)

(* What a slot presses and releases for the applications in the current mode, and
   that it does not change the mode. *)
Presses(slot) ==
    IF MouseConf[cur_conf][slot].code = "BUTTON_D" THEN {MouseConf[cur_conf][slot].button} ELSE {}

Releases(slot) ==
    IF MouseConf[cur_conf][slot].code = "BUTTON_U" THEN {MouseConf[cur_conf][slot].button} ELSE {}

Steady(slot) == MouseConf[cur_conf][slot].code # "MODECH"

(* The button the combination that is held presses, if it presses one. *)
HeldKey ==
    IF combinated = 1 THEN Presses(<<"comb_d_act", combination[0], combination[1]>>) ELSE {}

(* The press that waits. *)
Undecided == IF pressed = 1 THEN {pressed_btn} ELSE {}

(* The buttons the applications should see held: those that are held alone and
   decided, and the one of the combination that is held. *)
Shown == (physDown \ (ignore_btn_mask \cup Paired \cup Undecided)) \cup HeldKey

(* The invariant. *)
ClickInv == appDown = Shown

(* What BalancedOutput says of a step. *)
Balanced ==
    LET first == MouseConf[cur_conf][out'[1]]
        st == Do(Current, out'[1])
    IN /\ Len(out') >= 1 => Legal(appDown, first)
       /\ Len(out') >= 2 => Legal(st.app, MouseConf[st.conf][out'[2]])

(* A press alone. *)
LEMMA PressEffect ==
    ASSUME Clicks, cur_conf \in ModeName, NEW b \in Btn
    PROVE  /\ Presses(<<"d_act", b, b>>) = {b} /\ Releases(<<"d_act", b, b>>) = {}
           /\ Steady(<<"d_act", b, b>>)
<1>1. AloneClicks(cur_conf)
  BY DEF Clicks
<1> QED
  BY <1>1 DEF AloneClicks, Presses, Releases, Steady

(* A release alone. *)
LEMMA ReleaseEffect ==
    ASSUME Clicks, cur_conf \in ModeName, NEW b \in Btn
    PROVE  /\ Presses(<<"u_act", b, b>>) = {} /\ Releases(<<"u_act", b, b>>) = {b}
           /\ Steady(<<"u_act", b, b>>)
<1>1. AloneClicks(cur_conf)
  BY DEF Clicks
<1> QED
  BY <1>1 DEF AloneClicks, Presses, Releases, Steady

(* The wheel and the movement. *)
LEMMA MotionEffect ==
    ASSUME Clicks, cur_conf \in ModeName, NEW s \in {"wheel_act", "move_act"}
    PROVE  /\ Presses(<<s, -1, -1>>) = {} /\ Releases(<<s, -1, -1>>) = {}
           /\ Steady(<<s, -1, -1>>)
BY DEF Clicks, MotionClicks, Presses, Releases, Steady, Touching

(* The two actions of a combination: what the first one presses the second one
   releases, and the device does not have it. *)
LEMMA CombinationEffect ==
    ASSUME Clicks, cur_conf \in ModeName, NEW x \in Btn, NEW y \in Btn
    PROVE  /\ Presses(<<"comb_d_act", x, y>>) \cap Btn = {}
           /\ Releases(<<"comb_d_act", x, y>>) = {}
           /\ Presses(<<"comb_u_act", x, y>>) = {}
           /\ Releases(<<"comb_u_act", x, y>>) = Presses(<<"comb_d_act", x, y>>)
           /\ Steady(<<"comb_d_act", x, y>>) /\ Steady(<<"comb_u_act", x, y>>)
<1> DEFINE d == MouseConf[cur_conf][<<"comb_d_act", x, y>>]
           u == MouseConf[cur_conf][<<"comb_u_act", x, y>>]
<1>1. \/ /\ d.code = "BUTTON_D" /\ u.code = "BUTTON_U" /\ d.button = u.button
         /\ d.button \notin Btn
      \/ d.code \notin Touching /\ u.code \notin Touching
  BY DEF Clicks, TogetherClicks
<1> QED
  BY <1>1 DEF Presses, Releases, Steady, Touching

(* A slot is legal when it presses what is up and releases what is down. *)
LEMMA LegalSlot ==
    ASSUME NEW slot, NEW app, Presses(slot) \cap app = {}, Releases(slot) \subseteq app
    PROVE  Legal(app, MouseConf[cur_conf][slot])
BY DEF Legal, Presses, Releases

(* do_action, for such a slot. *)
LEMMA DoSteady ==
    ASSUME NEW st, st.conf = cur_conf, NEW slot, Steady(slot)
    PROVE  /\ Do(st, slot).conf = cur_conf
           /\ Do(st, slot).app = (st.app \cup Presses(slot)) \ Releases(slot)
BY DEF Do, Steady, Presses, Releases

(* Deciding the pending press shows it to the applications. *)
LEMMA FlushedClicks ==
    ASSUME Types, Clicks, cur_conf # NULL
    PROVE  /\ cur_conf \in ModeName
           /\ Current.conf = cur_conf /\ Current.app = appDown
           /\ Flushed.conf = cur_conf /\ Flushed.app = appDown \cup Undecided
<1>1. cur_conf \in ModeName /\ Current.conf = cur_conf /\ Current.app = appDown
  BY DEF Types, TypeOK, Current
<1>2. CASE pressed = 1
  <2> DEFINE slot == <<"d_act", pressed_btn, pressed_btn>>
  <2>1. pressed_btn \in Btn /\ Undecided = {pressed_btn} /\ Flushed = Do(Current, slot)
    BY <1>2, TypesFacts DEF Undecided, Flushed
  <2>2. Presses(slot) = {pressed_btn} /\ Releases(slot) = {} /\ Steady(slot)
    BY <1>1, <2>1, PressEffect
  <2> HIDE DEF slot
  <2> QED
    BY <1>1, <2>1, <2>2, DoSteady
<1>3. CASE pressed # 1
  BY <1>1, <1>3 DEF Flushed, Undecided
<1> QED
  BY <1>2, <1>3

(* A second slot after a first one. *)
LEMMA TwoSlots ==
    ASSUME NEW a, NEW b, NEW s, s = Append(<<a>>, b)
    PROVE  Len(s) = 2 /\ s[1] = a /\ s[2] = b
<1>1. <<a>> \in Seq({a, b}) /\ b \in {a, b} /\ Len(<<a>>) = 1 /\ <<a>>[1] = a
  OBVIOUS
<1> QED
  BY <1>1

(* The bookkeeping says what is held, before a step and after it. *)
LEMMA BookHeld == Book => Held
BY DEF Book, Held

(* The same after the step. *)
LEMMA BookHeldNext == Book' => Held'
BY DEF Book, Held

(* The buttons and the roles they have. *)
LEMMA HeldClicks ==
    ASSUME Types, Book, Clicks
    PROVE  /\ HeldKey \cap Btn = {}
           /\ physDown \subseteq Btn
           /\ ignore_btn_mask \cup Paired \cup Undecided \subseteq physDown
           /\ ignore_btn_mask \cap Paired = {} /\ ignore_btn_mask \cap Undecided = {}
           /\ Paired \cap Undecided = {}
           /\ ClickInv => \A p \in Undecided : p \notin appDown
           /\ ClickInv => (pressed = 1 => pressed_btn \notin appDown)
<1>1. HeldKey \cap Btn = {}
  <2>1. CASE combinated = 1
    <3>1. 0 \in 0 .. combinated * 2 - 1 /\ 1 \in 0 .. combinated * 2 - 1
      BY <2>1
    <3>2. combination[0] \in Btn /\ combination[1] \in Btn
      BY <3>1, TypesFacts
    <3>3. cur_conf \in ModeName
      BY <2>1 DEF Book, AtRest, Types, TypeOK
    <3> QED
      BY <2>1, <3>2, <3>3, CombinationEffect DEF HeldKey
  <2>2. CASE combinated # 1
    BY <2>2 DEF HeldKey
  <2> QED
    BY <2>1, <2>2
<1>2. physDown \subseteq Btn
  BY DEF Types, TypeOK
<1>3. /\ ignore_btn_mask \cup Paired \cup Undecided \subseteq physDown
      /\ ignore_btn_mask \cap Paired = {} /\ ignore_btn_mask \cap Undecided = {}
      /\ Paired \cap Undecided = {}
  BY HeldFacts, BookHeld DEF Held, Undecided
<1>4. \A p \in Undecided : p \in physDown /\ p \in Btn /\ p \notin HeldKey
  BY <1>1, <1>2, <1>3
<1>5. ClickInv => \A p \in Undecided : p \notin appDown
  BY <1>4 DEF ClickInv, Shown
<1> QED
  BY <1>1, <1>2, <1>3, <1>5 DEF Undecided

(* What a step leaves that decides the pending press and then runs a slot. *)
LEMMA RunFlushed ==
    ASSUME Types, Book, ClickInv, Clicks, cur_conf # NULL, NEW slot, Steady(slot),
           Finish(Do(Flushed, slot))
    PROVE  /\ cur_conf' = cur_conf
           /\ appDown' = ((appDown \cup Undecided) \cup Presses(slot)) \ Releases(slot)
           /\ out' = Append(FlushedOut, slot)
<1>1. Flushed.conf = cur_conf /\ Flushed.app = appDown \cup Undecided
  BY FlushedClicks
<1>2. /\ Do(Flushed, slot).conf = cur_conf
      /\ Do(Flushed, slot).app = (Flushed.app \cup Presses(slot)) \ Releases(slot)
  BY <1>1, DoSteady
<1>3. out' = Append(FlushedOut, slot)
  BY RunsFacts
<1> QED
  BY <1>1, <1>2, <1>3 DEF Finish

(* Such a step is legal when its slot is, and so is one that runs less. *)
LEMMA BalancedFacts ==
    ASSUME Types, Book, ClickInv, Clicks, cur_conf # NULL, NEW slot,
           Presses(slot) \cap (appDown \cup Undecided) = {},
           Releases(slot) \subseteq appDown \cup Undecided
    PROVE  /\ out' = FlushedOut => Balanced
           /\ out' = Append(FlushedOut, slot) => Balanced
<1>1. Legal(appDown \cup Undecided, MouseConf[cur_conf][slot])
  BY LegalSlot
<1>2. CASE pressed = 1
  <2> DEFINE press == <<"d_act", pressed_btn, pressed_btn>>
  <2>1. pressed_btn \in Btn /\ FlushedOut = <<press>> /\ Undecided = {pressed_btn}
    BY <1>2, TypesFacts DEF FlushedOut, Undecided
  <2>2. Presses(press) = {pressed_btn} /\ Releases(press) = {}
    BY <2>1, PressEffect, FlushedClicks
  <2>3. Flushed = Do(Current, press)
    BY <1>2 DEF Flushed
  <2> HIDE DEF press
  <2>4. Legal(appDown, MouseConf[cur_conf][press])
    BY <1>2, <2>2, HeldClicks, LegalSlot
  <2>5. Do(Current, press).app = appDown \cup Undecided /\ Do(Current, press).conf = cur_conf
    BY <2>3, FlushedClicks
  <2>6. out' = <<press>> => Balanced
    BY <2>4 DEF Balanced
  <2>7. ASSUME out' = Append(FlushedOut, slot) PROVE Balanced
    <3>1. Len(out') = 2 /\ out'[1] = press /\ out'[2] = slot
      BY <2>1, <2>7, TwoSlots
    <3> QED
      BY <1>1, <2>4, <2>5, <3>1 DEF Balanced
  <2> QED
    BY <2>1, <2>6, <2>7
<1>3. CASE pressed # 1
  <2>1. FlushedOut = <<>> /\ Undecided = {} /\ Append(FlushedOut, slot) = <<slot>>
    BY <1>3 DEF FlushedOut, Undecided
  <2>2. out' = <<>> => Balanced
    BY DEF Balanced
  <2>3. out' = <<slot>> => Balanced
    BY <1>1, <2>1 DEF Balanced
  <2> QED
    BY <2>1, <2>2, <2>3
<1> QED
  BY <1>2, <1>3

(* A step that only decides the pending press. *)
LEMMA RunDecided ==
    ASSUME Types, Book, ClickInv, Clicks, cur_conf # NULL, Finish(Flushed)
    PROVE  /\ cur_conf' = cur_conf /\ appDown' = appDown \cup Undecided
           /\ Balanced
<1>1. cur_conf' = cur_conf /\ appDown' = appDown \cup Undecided /\ out' = FlushedOut
  BY FlushedClicks, RunsFacts DEF Finish
<1>2. Presses(<<"wheel_act", -1, -1>>) = {} /\ Releases(<<"wheel_act", -1, -1>>) = {}
  BY MotionEffect, FlushedClicks
<1> QED
  BY <1>1, <1>2, BalancedFacts

(* Each event of a button keeps what is shown, and is legal.  A press that waits
   shows what waited before it. *)
LEMMA PressPendingShown ==
    ASSUME Types, Book, ClickInv, Clicks, NEW b \in Btn, PendingDown(b)
    PROVE  ClickInv' /\ Balanced
<1>1. /\ cur_conf # NULL /\ b \notin physDown /\ physDown' = physDown \cup {b}
      /\ pressed' = 1 /\ pressed_btn' = b /\ UNCHANGED combVars /\ Finish(Flushed)
      /\ Undecided' = {b}
  BY DEF PendingDown, Down, Filtering, Undecided
<1>2. cur_conf' = cur_conf /\ appDown' = appDown \cup Undecided /\ Balanced
  BY <1>1, RunDecided
<1>3. /\ Paired' = Paired /\ ignore_btn_mask' = ignore_btn_mask /\ HeldKey' = HeldKey
  BY <1>1, <1>2, SameRoles DEF combVars, HeldKey, Presses
<1> QED
  BY <1>1, <1>2, <1>3, HeldClicks DEF ClickInv, Shown

(* A press alone shows its button. *)
LEMMA PressAloneShown ==
    ASSUME Types, Book, ClickInv, Clicks, NEW b \in Btn, PlainDown(b)
    PROVE  ClickInv' /\ Balanced
<1> DEFINE slot == <<"d_act", b, b>>
<1>1. /\ cur_conf # NULL /\ b \notin physDown /\ physDown' = physDown \cup {b}
      /\ UNCHANGED combVars /\ Finish(Do(Flushed, slot)) /\ Undecided' = {}
  BY DEF PlainDown, Down, Filtering, Settle, Undecided
<1>2. Presses(slot) = {b} /\ Releases(slot) = {} /\ Steady(slot)
  BY <1>1, PressEffect, FlushedClicks
<1> HIDE DEF slot
<1>3. /\ cur_conf' = cur_conf /\ appDown' = (appDown \cup Undecided) \cup {b}
      /\ out' = Append(FlushedOut, slot)
  BY <1>1, <1>2, RunFlushed
<1>4. b \notin appDown \cup Undecided
  BY <1>1, HeldClicks DEF ClickInv, Shown
<1>5. Balanced
  BY <1>1, <1>2, <1>3, <1>4, BalancedFacts
<1>6. /\ Paired' = Paired /\ ignore_btn_mask' = ignore_btn_mask /\ HeldKey' = HeldKey
  BY <1>1, <1>3, SameRoles DEF combVars, HeldKey, Presses
<1>7. appDown' = Shown'
  BY <1>1, <1>3, <1>6, HeldClicks DEF ClickInv, Shown
<1> QED
  BY <1>5, <1>7 DEF ClickInv

(* The release of a button that was pressed alone hides it. *)
LEMMA ReleaseAloneShown ==
    ASSUME Types, Book, ClickInv, Clicks, NEW b \in Btn, PlainUp(b)
    PROVE  ClickInv' /\ Balanced
<1> DEFINE slot == <<"u_act", b, b>>
<1>1. /\ cur_conf # NULL /\ b \in physDown /\ physDown' = physDown \ {b}
      /\ UNCHANGED combVars /\ Finish(Do(Flushed, slot)) /\ Undecided' = {}
      /\ b \notin ignore_btn_mask /\ b \notin Paired
  BY DEF PlainUp, Up, Filtering, Settle, Paired, Undecided
<1>2. Presses(slot) = {} /\ Releases(slot) = {b} /\ Steady(slot)
  BY <1>1, ReleaseEffect, FlushedClicks
<1> HIDE DEF slot
<1>3. /\ cur_conf' = cur_conf /\ appDown' = (appDown \cup Undecided) \ {b}
      /\ out' = Append(FlushedOut, slot)
  BY <1>1, <1>2, RunFlushed
<1>4. b \in appDown \cup Undecided
  BY <1>1, HeldClicks DEF ClickInv, Shown
<1>5. Balanced
  BY <1>1, <1>2, <1>3, <1>4, BalancedFacts
<1>6. /\ Paired' = Paired /\ ignore_btn_mask' = ignore_btn_mask /\ HeldKey' = HeldKey
  BY <1>1, <1>3, SameRoles DEF combVars, HeldKey, Presses
<1>7. appDown' = Shown'
  BY <1>1, <1>3, <1>6, HeldClicks DEF ClickInv, Shown
<1> QED
  BY <1>5, <1>7 DEF ClickInv

(* The release of an ignored button shows and hides nothing but the pending press. *)
LEMMA ReleaseIgnoredShown ==
    ASSUME Types, Book, ClickInv, Clicks, NEW b \in Btn, IgnoredUp(b)
    PROVE  ClickInv' /\ Balanced
<1>1. /\ cur_conf # NULL /\ b \in physDown /\ physDown' = physDown \ {b}
      /\ UNCHANGED <<combinated, combination>> /\ Finish(Flushed) /\ Undecided' = {}
      /\ b \in ignore_btn_mask /\ ignore_btn_mask' = ignore_btn_mask \ {b}
  BY DEF IgnoredUp, Up, Filtering, Settle, Undecided
<1>2. cur_conf' = cur_conf /\ appDown' = appDown \cup Undecided /\ Balanced
  BY <1>1, RunDecided
<1>3. Paired' = Paired /\ HeldKey' = HeldKey
  BY <1>1, <1>2 DEF Paired, InPair, HeldKey, Presses
<1> QED
  BY <1>1, <1>2, <1>3, HeldClicks DEF ClickInv, Shown

(* A combination shows its button instead of the two that are held. *)
LEMMA CombineShown ==
    ASSUME Types, Book, ClickInv, Clicks, Types', Book',
           NEW b \in Btn, CombinationPress(b)
    PROVE  ClickInv' /\ Balanced
<1> DEFINE p == pressed_btn
           slot == <<"comb_d_act", p, b>>
<1>1. /\ cur_conf # NULL /\ pressed = 1 /\ p \in Btn /\ b \notin physDown /\ p \in physDown
      /\ physDown' = physDown \cup {b} /\ UNCHANGED ignore_btn_mask
      /\ Finish(Do(Current, slot)) /\ Undecided = {p} /\ Undecided' = {}
  BY TypesFacts DEF CombinationPress, Down, Completes, Book, Settle, Filtering, Undecided
<1>2. combinated' = combinated + 1
  BY DEF CombinationPress
<1>3. combinated = 0 /\ combinated' = 1
  BY <1>2 DEF Book
<1>4. combination'[0] = p /\ combination'[1] = b
  BY <1>3, TypesFacts DEF CombinationPress
<1>5. Paired = {} /\ Paired' = {p, b} /\ HeldKey = {}
  BY <1>3, <1>4, HeldFacts, HeldFactsNext, BookHeld, BookHeldNext DEF HeldKey
<1>6. Presses(slot) \cap Btn = {} /\ Releases(slot) = {} /\ Steady(slot)
  BY <1>1, CombinationEffect, FlushedClicks
<1>7. cur_conf' = cur_conf => HeldKey' = Presses(slot)
  BY <1>3, <1>4 DEF HeldKey, Presses
<1>8. out' = <<slot>>
  BY <1>1, RunsFacts
<1> HIDE DEF slot
<1>9. cur_conf' = cur_conf /\ appDown' = appDown \cup Presses(slot)
  <2>1. Current.conf = cur_conf /\ Current.app = appDown
    BY <1>1, FlushedClicks
  <2>2. /\ Do(Current, slot).conf = cur_conf
        /\ Do(Current, slot).app = Current.app \cup Presses(slot)
    BY <1>6, <2>1, DoSteady
  <2> QED
    BY <1>1, <2>1, <2>2 DEF Finish
<1>10. Balanced
  <2>1. appDown \cap Presses(slot) = {}
    BY <1>5, <1>6, HeldClicks DEF ClickInv, Shown
  <2>2. Legal(appDown, MouseConf[cur_conf][slot])
    BY <1>6, <2>1, LegalSlot
  <2> QED
    BY <1>8, <2>2 DEF Balanced
<1>11. appDown' = Shown'
  BY <1>1, <1>5, <1>7, <1>9, HeldClicks DEF ClickInv, Shown
<1> QED
  BY <1>10, <1>11 DEF ClickInv

(* The end of a combination hides its button; the other of the two is ignored. *)
LEMMA ReleaseCombinationShown ==
    ASSUME Types, Book, ClickInv, Clicks, Types', Book',
           NEW b \in Btn, CombinationRelease(b)
    PROVE  ClickInv' /\ Balanced
<1> DEFINE x == combination[0]
           y == combination[1]
           slot == <<"comb_u_act", x, y>>
<1>1. /\ cur_conf # NULL /\ b \in physDown /\ physDown' = physDown \ {b} /\ Undecided' = {}
  BY DEF CombinationRelease, Up, Filtering, Settle, Undecided
<1>2. /\ combinated = 1 /\ combinated' = 0 /\ b \in {x, y} /\ Finish(Do(Flushed, slot))
      /\ ignore_btn_mask' = ignore_btn_mask \cup {IF x = b THEN y ELSE x}
  BY DEF CombinationRelease, Book, InPair, Partner
<1>3. x \in Btn /\ y \in Btn /\ x # y /\ {x, y} \subseteq physDown
  BY <1>2, TypesFacts DEF Book
<1>4. /\ Paired = {x, y} /\ Paired' = {} /\ HeldKey' = {}
      /\ HeldKey = Presses(<<"comb_d_act", x, y>>)
  BY <1>2, HeldFacts, HeldFactsNext, BookHeld, BookHeldNext DEF HeldKey
<1>5. Presses(slot) = {} /\ Releases(slot) = HeldKey /\ Steady(slot)
  BY <1>1, <1>3, <1>4, CombinationEffect, FlushedClicks
<1> HIDE DEF slot, x, y
<1>6. /\ cur_conf' = cur_conf /\ appDown' = (appDown \cup Undecided) \ HeldKey
      /\ out' = Append(FlushedOut, slot)
  BY <1>1, <1>2, <1>5, RunFlushed
<1>7. HeldKey \subseteq appDown
  BY DEF ClickInv, Shown
<1>8. Balanced
  BY <1>1, <1>5, <1>6, <1>7, BalancedFacts
<1>9. appDown' = Shown'
  BY <1>1, <1>2, <1>3, <1>4, <1>6, HeldClicks DEF ClickInv, Shown
<1> QED
  BY <1>8, <1>9 DEF ClickInv

(* The other steps of the hook, and those it does not see. *)
LEMMA OtherShown ==
    ASSUME Types, Book, ClickInv, Clicks, Types',
           \/ Wheel \/ Move \/ LoadSetting \/ ClearHook \/ SetHook
           \/ \E id \in TimerId : TimerExpires(id) \/ CombTimerNone(id) \/ CombTimer(id)
    PROVE  ClickInv' /\ Balanced
<1>1. ASSUME cur_conf # NULL, Undecided' = {}, UNCHANGED <<combVars, physDown>>,
             cur_conf' = cur_conf, appDown' = appDown \cup Undecided
      PROVE  ClickInv'
  BY <1>1, SameRoles, HeldClicks DEF ClickInv, Shown, combVars, HeldKey, Presses
<1>2. ASSUME NEW s \in {"wheel_act", "move_act"}, NEW pass, Motion(<<s, -1, -1>>, pass)
      PROVE  ClickInv' /\ Balanced
  <2> DEFINE slot == <<s, -1, -1>>
  <2>1. /\ cur_conf # NULL /\ Undecided' = {} /\ UNCHANGED <<combVars, physDown>>
        /\ Finish(Flushed) \/ Finish(Do(Flushed, slot))
    BY <1>2 DEF Motion, Filtering, Settle, Undecided
  <2>2. Presses(slot) = {} /\ Releases(slot) = {} /\ Steady(slot)
    BY <2>1, MotionEffect, FlushedClicks
  <2> HIDE DEF slot
  <2>3. cur_conf' = cur_conf /\ appDown' = appDown \cup Undecided /\ Balanced
    <3>1. CASE Finish(Flushed)
      BY <2>1, <3>1, RunDecided
    <3>2. CASE Finish(Do(Flushed, slot))
      BY <2>1, <2>2, <3>2, RunFlushed, BalancedFacts
    <3> QED
      BY <2>1, <3>1, <3>2
  <2> QED
    BY <1>1, <2>1, <2>3
<1>3. ASSUME NEW id \in TimerId, CombTimer(id) PROVE ClickInv' /\ Balanced
  <2>1. /\ cur_conf # NULL /\ Undecided' = {} /\ UNCHANGED <<combVars, physDown>>
        /\ Finish(Flushed)
    BY <1>3 DEF CombTimer, Types, Undecided
  <2> QED
    BY <1>1, <2>1, RunDecided
<1>4. ASSUME \/ LoadSetting \/ ClearHook \/ SetHook
             \/ \E id \in TimerId : TimerExpires(id) \/ CombTimerNone(id)
      PROVE  ClickInv' /\ Balanced
  <2>1. /\ UNCHANGED <<combVars, pressed, pressed_btn, physDown, appDown>> /\ out' = <<>>
        /\ cur_conf' = cur_conf \/ cur_conf = NULL
    BY <1>4 DEF LoadSetting, ClearHook, SetHook, TimerExpires, CombTimerNone
  <2>2. HeldKey' = HeldKey
    BY <2>1 DEF HeldKey, Presses, combVars, Book, AtRest
  <2>3. Shown' = Shown
    BY <2>1, <2>2, SameRoles DEF Shown, Undecided, combVars
  <2>4. Balanced
    BY <2>1 DEF Balanced
  <2> QED
    BY <2>1, <2>3, <2>4 DEF ClickInv
<1>5. CASE Wheel
  BY <1>2, <1>5 DEF Wheel
<1>6. CASE Move
  BY <1>2, <1>6 DEF Move
<1> QED
  BY <1>3, <1>4, <1>5, <1>6

(* A button the hook does not filter, when it keeps no debt. *)
LEMMA PassShown ==
    ASSUME Types, Book, ClickInv, NEW b \in Btn, PassDown(b) \/ PassUp(b)
    PROVE  ClickInv' /\ Balanced
<1>1. /\ hook = "removed" \/ cur_conf = NULL
      /\ UNCHANGED <<cur_conf, combVars, pressed, pressed_btn>> /\ out' = <<>>
      /\ \/ physDown' = physDown \cup {b} /\ appDown' = appDown \cup {b}
         \/ physDown' = physDown \ {b} /\ appDown' = appDown \ {b}
  BY DEF PassDown, PassUp, Down, Up, Filtering, Types, TypeOK
<1>2. AtRest /\ AtRest'
  BY <1>1 DEF Book, AtRest, combVars
<1>3. Shown = physDown /\ Shown' = physDown'
  BY <1>2 DEF AtRest, Shown, Undecided, HeldKey, Paired
<1>4. Balanced
  BY <1>1 DEF Balanced
<1> QED
  BY <1>1, <1>3, <1>4 DEF ClickInv

(* All the steps. *)
LEMMA ClickStep ==
    ASSUME Types, Book, ClickInv, Clicks, Types', Book', Next
    PROVE  ClickInv' /\ Balanced
<1>1. ASSUME NEW b \in Btn, IgnoredDown(b) PROVE FALSE
  BY <1>1 DEF IgnoredDown, Down, Book
<1>2. ASSUME NEW b \in Btn, ButtonEvent(b) PROVE ClickInv' /\ Balanced
  BY <1>1, <1>2, PassShown, CombineShown, PressPendingShown, PressAloneShown,
     ReleaseIgnoredShown, ReleaseCombinationShown, ReleaseAloneShown DEF ButtonEvent
<1> QED
  BY <1>2, OtherShown DEF Next

(* At the start nothing is held and nothing is shown. *)
LEMMA ClickInit == Init => ClickInv
BY DEF Init, ClickInv, Shown, Undecided, HeldKey, Paired

(* The invariant is inductive, together with the bookkeeping. *)
LEMMA ClickSteps ==
    ASSUME ThreeButtons, Rehook # "any", Clicks
    PROVE  Types /\ Book /\ ClickInv /\ [Next]_vars => Types' /\ Book' /\ ClickInv' /\ [Balanced]_vars
<1> SUFFICES ASSUME Types, Book, ClickInv, [Next]_vars
             PROVE  Types' /\ Book' /\ ClickInv' /\ [Balanced]_vars
  OBVIOUS
<1>1. Types' /\ Book'
  BY TypesStep, BookStep
<1>2. CASE Next
  BY <1>1, <1>2, ClickStep
<1>3. CASE UNCHANGED vars
  BY <1>1, <1>3, SameRoles DEF vars, combVars, ClickInv, Shown, Undecided, HeldKey, Presses
<1> QED
  BY <1>2, <1>3

(* When nothing is held and no press waits nothing stays down for the applications
   (hook.c 150-211, 229-374), for any three buttons and any clicks. *)
THEOREM NothingStaysDown ==
    ASSUME ThreeButtons, Rehook # "any", Clicks
    PROVE  Spec => []NothingStuck
<1>1. Types /\ Book /\ ClickInv => NothingStuck
  <2> SUFFICES ASSUME Types, Book, ClickInv, physDown = {}, pressed = 0
               PROVE  appDown = {}
    BY DEF NothingStuck
  <2>1. combinated # 1
    BY DEF Book
  <2> QED
    BY <2>1 DEF ClickInv, Shown, HeldKey
<1> QED
  BY InitTypes, InitBook, ClickInit, ClickSteps, <1>1, PTL DEF Spec

(* The hook never presses what is down nor releases what is up (hook.c 150-211). *)
THEOREM OutputBalanced ==
    ASSUME ThreeButtons, Rehook # "any", Clicks
    PROVE  Spec => BalancedOutput
<1>1. Types /\ Book /\ ClickInv /\ [Next]_vars => Types' /\ Book' /\ ClickInv' /\ [Balanced]_vars
  BY ClickSteps
<1>2. Spec => [][Balanced]_vars
  BY InitTypes, InitBook, ClickInit, <1>1, PTL DEF Spec
<1> QED
  BY <1>2 DEF BalancedOutput, Balanced

=============================================================================
