-------------------------- MODULE ScrollModeProofs --------------------------
(***************************************************************************)
(* Proofs about ScrollMode, for any modes, actions and ratios.             *)
(***************************************************************************)
EXTENDS ScrollMode, Induction

(***************************************************************************)
(* The operator, whenever settings are loaded again, also in the middle of *)
(* the hook's steps and with messages of freed configurations waiting.     *)
(***************************************************************************)
OpTypes ==
    /\ cur_mode \in {"NORMAL", "SCROLL"}
    /\ app_gen \in 1 .. MaxGen
    /\ op \in (1 .. MaxGen) \cup {NULL}

OpInv ==
    /\ OpTypes
    /\ OpLifecycle
    /\ OpConfLive
    /\ app_gen \in live
    /\ main = "free" => op = NULL

(* There is no operator at the start. *)
LEMMA InitOpInv == Init => OpInv
BY ModeAssumption DEF Init, OpInv, OpTypes, OpLifecycle, OpConfLive

(* The main thread's handlers keep operator and configuration in step. *)
LEMMA MainKeepsOpInv ==
    ASSUME OpInv, NEW data, MainStep(data)
    PROVE  OpInv'
<1> USE ModeAssumption DEF OpInv, OpTypes, OpLifecycle, OpConfLive, Handles, confVars,
        hookVars
<1>1. CASE StartScrollMode(data)
  BY <1>1 DEF StartScrollMode
<1>2. CASE ShiftScrollMode(data)
  BY <1>2 DEF ShiftScrollMode
<1>3. CASE EndScrollMode(data)
  BY <1>3 DEF EndScrollMode, EndOp
<1>4. CASE ModeMsgScroll(data)
  BY <1>4 DEF ModeMsgScroll
<1>5. CASE ModeMsgRatio(data)
  BY <1>5 DEF ModeMsgRatio
<1>6. CASE LoopTake(data)
  BY <1>6 DEF LoopTake
<1> QED
  BY <1>1, <1>2, <1>3, <1>4, <1>5, <1>6 DEF MainStep

(* So do the hook thread and the loading of settings. *)
LEMMA OtherKeepsOpInv ==
    ASSUME OpInv, ReadAct \/ SwitchConf \/ PostAct \/ Scroll \/ ReplaceSetting \/ LoadStep
    PROVE  OpInv'
<1> USE ModeAssumption DEF OpInv, OpTypes, OpLifecycle, OpConfLive, scrollVars, confVars
<1>1. CASE ReadAct
  BY <1>1 DEF ReadAct
<1>2. CASE SwitchConf
  BY <1>2 DEF SwitchConf
<1>3. CASE PostAct
  BY <1>3 DEF PostAct
<1>4. CASE Scroll
  BY <1>4 DEF Scroll
<1>5. CASE ReplaceSetting
  BY <1>5 DEF ReplaceSetting
<1>6. CASE SetInitialConf
  BY <1>6 DEF SetInitialConf
<1>7. CASE NotifyNormal
  BY <1>7 DEF NotifyNormal, EndOp
<1>8. CASE FreeSetting
  BY <1>8 DEF FreeSetting
<1> QED
  BY <1>1, <1>2, <1>3, <1>4, <1>5, <1>6, <1>7, <1>8 DEF LoadStep

(* The operator and the configurations, throughout. *)
LEMMA OpInvariance == Spec => []OpInv
<1>1. OpInv /\ [Next]_vars => OpInv'
  <2>1. OpInv /\ UNCHANGED vars => OpInv'
    BY DEF vars, OpInv, OpTypes, OpLifecycle, OpConfLive
  <2> QED
    BY <2>1, MainKeepsOpInv, OtherKeepsOpInv DEF Next
<1> QED
  BY InitOpInv, <1>1, PTL DEF Spec

(* The operator and its context come and go together (scroll.c 124-186).   *)
THEOREM Lifecycle == Spec => []OpLifecycle
<1>1. OpInv => OpLifecycle
  BY DEF OpInv
<1> QED
  BY OpInvariance, <1>1, PTL

(* The operator never outlives its configuration (conf.c 1401-1419).       *)
THEOREM OperatorConfLive == Spec => []OpConfLive
<1>1. OpInv => OpConfLive
  BY DEF OpInv
<1> QED
  BY OpInvariance, <1>1, PTL
-----------------------------------------------------------------------------
(***************************************************************************)
(* The two threads' views of the mode, when settings are loaded again only *)
(* while the hook is away.  While a mode change is switched but not posted *)
(* nothing is claimed, nor after a loss until the next one is posted; else *)
(* the last one in the queue is the hook's mode, or, when none waits, the  *)
(* main thread has reached it.                                             *)
(***************************************************************************)
QueueOK ==
    queue \in Seq([data : [kind : Kind, conf : Conf, n : Int, gen : 1 .. MaxGen],
                   asked : Int])

Types ==
    /\ cur_conf \in [gen : 1 .. MaxGen, conf : Conf]
    /\ hook \in {"idle", "switch", "post"}
    /\ act \in [kind : Kind, conf : Conf, n : Int, gen : 1 .. MaxGen]
    /\ QueueOK
    /\ main \in {"idle", "loop", "set_conf", "notify", "free"}
    /\ cur_mode \in {"NORMAL", "SCROLL"}
    /\ app_gen \in 1 .. MaxGen
    /\ live \subseteq 1 .. MaxGen
    /\ asked \in Int /\ lost \in BOOLEAN

(* Everything that is read is in the configuration of ctx.app_conf. *)
OneGeneration ==
    /\ app_gen \in live
    /\ main \in {"idle", "loop"} => cur_conf.gen = app_gen
    /\ main \in {"notify", "free"} => cur_conf = [gen |-> app_gen, conf |-> InitialConf]
    /\ main \notin {"idle", "loop"} => hook = "idle" /\ queue = <<>>
    /\ hook # "idle" => act.gen = app_gen
    /\ \A i \in DOMAIN queue : queue[i].data.gen = app_gen

Switched == hook = "post" /\ act.kind = "MODECH"

ActAgrees ==
    /\ hook = "switch" => act.kind = "MODECH"
    /\ Switched => act.conf = cur_conf.conf

IsModeCh(i) == queue[i].data.kind = "MODECH"

LastModeCh ==
    ~lost /\ ~Switched =>
        \A i \in DOMAIN queue :
            IsModeCh(i) /\ (\A j \in i + 1 .. Len(queue) : ~IsModeCh(j)) =>
                queue[i].data.conf = cur_conf.conf

NoModeCh ==
    ~lost /\ ~Switched /\ (\A i \in DOMAIN queue : ~IsModeCh(i)) /\ main \notin {"set_conf", "notify"}
        => (cur_mode = "SCROLL" <=> cur_conf.conf \in ScrollConf)

SyncInv ==
    /\ Types
    /\ OneGeneration
    /\ ActAgrees
    /\ LastModeCh
    /\ NoModeCh

(* Both threads begin in the same mode. *)
LEMMA InitSyncInv == Init => SyncInv
<1> SUFFICES ASSUME Init PROVE SyncInv
  OBVIOUS
<1>0. QueueOK
  BY DEF Init, QueueOK
<1>5. lost \in BOOLEAN
  BY DEF Init
<1>1. Types
  BY <1>0, <1>5, ModeAssumption DEF Init, Types, Kind, Conf
<1>4. OneGeneration /\ ActAgrees
  BY ModeAssumption DEF Init, OneGeneration, ActAgrees, Switched
<1>2. LastModeCh
  BY DEF Init, LastModeCh
<1>3. NoModeCh
  BY ModeAssumption DEF Init, NoModeCh
<1> QED
  BY <1>1, <1>2, <1>3, <1>4 DEF SyncInv

(* A queue that is not empty has a length. *)
LEMMA NonEmptyLen ==
    ASSUME NEW S, NEW q \in Seq(S), q # <<>>
    PROVE  Len(q) \in Nat \ {0}
OBVIOUS

(* The first message is one of a mode or a mode message that is known. *)
LEMMA FirstTyped ==
    ASSUME QueueOK, queue # <<>>
    PROVE  /\ queue[1].data \in [kind : Kind, conf : Conf, n : Int, gen : 1 .. MaxGen]
           /\ queue[1].data.kind \in Kind
<1> DEFINE D == [kind : Kind, conf : Conf, n : Int, gen : 1 .. MaxGen]
<1>1. queue \in Seq([data : D, asked : Int])
  BY DEF QueueOK
<1> HIDE DEF D
<1>2. queue[1] \in [data : D, asked : Int]
  <2>1. \A S : \A q \in Seq(S) : q # <<>> => q[1] \in S
    OBVIOUS
  <2> QED
    BY <1>1, <2>1, Zenon
<1>3. queue[1].data \in D
  BY <1>2
<1> QED
  BY <1>3 DEF D

(* The messages after the first one has been taken. *)
LEMMA TailFacts ==
    ASSUME QueueOK, queue # <<>>, queue' = Tail(queue)
    PROVE  /\ QueueOK'
           /\ Len(queue) \in Nat \ {0} /\ Len(queue') = Len(queue) - 1
           /\ DOMAIN queue = 1 .. Len(queue) /\ DOMAIN queue' = 1 .. Len(queue')
           /\ \A i \in 1 .. Len(queue) - 1 : queue'[i] = queue[i + 1]
           /\ Head(queue) = queue[1]
BY DEF QueueOK

(* A handler reads what was posted, as its configuration is alive. *)
LEMMA ReadsPosted ==
    ASSUME SyncInv, queue # <<>>, NEW data \in Read(Head(queue).data)
    PROVE  data = queue[1].data
BY DEF SyncInv, Types, QueueOK, OneGeneration, Read

(* What all the handlers have in common. *)
LEMMA HandlerFacts ==
    ASSUME SyncInv, NEW data \in Datas, MainStep(data)
    PROVE  /\ main \in {"idle", "loop"} /\ main' \in {"idle", "loop"}
           /\ UNCHANGED <<cur_conf, hook, act, asked, lost, app_gen, live>>
           /\ data = queue[1].data
           /\ QueueOK'
           /\ Len(queue) \in Nat \ {0} /\ Len(queue') = Len(queue) - 1
           /\ DOMAIN queue = 1 .. Len(queue) /\ DOMAIN queue' = 1 .. Len(queue')
           /\ \A i \in 1 .. Len(queue) - 1 : queue'[i] = queue[i + 1]
<1>1. queue # <<>> /\ data \in Read(Head(queue).data) /\ queue' = Tail(queue)
      /\ main \in {"idle", "loop"} /\ main' \in {"idle", "loop"}
      /\ UNCHANGED <<cur_conf, hook, act, asked, lost, app_gen, live>>
  BY DEF MainStep, StartScrollMode, ShiftScrollMode, EndScrollMode, ModeMsgScroll,
     ModeMsgRatio, LoopTake, Handles, hookVars, confVars
<1> QED
  BY <1>1, ReadsPosted, TailFacts DEF SyncInv, Types

(* When no mode change is left after the first message, none was behind it. *)
LEMMA RestIsRest ==
    ASSUME SyncInv, NEW data \in Datas, MainStep(data),
           \A i \in DOMAIN queue' : ~IsModeCh(i)'
    PROVE  \A j \in 2 .. Len(queue) : ~IsModeCh(j)
<1> SUFFICES ASSUME NEW j \in 2 .. Len(queue) PROVE ~IsModeCh(j)
  OBVIOUS
<1>1. j - 1 \in DOMAIN queue' /\ j - 1 \in 1 .. Len(queue) - 1 /\ j = (j - 1) + 1
  BY HandlerFacts
<1>2. queue'[j - 1] = queue[j]
  BY HandlerFacts, <1>1
<1>3. queue'[j - 1].data.kind # "MODECH"
  BY <1>1 DEF IsModeCh
<1> QED
  BY <1>2, <1>3 DEF IsModeCh

(* A handler leaves the last announced mode to be the hook thread's. *)
LEMMA HandlerKeepsSync ==
    ASSUME SyncInv, NEW data \in Datas, MainStep(data)
    PROVE  SyncInv'
<1> USE ModeAssumption DEF Conf
<1>1. /\ main \in {"idle", "loop"} /\ main' \in {"idle", "loop"}
      /\ UNCHANGED <<cur_conf, hook, act, asked, lost, app_gen, live>>
  BY HandlerFacts
<1>2. data = queue[1].data
  BY HandlerFacts
<1>3. /\ QueueOK'
      /\ Len(queue) \in Nat \ {0} /\ Len(queue') = Len(queue) - 1
      /\ DOMAIN queue = 1 .. Len(queue) /\ DOMAIN queue' = 1 .. Len(queue')
      /\ \A i \in 1 .. Len(queue) - 1 : queue'[i] = queue[i + 1]
  BY HandlerFacts
<1>4. cur_mode' = IF data.kind # "MODECH" THEN cur_mode
                  ELSE IF data.conf \in ScrollConf THEN "SCROLL" ELSE "NORMAL"
  BY <1>1 DEF MainStep, StartScrollMode, ShiftScrollMode, EndScrollMode, EndOp,
     ModeMsgScroll, ModeMsgRatio, scrollVars, LoopTake, SyncInv, Types
<1>5. Types'
  BY <1>1, <1>3, <1>4 DEF SyncInv, Types
<1>6. OneGeneration'
  <2>1. OneGeneration
    BY DEF SyncInv
  <2>2. \A i \in DOMAIN queue' : queue'[i].data.gen = app_gen
    <3> SUFFICES ASSUME NEW i \in DOMAIN queue' PROVE queue'[i].data.gen = app_gen
      OBVIOUS
    <3>1. i \in 1 .. Len(queue) - 1 /\ i + 1 \in DOMAIN queue
      BY <1>3
    <3> QED
      BY <1>3, <2>1, <3>1 DEF OneGeneration
  <2> QED
    BY <1>1, <2>1, <2>2 DEF OneGeneration
<1>7. ActAgrees' /\ Switched' = Switched
  BY <1>1 DEF SyncInv, ActAgrees, Switched
<1>8. LastModeCh'
  <2> SUFFICES ASSUME ~lost', ~Switched', NEW i \in DOMAIN queue', IsModeCh(i)',
                      \A j \in i + 1 .. Len(queue') : ~IsModeCh(j)'
               PROVE  queue'[i].data.conf = cur_conf'.conf
    BY DEF LastModeCh
  <2>1. i \in 1 .. Len(queue) - 1 /\ i + 1 \in DOMAIN queue /\ IsModeCh(i + 1)
    BY <1>3 DEF IsModeCh
  <2>2. ASSUME NEW j \in (i + 1) + 1 .. Len(queue) PROVE ~IsModeCh(j)
    <3>1. j - 1 \in i + 1 .. Len(queue') /\ j - 1 \in 1 .. Len(queue) - 1
      BY <1>3, <2>1
    <3> QED
      BY <1>3, <3>1 DEF IsModeCh
  <2> QED
    BY <1>1, <1>3, <1>7, <2>1, <2>2 DEF SyncInv, LastModeCh
<1>9. NoModeCh'
  <2> SUFFICES ASSUME ~lost', ~Switched', \A i \in DOMAIN queue' : ~IsModeCh(i)'
               PROVE  cur_mode' = "SCROLL" <=> cur_conf'.conf \in ScrollConf
    BY DEF NoModeCh
  <2>1. \A j \in 2 .. Len(queue) : ~IsModeCh(j)
    BY RestIsRest
  <2>2. CASE IsModeCh(1)
    <3>1. data.conf = cur_conf.conf
      BY <1>1, <1>2, <1>3, <1>7, <2>1, <2>2 DEF SyncInv, LastModeCh
    <3> QED
      BY <1>1, <1>2, <1>4, <2>2, <3>1 DEF IsModeCh
  <2>3. CASE ~IsModeCh(1)
    <3>1. \A j \in DOMAIN queue : ~IsModeCh(j)
      BY <1>3, <2>1, <2>3
    <3> QED
      BY <1>1, <1>2, <1>4, <1>7, <2>3, <3>1 DEF SyncInv, NoModeCh, IsModeCh
  <2> QED
    BY <2>2, <2>3
<1> QED
  BY <1>5, <1>6, <1>7, <1>8, <1>9 DEF SyncInv

(* So does the hook thread, with each of its three steps. *)
LEMMA HookKeepsSync ==
    ASSUME SyncInv, Reload = "paused", ReadAct \/ SwitchConf \/ PostAct
    PROVE  SyncInv'
<1> USE ModeAssumption DEF Conf, confVars, scrollVars
<1>1. CASE ReadAct
  <2>1. PICK a \in ActsOf(cur_conf) :
           act' = [kind |-> a.kind, conf |-> a.conf, n |-> a.n, gen |-> cur_conf.gen]
           /\ hook' = IF a.kind = "MODECH" THEN "switch" ELSE "post"
    BY <1>1 DEF ReadAct
  <2>2. main \in {"idle", "loop"} /\ hook = "idle"
        /\ UNCHANGED <<cur_conf, queue, main, cur_mode, app_gen, live, asked, lost>>
    BY <1>1 DEF ReadAct
  <2>3. a \in Act
    BY <2>2 DEF SyncInv, Types, OneGeneration, ActsOf
  <2>4. Types'
    BY <2>1, <2>2, <2>3 DEF SyncInv, Types, QueueOK, Act
  <2>5. OneGeneration' /\ ActAgrees' /\ ~Switched'
    BY <2>1, <2>2, <2>3 DEF SyncInv, OneGeneration, ActAgrees, Switched, Act, Kind
  <2> QED
    BY <2>2, <2>4, <2>5 DEF SyncInv, LastModeCh, NoModeCh, IsModeCh, Switched
<1>2. CASE SwitchConf
  <2>1. main \in {"idle", "loop"} /\ act.gen = app_gen /\ app_gen \in live
    BY <1>2 DEF SwitchConf, SyncInv, OneGeneration, Types
  <2>2. cur_conf' = [gen |-> act.gen, conf |-> act.conf] /\ Switched'
        /\ UNCHANGED <<act, asked, lost, queue, main, cur_mode, app_gen, live>> /\ hook' = "post"
    BY <1>2, <2>1 DEF SwitchConf, SyncInv, ActAgrees, Switched
  <2> QED
    BY <2>1, <2>2 DEF SyncInv, Types, QueueOK, OneGeneration, ActAgrees, LastModeCh,
       NoModeCh, Switched, Act
<1>3. CASE PostAct /\ UNCHANGED queue
  <2>1. /\ hook = "post" /\ hook' = "idle" /\ asked' = AskedBy(act, asked)
        /\ UNCHANGED <<act, queue, cur_conf, main, cur_mode, app_gen, live>>
    BY <1>3 DEF PostAct
  <2>2. lost' = TRUE
    <3>1. Len(queue) \in Nat /\ \A x : Len(Append(queue, x)) = Len(queue) + 1
      BY DEF SyncInv, Types, QueueOK
    <3>2. \A x : Append(queue, x) # queue
      BY <3>1
    <3> QED
      BY <1>3, <3>2 DEF PostAct
  <2>3. asked' \in Int
    BY <2>1 DEF AskedBy, SyncInv, Types, Kind
  <2>4. Types' /\ OneGeneration' /\ ActAgrees' /\ ~Switched'
    BY <2>1, <2>2, <2>3 DEF SyncInv, Types, QueueOK, OneGeneration, ActAgrees, Switched
  <2>5. LastModeCh' /\ NoModeCh'
    BY <2>2 DEF LastModeCh, NoModeCh
  <2> QED
    BY <2>4, <2>5 DEF SyncInv
<1>4. CASE PostAct /\ ~UNCHANGED queue
  <2>1. /\ hook = "post" /\ hook' = "idle" /\ asked' = AskedBy(act, asked)
        /\ queue' = Append(queue, [data |-> act, asked |-> asked'])
        /\ lost' = (lost /\ act.kind # "MODECH")
        /\ UNCHANGED <<act, cur_conf, main, cur_mode, app_gen, live>>
    BY <1>4 DEF PostAct
  <2>2. asked' \in Int /\ lost' \in BOOLEAN
    BY <2>1 DEF AskedBy, SyncInv, Types, Kind
  <2>3. /\ QueueOK' /\ Len(queue) \in Nat
        /\ DOMAIN queue = 1 .. Len(queue) /\ DOMAIN queue' = 1 .. Len(queue) + 1
        /\ Len(queue') = Len(queue) + 1
        /\ \A i \in 1 .. Len(queue) : queue'[i] = queue[i]
        /\ queue'[Len(queue) + 1].data = act
    BY <2>1, <2>2 DEF SyncInv, Types, QueueOK
  <2>4. Types' /\ OneGeneration' /\ ActAgrees' /\ ~Switched'
    BY <2>1, <2>2, <2>3 DEF SyncInv, Types, OneGeneration, ActAgrees, Switched
  <2>5. LastModeCh'
    <3> SUFFICES ASSUME ~lost', NEW i \in DOMAIN queue', IsModeCh(i)',
                        \A j \in i + 1 .. Len(queue') : ~IsModeCh(j)'
                 PROVE  queue'[i].data.conf = cur_conf.conf
      BY <2>1 DEF LastModeCh
    <3>1. CASE i = Len(queue) + 1
      BY <2>1, <2>3, <3>1 DEF SyncInv, ActAgrees, Switched, IsModeCh
    <3>2. CASE i # Len(queue) + 1
      <4>1. i \in DOMAIN queue /\ IsModeCh(i) /\ Len(queue) + 1 \in i + 1 .. Len(queue')
        BY <2>3, <3>2 DEF IsModeCh
      <4>2. act.kind # "MODECH"
        BY <2>3, <4>1 DEF IsModeCh
      <4>3. ASSUME NEW j \in i + 1 .. Len(queue) PROVE ~IsModeCh(j)
        <5>1. j \in i + 1 .. Len(queue') /\ j \in 1 .. Len(queue)
          BY <2>3, <4>1
        <5> QED
          BY <2>3, <5>1 DEF IsModeCh
      <4> QED
        BY <2>1, <2>3, <4>1, <4>2, <4>3 DEF SyncInv, LastModeCh, Switched
    <3> QED
      BY <3>1, <3>2
  <2>6. NoModeCh'
    <3> SUFFICES ASSUME ~lost', \A i \in DOMAIN queue' : ~IsModeCh(i)',
                        main \notin {"set_conf", "notify"}
                 PROVE  cur_mode = "SCROLL" <=> cur_conf.conf \in ScrollConf
      BY <2>1 DEF NoModeCh
    <3>1. act.kind # "MODECH" /\ \A i \in DOMAIN queue : ~IsModeCh(i)
      BY <2>3 DEF IsModeCh
    <3> QED
      BY <2>1, <3>1 DEF SyncInv, NoModeCh, Switched
  <2> QED
    BY <2>4, <2>5, <2>6 DEF SyncInv
<1> QED
  BY <1>1, <1>2, <1>3, <1>4

(* So does the loading of settings, with nothing under way. *)
LEMMA LoadKeepsSync ==
    ASSUME SyncInv, Reload = "paused", Scroll \/ ReplaceSetting \/ LoadStep
    PROVE  SyncInv'
<1> USE ModeAssumption DEF Conf, hookVars, confVars, scrollVars, SyncInv, Types, QueueOK,
        OneGeneration, ActAgrees, LastModeCh, NoModeCh, IsModeCh, Switched
<1>1. CASE Scroll
  BY <1>1 DEF Scroll
<1>2. CASE ReplaceSetting
  <2>1. /\ hook = "idle" /\ queue = <<>> /\ main' = "set_conf"
        /\ app_gen' \in 1 .. MaxGen /\ live' = live \cup {app_gen'}
        /\ UNCHANGED <<cur_conf, hook, act, asked, lost, queue, cur_mode>>
    BY <1>2 DEF ReplaceSetting
  <2>2. Types' /\ ActAgrees'
    BY <2>1
  <2>3. OneGeneration' /\ LastModeCh' /\ NoModeCh'
    BY <2>1
  <2> QED
    BY <2>2, <2>3
<1>3. CASE SetInitialConf
  BY <1>3 DEF SetInitialConf
<1>4. CASE NotifyNormal
  BY <1>4 DEF NotifyNormal, EndOp
<1>5. CASE FreeSetting
  BY <1>5 DEF FreeSetting
<1> QED
  BY <1>1, <1>2, <1>3, <1>4, <1>5 DEF LoadStep

(* Every step keeps the two in step. *)
LEMMA SyncStep ==
    ASSUME SyncInv, Reload = "paused", [Next]_vars
    PROVE  SyncInv'
<1>1. CASE UNCHANGED vars
  BY <1>1 DEF vars, SyncInv, Types, QueueOK, OneGeneration, ActAgrees, LastModeCh,
     NoModeCh, IsModeCh, Switched
<1> QED
  BY <1>1, HandlerKeepsSync, HookKeepsSync, LoadKeepsSync DEF Next

(* Once the messages are handled the main thread is in the mode the hook   *)
(* filters for (hook.c 194-199, scroll.c 189-229).                         *)
THEOREM ModesAgree ==
    ASSUME Reload = "paused"
    PROVE  Spec => []Synced
<1>1. SyncInv /\ [Next]_vars => SyncInv'
  BY SyncStep
<1>2. SyncInv => Synced
  BY DEF SyncInv, Types, QueueOK, NoModeCh, Switched, Synced
<1> QED
  BY InitSyncInv, <1>1, <1>2, PTL DEF Spec

(***************************************************************************)
(* The ratio.  Each message says the ratio asked for after it; what the    *)
(* main thread still has to do leads from x_ratio to the ratio asked for,  *)
(* once the last mode change is behind it.  A message that was lost breaks *)
(* the chain only up to the next mode change.                              *)
(***************************************************************************)
AskedChain ==
    /\ \A k \in DOMAIN queue : IsModeCh(k) =>
           queue[k].asked = ScrollRatio[queue[k].data.conf]
    /\ \A k \in 2 .. Len(queue) : ~lost /\ (\A j \in k .. Len(queue) : ~IsModeCh(j)) =>
           queue[k].asked = AskedBy(queue[k].data, queue[k - 1].asked)

LastAsked == ~lost /\ queue # <<>> => queue[Len(queue)].asked = asked

LeadsToAsked ==
    ~lost /\ ~Switched /\ cur_conf.conf \in ScrollConf /\ (\A i \in DOMAIN queue : ~IsModeCh(i)) =>
        IF queue = <<>> THEN x_ratio = asked
                        ELSE queue[1].asked = AskedBy(queue[1].data, x_ratio)

RatioInv == AskedChain /\ LastAsked /\ LeadsToAsked

(* No ratio is under way at the start. *)
LEMMA InitRatioInv == Init => RatioInv
BY ModeAssumption DEF Init, RatioInv, AskedChain, LastAsked, LeadsToAsked

(* A handler takes the first message's ratio, on which the next one builds. *)
LEMMA HandlerKeepsRatio ==
    ASSUME SyncInv, RatioInv, NEW data \in Datas, MainStep(data)
    PROVE  RatioInv'
<1>1. /\ UNCHANGED <<cur_conf, hook, act, asked, lost, app_gen, live>>
      /\ main \in {"idle", "loop"} /\ data = queue[1].data
  BY HandlerFacts
<1>2. /\ Len(queue) \in Nat \ {0} /\ Len(queue') = Len(queue) - 1
      /\ DOMAIN queue = 1 .. Len(queue) /\ DOMAIN queue' = 1 .. Len(queue')
      /\ \A i \in 1 .. Len(queue) - 1 : queue'[i] = queue[i + 1]
      /\ queue' # <<>> => Len(queue') \in Nat \ {0}
      /\ queue' = <<>> => Len(queue) = 1
      /\ queue # <<>>
  <2>1. /\ Len(queue) \in Nat \ {0} /\ Len(queue') = Len(queue) - 1
        /\ DOMAIN queue = 1 .. Len(queue) /\ DOMAIN queue' = 1 .. Len(queue')
        /\ \A i \in 1 .. Len(queue) - 1 : queue'[i] = queue[i + 1]
        /\ QueueOK' /\ QueueOK
    BY HandlerFacts DEF SyncInv, Types
  <2>2. queue' # <<>> => Len(queue') \in Nat \ {0}
    BY <2>1, NonEmptyLen DEF QueueOK
  <2>3. queue' = <<>> => Len(queue') = 0
    OBVIOUS
  <2>4. queue # <<>>
    BY <2>1
  <2> QED
    BY <2>1, <2>2, <2>3, <2>4
<1>3. AskedChain'
  <2>1. ASSUME NEW k \in DOMAIN queue', IsModeCh(k)'
        PROVE  queue'[k].asked = ScrollRatio[queue'[k].data.conf]
    <3>1. k + 1 \in DOMAIN queue /\ queue'[k] = queue[k + 1] /\ IsModeCh(k + 1)
      BY <1>2, <2>1 DEF IsModeCh
    <3> QED
      BY <3>1 DEF RatioInv, AskedChain
  <2>2. ASSUME NEW k \in 2 .. Len(queue'), ~lost,
               \A j \in k .. Len(queue') : ~IsModeCh(j)'
        PROVE  queue'[k].asked = AskedBy(queue'[k].data, queue'[k - 1].asked)
    <3>1. k + 1 \in 2 .. Len(queue) /\ queue'[k] = queue[k + 1]
      BY <1>2, <2>2
    <3>4. ASSUME NEW j \in k + 1 .. Len(queue) PROVE ~IsModeCh(j)
      <4>1. j - 1 \in k .. Len(queue') /\ j - 1 \in 1 .. Len(queue) - 1 /\ (j - 1) + 1 = j
        BY <1>2, <2>2
      <4>2. queue'[j - 1] = queue[j]
        BY <1>2, <4>1
      <4> QED
        BY <2>2, <4>1, <4>2 DEF IsModeCh
    <3>2. k - 1 \in 1 .. Len(queue) - 1 /\ (k - 1) + 1 = k /\ (k + 1) - 1 = k
      BY <1>2
    <3>3. queue'[k - 1] = queue[(k + 1) - 1]
      BY <1>2, <3>2
    <3> QED
      BY <2>2, <3>1, <3>3, <3>4 DEF RatioInv, AskedChain
  <2> QED
    BY <1>1, <2>1, <2>2 DEF AskedChain
<1>4. LastAsked'
  <2>1. ASSUME queue' # <<>> PROVE queue'[Len(queue')] = queue[Len(queue)]
    BY <1>2, <2>1
  <2>2. queue # <<>>
    BY <1>2
  <2> QED
    BY <1>1, <2>1, <2>2 DEF RatioInv, LastAsked
<1>5. LeadsToAsked'
  <2> SUFFICES ASSUME ~lost, ~Switched, cur_conf.conf \in ScrollConf,
                      \A i \in DOMAIN queue' : ~IsModeCh(i)'
               PROVE  IF queue' = <<>> THEN x_ratio' = asked
                      ELSE queue'[1].asked = AskedBy(queue'[1].data, x_ratio')
    BY <1>1 DEF LeadsToAsked, Switched
  <2>1. \A j \in 2 .. Len(queue) : ~IsModeCh(j)
    BY RestIsRest
  <2>2. x_ratio' = queue[1].asked
    <3>1. CASE IsModeCh(1)
      <4>1. data.conf = cur_conf.conf /\ data.kind = "MODECH"
        BY <1>1, <1>2, <2>1, <3>1 DEF SyncInv, LastModeCh, IsModeCh
      <4>2. x_ratio' \in CurRatio
        BY <4>1, ModeAssumption DEF MainStep, StartScrollMode, ShiftScrollMode,
           EndScrollMode, ModeMsgScroll, ModeMsgRatio, LoopTake
      <4>3. x_ratio' = ScrollRatio[cur_conf.conf]
        BY <1>1, <4>2 DEF CurRatio, SyncInv, OneGeneration
      <4> QED
        BY <1>1, <1>2, <3>1, <4>1, <4>3 DEF RatioInv, AskedChain
    <3>2. CASE ~IsModeCh(1)
      <4>1. \A j \in DOMAIN queue : ~IsModeCh(j)
        BY <1>2, <2>1, <3>2
      <4>2. queue[1].asked = AskedBy(data, x_ratio)
        BY <1>1, <1>2, <4>1 DEF RatioInv, LeadsToAsked
      <4>3. data.kind \in Kind /\ data.kind # "MODECH"
        <5>1. QueueOK /\ queue # <<>>
          BY <1>2 DEF SyncInv, Types
        <5> QED
          BY <1>1, <3>2, <5>1, FirstTyped DEF IsModeCh
      <4>4. x_ratio' = AskedBy(data, x_ratio)
        BY <4>3 DEF MainStep, StartScrollMode, ShiftScrollMode, EndScrollMode,
           ModeMsgScroll, ModeMsgRatio, RatioAfter, LoopTake, AskedBy, Kind
      <4> QED
        BY <4>2, <4>4
    <3> QED
      BY <3>1, <3>2
  <2>3. CASE queue' = <<>>
    <3>1. queue # <<>> /\ Len(queue) = 1
      BY <1>2, <2>3
    <3> QED
      BY <2>2, <2>3, <3>1 DEF RatioInv, LastAsked
  <2>4. CASE queue' # <<>>
    <3>1. 2 \in 2 .. Len(queue) /\ queue'[1] = queue[2] /\ 2 - 1 = 1
      BY <1>2, <2>4
    <3>2. queue[2].asked = AskedBy(queue[2].data, queue[2 - 1].asked)
      BY <2>1, <3>1 DEF RatioInv, AskedChain
    <3> QED
      BY <2>2, <2>4, <3>1, <3>2
  <2> QED
    BY <2>3, <2>4
<1> QED
  BY <1>3, <1>4, <1>5 DEF RatioInv

(* A message that is posted builds on the last one. *)
LEMMA DeliveredKeepsRatio ==
    ASSUME SyncInv, RatioInv, PostAct, Len(queue) < MaxQueue
    PROVE  RatioInv'
<1>1. /\ hook = "post" /\ hook' = "idle" /\ asked' = AskedBy(act, asked)
      /\ queue' = Append(queue, [data |-> act, asked |-> asked'])
      /\ lost' = (lost /\ act.kind # "MODECH")
      /\ UNCHANGED <<act, cur_conf, x_ratio>>
  BY DEF PostAct, scrollVars
<1> DEFINE n == Len(queue)
<1>2. /\ n \in Nat
      /\ DOMAIN queue = 1 .. n /\ DOMAIN queue' = 1 .. n + 1 /\ Len(queue') = n + 1
      /\ \A i \in 1 .. n : queue'[i] = queue[i]
      /\ queue'[n + 1] = [data |-> act, asked |-> asked']
  BY <1>1 DEF SyncInv, Types, QueueOK
<1> HIDE DEF n
<1>3. queue # <<>> => n \in Nat \ {0} /\ (~lost => queue[n].asked = asked)
  BY NonEmptyLen DEF n, SyncInv, Types, QueueOK, RatioInv, LastAsked
<1>4. queue = <<>> => n = 0
  BY DEF n
<1>5. ~lost' /\ queue'[n + 1].data.kind # "MODECH" => ~lost /\ act.kind # "MODECH"
  <2>1. queue'[n + 1].data = act
    BY <1>2
  <2>2. lost' <=> (lost /\ act.kind # "MODECH")
    BY <1>1, Zenon
  <2> QED
    BY <2>1, <2>2, Zenon
<1>6. AskedChain'
  <2>1. ASSUME NEW k \in 1 .. n + 1, IsModeCh(k)'
        PROVE  queue'[k].asked = ScrollRatio[queue'[k].data.conf]
    <3>1. CASE k = n + 1
      BY <1>1, <1>2, <2>1, <3>1 DEF IsModeCh, AskedBy
    <3>2. CASE k \in 1 .. n
      BY <1>2, <2>1, <3>2 DEF IsModeCh, RatioInv, AskedChain
    <3> QED
      BY <1>2, <3>1, <3>2
  <2>2. ASSUME NEW k \in 2 .. n + 1, ~lost', \A j \in k .. n + 1 : ~IsModeCh(j)'
        PROVE  queue'[k].asked = AskedBy(queue'[k].data, queue'[k - 1].asked)
    <3>0. ~lost
      <4>1. n + 1 \in k .. n + 1
        BY <1>2
      <4> QED
        BY <1>5, <2>2, <4>1 DEF IsModeCh
    <3>1. CASE k = n + 1
      <4>1. queue # <<>> /\ k - 1 = n /\ n \in 1 .. n
        BY <1>2, <1>4, <2>2, <3>1
      <4> QED
        BY <1>1, <1>2, <1>3, <3>0, <3>1, <4>1
    <3>2. CASE k \in 2 .. n
      <4>1. k \in 1 .. n /\ k - 1 \in 1 .. n
        BY <1>2, <3>2
      <4>2. ASSUME NEW j \in k .. n PROVE ~IsModeCh(j)
        <5>1. j \in k .. n + 1 /\ j \in 1 .. n
          BY <1>2, <4>1
        <5> QED
          BY <1>2, <2>2, <5>1 DEF IsModeCh
      <4>3. queue[k].asked = AskedBy(queue[k].data, queue[k - 1].asked)
        BY <3>0, <3>2, <4>2 DEF RatioInv, AskedChain, n
      <4> QED
        BY <1>2, <4>1, <4>3
    <3> QED
      BY <1>2, <3>1, <3>2
  <2> QED
    BY <1>2, <2>1, <2>2 DEF AskedChain
<1>7. LastAsked'
  BY <1>2 DEF LastAsked
<1>8. LeadsToAsked'
  <2> SUFFICES ASSUME ~lost', cur_conf.conf \in ScrollConf,
                      \A i \in DOMAIN queue' : ~IsModeCh(i)'
               PROVE  queue' # <<>> /\ queue'[1].asked = AskedBy(queue'[1].data, x_ratio)
    BY <1>1 DEF LeadsToAsked
  <2>1. queue' # <<>> /\ 1 \in DOMAIN queue'
    BY <1>2
  <2>2. ~lost /\ act.kind # "MODECH" /\ \A i \in DOMAIN queue : ~IsModeCh(i)
    <3>1. n + 1 \in DOMAIN queue' /\ \A i \in DOMAIN queue : i \in DOMAIN queue'
      BY <1>2
    <3>2. queue'[n + 1].data.kind # "MODECH"
      BY <3>1 DEF IsModeCh
    <3>3. \A i \in DOMAIN queue : ~IsModeCh(i)
      BY <1>2, <3>1 DEF IsModeCh
    <3> QED
      BY <1>5, <3>2, <3>3
  <2>3. CASE queue = <<>>
    BY <1>1, <1>2, <1>4, <2>1, <2>2, <2>3 DEF RatioInv, LeadsToAsked, Switched
  <2>4. CASE queue # <<>>
    BY <1>2, <1>3, <2>1, <2>2, <2>4 DEF RatioInv, LeadsToAsked, Switched
  <2> QED
    BY <2>3, <2>4, <2>1
<1> QED
  BY <1>6, <1>7, <1>8 DEF RatioInv

(* A message that a full queue loses leaves what the mode changes ask for. *)
LEMMA PostKeepsRatio ==
    ASSUME SyncInv, RatioInv, PostAct
    PROVE  RatioInv'
<1>1. CASE Len(queue) < MaxQueue
  BY <1>1, DeliveredKeepsRatio
<1>2. CASE ~(Len(queue) < MaxQueue)
  <2>1. UNCHANGED queue /\ lost' = TRUE
    BY <1>2 DEF PostAct
  <2> QED
    BY <2>1 DEF RatioInv, AskedChain, LastAsked, LeadsToAsked, IsModeCh
<1> QED
  BY <1>1, <1>2

(* Steps that leave the queue alone. *)
LEMMA OthersKeepRatio ==
    ASSUME SyncInv, RatioInv, Reload = "paused",
           ReadAct \/ SwitchConf \/ Scroll \/ ReplaceSetting \/ LoadStep
    PROVE  RatioInv'
<1>1. UNCHANGED <<queue, asked, lost, x_ratio>>
  BY DEF ReadAct, SwitchConf, Scroll, ReplaceSetting, LoadStep, SetInitialConf,
     NotifyNormal, FreeSetting, EndOp, hookVars, scrollVars, confVars
<1>2. AskedChain' /\ LastAsked'
  BY <1>1 DEF RatioInv, AskedChain, LastAsked, IsModeCh
<1>3. LeadsToAsked'
  <2>1. CASE ReadAct
    BY <1>1, <2>1 DEF ReadAct, RatioInv, LeadsToAsked, IsModeCh, Switched
  <2>2. CASE SwitchConf
    BY <1>1, <2>2 DEF SwitchConf, SyncInv, ActAgrees, LeadsToAsked, Switched
  <2>3. CASE SetInitialConf
    BY <1>1, <2>3, ModeAssumption DEF SetInitialConf, LeadsToAsked
  <2>4. CASE Scroll \/ ReplaceSetting \/ NotifyNormal \/ FreeSetting
    BY <1>1, <2>4 DEF Scroll, ReplaceSetting, NotifyNormal, FreeSetting, hookVars,
       RatioInv, LeadsToAsked, IsModeCh, Switched
  <2> QED
    BY <2>1, <2>2, <2>3, <2>4 DEF LoadStep
<1> QED
  BY <1>2, <1>3 DEF RatioInv

(* Every step keeps the ratios in order. *)
LEMMA RatioStep ==
    ASSUME SyncInv, RatioInv, Reload = "paused", [Next]_vars
    PROVE  RatioInv'
<1>1. CASE UNCHANGED vars
  BY <1>1 DEF vars, RatioInv, AskedChain, LastAsked, LeadsToAsked, IsModeCh, Switched
<1> QED
  BY <1>1, HandlerKeepsRatio, PostKeepsRatio, OthersKeepRatio DEF Next

(* The scroll ratio the main thread ends with is the one asked for, for    *)
(* any modes, ratios and actions (scroll.c 18, 156, 283, 297).             *)
THEOREM RatiosAgree ==
    ASSUME Reload = "paused"
    PROVE  Spec => []RatioAgrees
<1>1. SyncInv /\ RatioInv /\ [Next]_vars => SyncInv' /\ RatioInv'
  BY SyncStep, RatioStep
<1>2. SyncInv /\ RatioInv => RatioAgrees
  BY DEF RatioInv, LeadsToAsked, Switched, RatioAgrees
<1> QED
  BY InitSyncInv, InitRatioInv, <1>1, <1>2, PTL DEF Spec
-----------------------------------------------------------------------------
(***************************************************************************)
(* Type correctness, whenever settings are loaded again: what is read from *)
(* a freed configuration is still an action of some mode.                  *)
(***************************************************************************)
Typed ==
    /\ TypeOK
    /\ QueueOK
    /\ hook = "switch" => act.kind = "MODECH"

(* The actions of a configuration are actions. *)
LEMMA ActFacts ==
    ASSUME NEW c \in [gen : 1 .. MaxGen, conf : Conf], NEW a \in ActsOf(c)
    PROVE  a \in Act
BY ModeAssumption DEF ActsOf

(* The first of a queue is one of its messages. *)
LEMMA HeadInSet ==
    ASSUME NEW S, NEW q \in Seq(S), q # <<>>
    PROVE  Head(q) \in S
OBVIOUS

(* What is read through a message's pointer has its type, whatever was freed. *)
LEMMA ReadFacts ==
    ASSUME Typed, queue # <<>>, NEW data \in Read(Head(queue).data)
    PROVE  data.kind \in Kind \cup {"UNKNOWN"} /\ data.conf \in Conf /\ data.n \in Int
<1>0. QueueOK
  BY DEF Typed
<1>1. Head(queue).data \in [kind : Kind, conf : Conf, n : Int, gen : 1 .. MaxGen]
  <2> DEFINE D == [kind : Kind, conf : Conf, n : Int, gen : 1 .. MaxGen]
  <2>1. queue \in Seq([data : D, asked : Int])
    BY <1>0 DEF QueueOK
  <2> HIDE DEF D
  <2>2. Head(queue) \in [data : D, asked : Int]
    BY <2>1, HeadInSet
  <2>3. Head(queue).data \in D
    BY <2>2
  <2> QED
    BY <2>3 DEF D
<1>2. \A a \in UNION {Acts[d] : d \in Conf} : a \in Act
  BY ModeAssumption
<1> QED
  BY <1>1, <1>2 DEF Read, Movement, Act

(* The types at the start. *)
LEMMA InitTyped == Init => Typed
<1> SUFFICES ASSUME Init PROVE Typed
  OBVIOUS
<1>1. QueueOK
  BY DEF Init, QueueOK
<1>3. lost \in BOOLEAN
  BY DEF Init
<1>2. TypeOK
  BY <1>3, ModeAssumption DEF Init, TypeOK, Kind, Conf
<1> QED
  BY <1>1, <1>2 DEF Init, Typed

(* The handlers keep the types. *)
LEMMA HandlerTyped ==
    ASSUME Typed, NEW data \in Datas, MainStep(data)
    PROVE  Typed'
<1>1. /\ queue # <<>> /\ data \in Read(Head(queue).data) /\ queue' = Tail(queue)
      /\ main' \in {"idle", "loop"}
      /\ UNCHANGED <<cur_conf, hook, act, asked, lost, app_gen, live>>
  BY DEF MainStep, StartScrollMode, ShiftScrollMode, EndScrollMode, ModeMsgScroll,
     ModeMsgRatio, LoopTake, Handles, hookVars, confVars, Typed, TypeOK
<1>2. data.n \in Int
  BY <1>1, ReadFacts
<1>3. QueueOK' /\ Len(queue') <= MaxQueue
  <2>1. QueueOK' /\ Len(queue') = Len(queue) - 1
    BY <1>1, TailFacts DEF Typed
  <2> QED
    BY <2>1, ModeAssumption DEF Typed, TypeOK, QueueOK
<1>4. /\ cur_mode' \in {"NORMAL", "SCROLL"} /\ op' \in (1 .. MaxGen) \cup {NULL}
      /\ op_context' \in {"none", "allocated", "initialised"}
  BY DEF MainStep, StartScrollMode, ShiftScrollMode, EndScrollMode, EndOp,
     ModeMsgScroll, ModeMsgRatio, LoopTake, scrollVars, Typed, TypeOK
<1>5. CurRatio \subseteq Int
  BY ModeAssumption DEF CurRatio, Typed, TypeOK
<1>6. data.n * x_ratio \in Int /\ x_ratio * data.n \in Int
  BY <1>2 DEF Typed, TypeOK
<1>7. x_ratio' \in Int
  BY <1>2, <1>5, <1>6 DEF MainStep, StartScrollMode, ShiftScrollMode, EndScrollMode, EndOp,
     ModeMsgScroll, ModeMsgRatio, RatioAfter, LoopTake, scrollVars, Typed, TypeOK
<1>8. dx' \in Int /\ raw' \in Int
  <2> DEFINE moved == data.n * x_ratio
  <2>1. moved \in Int /\ dx + moved \in Int /\ raw + data.n \in Int
    BY <1>2, <1>6 DEF Typed, TypeOK
  <2>2. /\ dx' = dx \/ dx' = moved \/ dx' = dx + moved
        /\ raw' = raw \/ raw' = 0 \/ raw' = data.n \/ raw' = raw + data.n
    BY DEF MainStep, StartScrollMode, ShiftScrollMode, EndScrollMode, EndOp,
       ModeMsgScroll, ModeMsgRatio, LoopTake, scrollVars
  <2> HIDE DEF moved
  <2> QED
    BY <1>2, <2>1, <2>2 DEF Typed, TypeOK
<1> QED
  BY <1>1, <1>3, <1>4, <1>7, <1>8 DEF Typed, TypeOK

(* So does the hook thread. *)
LEMMA HookTyped ==
    ASSUME Typed, ReadAct \/ SwitchConf \/ PostAct
    PROVE  Typed'
<1> USE DEF Typed, TypeOK, scrollVars, confVars
<1>1. CASE ReadAct
  <2>1. PICK a \in ActsOf(cur_conf) :
           act' = [kind |-> a.kind, conf |-> a.conf, n |-> a.n, gen |-> cur_conf.gen]
           /\ hook' = IF a.kind = "MODECH" THEN "switch" ELSE "post"
    BY <1>1 DEF ReadAct
  <2>2. a \in Act
    BY ActFacts
  <2> QED
    BY <1>1, <2>1, <2>2 DEF ReadAct, QueueOK, Act
<1>2. CASE SwitchConf
  BY <1>2, ModeAssumption DEF SwitchConf, QueueOK
<1>3. CASE PostAct
  <2>1. asked * act.n \in Int
    OBVIOUS
  <2>2. asked' \in Int
    BY <1>3, <2>1, ModeAssumption DEF PostAct, AskedBy, Kind
  <2>3. lost' \in BOOLEAN
    BY <1>3 DEF PostAct
  <2>4. QueueOK' /\ Len(queue') <= MaxQueue
    <3>1. CASE Len(queue) < MaxQueue
      <4>1. queue' = Append(queue, [data |-> act, asked |-> asked'])
        BY <1>3, <3>1 DEF PostAct
      <4>2. QueueOK' /\ Len(queue') = Len(queue) + 1 /\ Len(queue) \in Nat
        BY <2>2, <4>1 DEF QueueOK
      <4> QED
        BY <3>1, <4>2, ModeAssumption
    <3>2. CASE ~(Len(queue) < MaxQueue)
      BY <1>3, <3>2 DEF PostAct, QueueOK
    <3> QED
      BY <3>1, <3>2
  <2> QED
    BY <1>3, <2>2, <2>3, <2>4 DEF PostAct
<1> QED
  BY <1>1, <1>2, <1>3

(* So does the loading of settings. *)
LEMMA LoadTyped ==
    ASSUME Typed, Scroll \/ ReplaceSetting \/ LoadStep
    PROVE  Typed'
<1> USE ModeAssumption DEF Typed, TypeOK, QueueOK, hookVars, scrollVars, confVars
<1>1. CASE Scroll
  BY <1>1 DEF Scroll
<1>2. CASE ReplaceSetting
  BY <1>2 DEF ReplaceSetting
<1>3. CASE SetInitialConf
  BY <1>3 DEF SetInitialConf, Conf
<1>4. CASE NotifyNormal
  BY <1>4 DEF NotifyNormal, EndOp
<1>5. CASE FreeSetting
  BY <1>5 DEF FreeSetting
<1> QED
  BY <1>1, <1>2, <1>3, <1>4, <1>5 DEF LoadStep

(* The variables keep their types, with settings loaded again at any time: *)
(* what is read from a freed configuration (hook.c 194-199, scroll.c       *)
(* 189-297) leads to another mode or ratio, never outside them.            *)
THEOREM TypeCorrectness == Spec => []TypeOK
<1>1. Typed /\ [Next]_vars => Typed'
  <2>1. Typed /\ UNCHANGED vars => Typed'
    BY DEF vars, Typed, TypeOK, QueueOK
  <2> QED
    BY <2>1, HandlerTyped, HookTyped, LoadTyped DEF Next
<1>2. Typed => TypeOK
  BY DEF Typed
<1> QED
  BY InitTyped, <1>1, <1>2, PTL DEF Spec

-----------------------------------------------------------------------------
(***************************************************************************)
(* The movements.  What waits in the queue is a sum over its messages,     *)
(* which is a recursive function: it exists by induction, and the first    *)
(* message taken away it is less by that one's movement.                   *)
(***************************************************************************)
Message == [data : [kind : Kind, conf : Conf, n : Int, gen : 1 .. MaxGen], asked : Int]

IsSum(f, q, n) ==
    f = [i \in 0 .. n |-> IF i = 0 THEN 0 ELSE f[i - 1] + Movement(q[i].data)]

(* There is a sum over the first n messages, by induction. *)
LEMMA SumExists ==
    ASSUME NEW q
    PROVE  \A n \in Nat : \E f : IsSum(f, q, n)
<1> DEFINE S == {n \in Nat : \E f : IsSum(f, q, n)}
<1>1. 0 \in S
  <2>1. IsSum([i \in 0 .. 0 |-> 0], q, 0)
    BY DEF IsSum
  <2> QED
    BY <2>1
<1>2. ASSUME NEW n \in Nat, n \in S PROVE n + 1 \in S
  <2>1. PICK f : IsSum(f, q, n)
    BY <1>2
  <2> DEFINE g == [i \in 0 .. n + 1 |-> IF i = 0 THEN 0 ELSE f[i - 1] + Movement(q[i].data)]
  <2>2. \A i \in 0 .. n : g[i] = f[i]
    BY <2>1 DEF IsSum
  <2>3. \A i \in 0 .. n + 1 : i # 0 => i - 1 \in 0 .. n
    OBVIOUS
  <2>4. IsSum(g, q, n + 1)
    BY <2>2, <2>3 DEF IsSum
  <2> QED
    BY <2>4
<1>3. \A n \in Nat : n \in S
  <2> HIDE DEF S
  <2> QED
    BY <1>1, <1>2, SetInduction
<1> QED
  BY <1>3

(* Waiting is that sum over the whole queue. *)
LEMMA WaitingIsSum ==
    ASSUME NEW q, Len(q) \in Nat
    PROVE  \E f : IsSum(f, q, Len(q)) /\ Waiting(q) = f[Len(q)]
<1>1. IsSum(CHOOSE f : IsSum(f, q, Len(q)), q, Len(q))
  BY SumExists
<1>2. Waiting(q) = (CHOOSE f : IsSum(f, q, Len(q)))[Len(q)]
  BY DEF Waiting, IsSum
<1> QED
  BY <1>1, <1>2

(* A message's movement is a number. *)
LEMMA MovementInt ==
    ASSUME NEW q \in Seq(Message), NEW i \in 1 .. Len(q)
    PROVE  Movement(q[i].data) \in Int
<1>1. q[i] \in Message
  OBVIOUS
<1> QED
  BY <1>1 DEF Movement, Message

(* Without its first message the queue holds the movements of the others. *)
LEMMA WaitingTail ==
    ASSUME NEW q \in Seq(Message), q # <<>>
    PROVE  /\ Waiting(q) \in Int
           /\ Waiting(Tail(q)) = Waiting(q) - Movement(q[1].data)
<1>1. /\ Len(q) \in Nat \ {0} /\ Tail(q) \in Seq(Message) /\ Len(Tail(q)) = Len(q) - 1
      /\ \A i \in 1 .. Len(q) - 1 : Tail(q)[i] = q[i + 1]
  OBVIOUS
<1>2. PICK f : IsSum(f, q, Len(q)) /\ Waiting(q) = f[Len(q)]
  BY <1>1, WaitingIsSum
<1>3. PICK g : IsSum(g, Tail(q), Len(q) - 1) /\ Waiting(Tail(q)) = g[Len(q) - 1]
  <2> DEFINE t == Tail(q)
  <2>1. Len(t) \in Nat /\ Len(t) = Len(q) - 1
    BY <1>1
  <2> HIDE DEF t
  <2>2. \E g : IsSum(g, t, Len(t)) /\ Waiting(t) = g[Len(t)]
    BY <2>1, WaitingIsSum
  <2> QED
    BY <2>1, <2>2 DEF t
<1> DEFINE m == Movement(q[1].data)
           S == {n \in Nat : n <= Len(q) - 1 => g[n] \in Int /\ f[n + 1] = g[n] + m}
<1>4. m \in Int
  BY <1>1, MovementInt
<1>5. 0 \in S
  <2>1. f[0] = 0 /\ f[1] = f[1 - 1] + m /\ g[0] = 0
    BY <1>1, <1>2, <1>3 DEF IsSum
  <2> QED
    BY <1>4, <2>1
<1>6. ASSUME NEW n \in Nat, n \in S PROVE n + 1 \in S
  <2> SUFFICES ASSUME n + 1 <= Len(q) - 1
               PROVE  g[n + 1] \in Int /\ f[(n + 1) + 1] = g[n + 1] + m
    OBVIOUS
  <2>1. g[n] \in Int /\ f[n + 1] = g[n] + m
    BY <1>1, <1>6
  <2>2. (n + 1) - 1 = n /\ ((n + 1) + 1) - 1 = n + 1
        /\ n + 1 \in 1 .. Len(q) - 1 /\ (n + 1) + 1 \in 1 .. Len(q)
    BY <1>1
  <2>3. Movement(q[(n + 1) + 1].data) \in Int /\ Tail(q)[n + 1] = q[(n + 1) + 1]
    BY <1>1, <2>2, MovementInt
  <2>4. g[n + 1] = g[n] + Movement(q[(n + 1) + 1].data)
    BY <1>1, <1>3, <2>2, <2>3 DEF IsSum
  <2>5. f[(n + 1) + 1] = f[n + 1] + Movement(q[(n + 1) + 1].data)
    BY <1>1, <1>2, <2>2 DEF IsSum
  <2> HIDE DEF m
  <2> QED
    BY <1>4, <2>1, <2>3, <2>4, <2>5
<1>7. \A n \in Nat : n \in S
  <2> HIDE DEF S
  <2> QED
    BY <1>5, <1>6, SetInduction
<1>8. Len(q) - 1 \in S /\ (Len(q) - 1) + 1 = Len(q)
  BY <1>1, <1>7
<1>9. g[Len(q) - 1] \in Int /\ f[Len(q)] = g[Len(q) - 1] + m
  BY <1>1, <1>8
<1> HIDE DEF m
<1>10. Waiting(q) \in Int /\ Waiting(Tail(q)) = Waiting(q) - m
  BY <1>2, <1>3, <1>4, <1>9
<1> QED
  BY <1>10 DEF m

(* What the main thread has taken from the queue and not given away yet.   *)
MovementInv ==
    /\ x_ratio \in Int /\ dx \in Int /\ raw \in Int
    /\ main # "loop" => raw = 0
    /\ main = "loop" => op # NULL /\ dx = raw * x_ratio

(* Nothing has been moved at the start. *)
LEMMA InitMovement == Init => MovementInv
BY DEF Init, MovementInv

(* A handler takes a message's movement into its sum, or gives the sum away. *)
LEMMA HandlerMovement ==
    ASSUME SyncInv, MovementInv, NEW data \in Datas, MainStep(data)
    PROVE  /\ MovementInv'
           /\ op = NULL \/ Waiting(queue') + raw' = Waiting(queue) + raw
<1>1. /\ data = queue[1].data /\ queue # <<>> /\ queue' = Tail(queue)
      /\ UNCHANGED <<cur_conf, live>>
  <2>1. /\ data = queue[1].data /\ Len(queue) \in Nat \ {0}
        /\ UNCHANGED <<cur_conf, live>>
    BY HandlerFacts
  <2>2. queue' = Tail(queue) /\ queue # <<>>
    BY DEF MainStep, StartScrollMode, ShiftScrollMode, EndScrollMode, ModeMsgScroll,
       ModeMsgRatio, LoopTake, Handles
  <2> QED
    BY <2>1, <2>2
<1>2. /\ Waiting(queue) \in Int
      /\ Waiting(queue') = Waiting(queue) - Movement(data)
  <2>1. queue \in Seq(Message)
    BY DEF SyncInv, Types, QueueOK, Message
  <2> QED
    BY <1>1, <2>1, WaitingTail
<1>3. data.n \in Int
  <2>1. queue \in Seq(Message) /\ queue # <<>>
    BY <1>1 DEF SyncInv, Types, QueueOK, Message
  <2>2. queue[1] \in Message
    BY <2>1
  <2> QED
    BY <1>1, <2>2 DEF Message
<1>4. CurRatio \subseteq Int
  BY ModeAssumption DEF CurRatio, SyncInv, Types
<1> USE DEF MovementInv, Movement
<1>5. CASE data.kind = "MODECH"
  <2>1. x_ratio' \in Int /\ UNCHANGED <<raw, dx, main>> /\ main = "idle"
    BY <1>4, <1>5 DEF MainStep, StartScrollMode, ShiftScrollMode, EndScrollMode, EndOp,
       ModeMsgScroll, ModeMsgRatio, LoopTake, Handles
  <2> QED
    BY <1>2, <1>5, <2>1
<1>6. CASE ModeMsgRatio(data)
  <2>1. x_ratio * data.n \in Int
    BY <1>3
  <2> QED
    BY <1>2, <1>3, <1>6, <2>1 DEF ModeMsgRatio, RatioAfter, Handles
<1>7. CASE ModeMsgScroll(data)
  <2>1. data.n * x_ratio \in Int
    BY <1>3
  <2> QED
    BY <1>2, <1>3, <1>7, <2>1 DEF ModeMsgScroll, Handles
<1>8. CASE LoopTake(data)
  <2> DEFINE n == data.n
             by == n * x_ratio
  <2>1. /\ dx' = dx + by /\ raw' = raw + n /\ queue' = Tail(queue)
        /\ main = "loop" /\ UNCHANGED <<main, x_ratio, op>>
    BY <1>8 DEF LoopTake
  <2>2. n \in Int /\ by \in Int /\ raw * x_ratio + by = (raw + n) * x_ratio
    BY <1>3
  <2>3. Waiting(queue') = Waiting(queue) - n
    <3>1. data.kind = "SCROLL"
      BY <1>8 DEF LoopTake
    <3> QED
      BY <1>2, <3>1
  <2> HIDE DEF n, by
  <2>4. raw' \in Int /\ dx' \in Int
    BY <2>1, <2>2
  <2>5. dx' = raw' * x_ratio'
    <3>1. dx = raw * x_ratio
      BY <2>1
    <3> QED
      BY <2>1, <2>2, <3>1
  <2>6. MovementInv'
    BY <2>1, <2>4, <2>5
  <2>7. Waiting(queue') + raw' = Waiting(queue) + raw
    <3> DEFINE w == Waiting(queue)
               rest == Waiting(queue')
    <3>1. w \in Int /\ rest = w - n /\ raw' = raw + n /\ raw \in Int /\ n \in Int
      BY <1>2, <2>1, <2>2, <2>3
    <3> HIDE DEF w, rest
    <3>2. rest + raw' = w + raw
      BY <3>1
    <3> QED
      BY <3>2 DEF w, rest
  <2> QED
    BY <2>6, <2>7
<1> QED
  BY <1>5, <1>6, <1>7, <1>8 DEF MainStep, StartScrollMode, ShiftScrollMode, EndScrollMode

(* The other steps give nothing to the operator; what they post they count. *)
LEMMA OtherMovement ==
    ASSUME SyncInv, MovementInv,
           ReadAct \/ SwitchConf \/ PostAct \/ Scroll \/ ReplaceSetting \/ LoadStep
    PROVE  /\ MovementInv'
           /\ \/ hook' # hook
              \/ UNCHANGED <<queue, raw>>
              \/ main = "loop" /\ main' = "idle" /\ queue' = queue /\ dx = raw * x_ratio
<1> USE DEF MovementInv, scrollVars, hookVars
<1>1. CASE ReadAct \/ SwitchConf \/ PostAct
  BY <1>1 DEF ReadAct, SwitchConf, PostAct
<1>2. CASE Scroll
  BY <1>2 DEF Scroll
<1>3. CASE ReplaceSetting
  BY <1>3 DEF ReplaceSetting
<1>4. CASE LoadStep
  BY <1>4 DEF LoadStep, SetInitialConf, NotifyNormal, FreeSetting, EndOp
<1> QED
  BY <1>1, <1>2, <1>3, <1>4

(* Every movement is given to the operator once, scaled (scroll.c 236-274, *)
(* 328-333), for any number of messages that wait.                         *)
THEOREM Movements ==
    ASSUME Reload = "paused"
    PROVE  Spec => MovementConserved
<1> DEFINE Gives == \/ op = NULL
                    \/ /\ main = "loop" /\ main' = "idle" /\ queue' = queue
                       /\ dx = raw * x_ratio
           Changes == Waiting(queue') + raw' # Waiting(queue) + raw /\ hook' = hook
<1>1. ASSUME SyncInv, MovementInv, [Next]_vars
      PROVE  MovementInv' /\ [Changes => Gives]_vars
  <2>1. CASE UNCHANGED vars
    BY <1>1, <2>1 DEF vars, MovementInv
  <2>2. CASE Next
    BY <1>1, <2>2, HandlerMovement, OtherMovement DEF Next
  <2> QED
    BY <1>1, <2>1, <2>2
<1>2. SyncInv /\ [Next]_vars => SyncInv'
  BY SyncStep
<1> QED
  BY <1>1, <1>2, InitSyncInv, InitMovement, PTL DEF Spec, MovementConserved
=============================================================================
