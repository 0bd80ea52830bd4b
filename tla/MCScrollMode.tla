---------------------------- MODULE MCScrollMode ----------------------------
(* The modes of conf/default.mprc, one axis, for TLC.                      *)
EXTENDS ScrollMode

ModeCh(c)   == [kind |-> "MODECH", conf |-> c, n |-> 0]
Moved(k)    == [kind |-> "SCROLL", conf |-> InitialConf, n |-> k]
MulRatio(k) == [kind |-> "MUL_RATIO", conf |-> InitialConf, n |-> k]
SetRatio(k) == [kind |-> "SET_RATIO", conf |-> InitialConf, n |-> k]

DefaultActs ==
    [c \in Conf |->
        CASE c = "normal" -> {ModeCh("hv"), ModeCh("v")}
          [] c = "hv" -> {ModeCh("normal"), ModeCh("v"), Moved(1), MulRatio(2), SetRatio(1)}
          [] c = "v"  -> {ModeCh("normal"), ModeCh("hv"), Moved(2)}]

(* The same with ratios that stay small when memory that was freed is read. *)
SmallActs ==
    [c \in Conf |->
        CASE c = "normal" -> {ModeCh("hv")}
          [] c = "hv" -> {ModeCh("normal"), ModeCh("v"), Moved(1), MulRatio(-1)}
          [] c = "v"  -> {ModeCh("normal"), ModeCh("hv"), Moved(1)}]

SmallRatio == [c \in Conf |-> IF c = "hv" THEN 1 ELSE 0]

DefaultRatio == [c \in Conf |-> CASE c = "normal" -> 0 [] c = "hv" -> 1 [] c = "v" -> -3]
=============================================================================
