----------------------------- MODULE MCMouseHook -----------------------------
(* Configurations of MouseHook for TLC, after the files of conf/ and the   *)
(* examples of doc/CUSTOMIZE.html.                                         *)
EXTENDS MouseHook

Nothing     == [code |-> "NOTHING", button |-> 0, mode |-> InitialConf]
Press(k)    == [code |-> "BUTTON_D", button |-> k, mode |-> InitialConf]
Release(k)  == [code |-> "BUTTON_U", button |-> k, mode |-> InitialConf]
ModeCh(m)   == [code |-> "MODECH", button |-> 0, mode |-> m]
Other(c)    == [code |-> c, button |-> 0, mode |-> InitialConf]

(* A mode: the buttons click as themselves or do nothing, and the slots in *)
(* the domain of special run its actions, in both orders for a combination. *)
Mode(clicks, wheel, move, special) ==
    [s \in Slot |->
        IF s \in DOMAIN special THEN special[s]
        ELSE IF <<s[1], s[3], s[2]>> \in DOMAIN special THEN special[<<s[1], s[3], s[2]>>]
        ELSE IF s[1] = "wheel_act" THEN Other(wheel)
        ELSE IF s[1] = "move_act" THEN Other(move)
        ELSE IF clicks /\ s[1] = "d_act" /\ s[2] = s[3] THEN Press(s[2])
        ELSE IF clicks /\ s[1] = "u_act" /\ s[2] = s[3] THEN Release(s[2])
        ELSE Nothing]

(* One mode: button 1+2 clicks as button 4, 1+3 as button 5. *)
ClickConf ==
    [m \in ModeName |-> Mode(TRUE, "WHEEL", "MOVE",
        [s \in {<<"comb_d_act", 0, 1>>, <<"comb_u_act", 0, 1>>,
                <<"comb_d_act", 0, 2>>, <<"comb_u_act", 0, 2>>} |->
            IF s[1] = "comb_d_act" THEN Press(s[3] + 2) ELSE Release(s[3] + 2)])]

(* A normal and a scroll mode, as default.mprc has them. *)
ScrollConf ==
    [m \in ModeName |->
        IF m = "normal"
        THEN Mode(TRUE, "WHEELPOST", "MOVE",
                  [s \in {<<"comb_u_act", 0, 1>>} |-> ModeCh("scroll")])
        ELSE Mode(FALSE, "WHEELPOST", "MODEMSG",
                  [s \in {<<"comb_u_act", 0, 1>>, <<"u_act", 0, 0>>,
                          <<"u_act", 2, 2>>, <<"comb_u_act", 1, 2>>} |->
                      IF s[2] = 2 THEN Other("MODEMSG")
                      ELSE IF s = <<"comb_u_act", 1, 2>> THEN Other("MODEMSG")
                      ELSE ModeCh("normal")])]

(* Four buttons: 1+2 and 3+4 are combinations. *)
FourConf ==
    [m \in ModeName |-> Mode(TRUE, "WHEELPOST", "MOVE",
        [s \in {<<"comb_d_act", 2, 3>>, <<"comb_u_act", 2, 3>>, <<"comb_u_act", 0, 1>>} |->
            IF s[1] = "comb_d_act" THEN Press(4)
            ELSE IF s[2] = 2 THEN Release(4) ELSE Other("MODEMSG")])]
=============================================================================
