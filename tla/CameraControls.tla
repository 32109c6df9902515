--------------------------- MODULE CameraControls ---------------------------
(***************************************************************************)
(* The camera of V4l2Capture with a second caller, who asks for and sets   *)
(* its exposure and its frame interval: set_exposure of capture.cpp and    *)
(* the controls and parameters of v4l2_wrap.cpp.  v4l2_init's own call of  *)
(* set_exposure is commented out.                                          *)
(***************************************************************************)
EXTENDS V4l2Capture

CONSTANTS Tries,    \* 5, how often set_exposure asks for the manual mode
          Exposures,\* the values of the control
          Intervals \* those of the parameter

ASSUME ControlsAssumption == Tries \in Nat \ {0} /\ Exposures \subseteq Int /\ Exposures # {} /\ Intervals # {}

VARIABLES mode, exposure,  \* the device's: "auto" or "manual", and a value
          interval,        \* the device's: the streamparm
          cpc,             \* the ioctl the caller is at, or "idle"
          asked, try_cnt,  \* of set_exposure
          told             \* what the last call was, returned and filled in

controlVars == <<mode, exposure, interval, cpc, asked, try_cnt, told>>
cameraVars  == <<vars, controlVars>>

Answered(call, code, parm) == [call |-> call, code |-> code, parm |-> parm]
Unset == 0
Returned(call, code) == Answered(call, code, Unset)
Nothing == Returned("none", 0)

ControlInit == /\ mode \in {"auto", "manual"} /\ exposure = CHOOSE v \in Exposures : TRUE
               /\ interval = CHOOSE v \in Intervals : TRUE
               /\ cpc = "idle" /\ asked = exposure /\ try_cnt = 0 /\ told = Nothing

Controls(action) == "exposure" \in may /\ action /\ UNCHANGED vars
Refused(call) == ~fd \/ Fails(call)

-----------------------------------------------------------------------------
(* The wrappers by themselves.  v4l2_g_ctrl returns what it was asked for, *)
(* v4l2_g_parm fills it in; v4l2_s_ctrl returns the value it set.          *)

Asks(call, answer) == /\ cpc = "idle"
                      /\ \/ fd /\ told' = answer
                         \/ Refused(call) /\ told' = Returned(call, -1)
                      /\ UNCHANGED <<mode, exposure, interval, cpc, asked, try_cnt>>

v4l2_g_ctrl == Asks("v4l2_g_ctrl", Returned("v4l2_g_ctrl", exposure))
v4l2_g_parm == Asks("v4l2_g_parm", Answered("v4l2_g_parm", 0, interval))

v4l2_s_ctrl(value) ==
    /\ cpc = "idle"
    /\ \/ fd /\ exposure' = value /\ told' = Returned("v4l2_s_ctrl", value)
       \/ Refused("v4l2_s_ctrl") /\ UNCHANGED exposure /\ told' = Returned("v4l2_s_ctrl", -1)
    /\ UNCHANGED <<mode, interval, cpc, asked, try_cnt>>

v4l2_s_parm(value) ==
    /\ cpc = "idle"
    /\ \/ fd /\ interval' = value /\ told' = Returned("v4l2_s_parm", 0)
       \/ Refused("v4l2_s_parm") /\ UNCHANGED interval /\ told' = Returned("v4l2_s_parm", -1)
    /\ UNCHANGED <<mode, exposure, cpc, asked, try_cnt>>

-----------------------------------------------------------------------------
(* set_exposure *)

call_set_exposure(value) == /\ cpc = "idle" /\ cpc' = "g_mode"
                            /\ asked' = value /\ try_cnt' = 0 /\ told' = Nothing
                            /\ UNCHANGED <<mode, exposure, interval>>

(* A mode that cannot be read is taken for the automatic one. *)
get_mode == /\ cpc = "g_mode" /\ try_cnt < Tries
            /\ \/ fd /\ cpc' = IF mode = "manual" THEN "g_abs" ELSE "s_mode"
               \/ Refused("g_mode") /\ cpc' = "s_mode"
            /\ UNCHANGED <<mode, exposure, interval, asked, try_cnt, told>>

(* Mutant: the loop is left whatever the device answered. *)
OneTry == /\ cpc = "s_mode" /\ cpc' = "g_abs"
          /\ \/ fd /\ mode' = "manual"
             \/ Refused("s_mode") /\ UNCHANGED mode
          /\ UNCHANGED <<exposure, interval, asked, try_cnt, told>>

(* A refusal is tried again after 200 ms. *)
set_manual == /\ cpc = "s_mode"
              /\ \/ fd /\ mode' = "manual" /\ cpc' = "g_abs" /\ UNCHANGED try_cnt
                 \/ Refused("s_mode") /\ cpc' = "g_mode" /\ try_cnt' = try_cnt + 1 /\ UNCHANGED mode
              /\ UNCHANGED <<exposure, interval, asked, told>>

(* After the last try the exposure is set all the same. *)
give_up == /\ cpc = "g_mode" /\ try_cnt = Tries
           /\ cpc' = "g_abs"
           /\ UNCHANGED <<mode, exposure, interval, asked, try_cnt, told>>

get_absolute == /\ cpc = "g_abs"
                /\ \/ fd /\ cpc' = "s_abs" /\ UNCHANGED told
                   \/ Refused("g_abs") /\ cpc' = "idle" /\ told' = Returned("set_exposure", -1)
                /\ UNCHANGED <<mode, exposure, interval, asked, try_cnt>>

set_absolute == /\ cpc = "s_abs" /\ cpc' = "idle"
                /\ \/ fd /\ exposure' = asked /\ told' = Returned("set_exposure", 0)
                   \/ Refused("s_abs") /\ UNCHANGED exposure /\ told' = Returned("set_exposure", -1)
                /\ UNCHANGED <<mode, interval, asked, try_cnt>>

ControlCalls == \/ v4l2_g_ctrl \/ v4l2_g_parm \/ (\E value \in Intervals : v4l2_s_parm(value))
                \/ get_mode \/ set_manual \/ give_up \/ get_absolute \/ set_absolute
                \/ \E value \in Exposures : v4l2_s_ctrl(value) \/ call_set_exposure(value)

(* While the exposure is being set the camera is only started and stopped. *)
Others == Next /\ ("exposure" \in may => pc' # "poll")

CameraNext == (Others /\ UNCHANGED controlVars) \/ Controls(ControlCalls)
CameraInit == Init /\ ControlInit
CameraSpec == CameraInit /\ [][CameraNext]_cameraVars /\ Fairness

-----------------------------------------------------------------------------
(* A set_exposure that returned 0 has set the exposure, and the mode in    *)
(* which it counts, unless the device refused that mode every time: after  *)
(* one refusal, or a mode that was not read, it asks again.                *)
ExposureTold == told = Returned("set_exposure", 0) =>
                    exposure = asked /\ (mode = "manual" \/ try_cnt = Tries)
=============================================================================
