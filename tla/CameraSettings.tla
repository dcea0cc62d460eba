--------------------------- MODULE CameraSettings ---------------------------
(***************************************************************************)
(* The handlers of the other daemons' settings: audio.rs (RAD), access.rs  *)
(* (RSD), osd.rs and osd_metadata.rs (ROD), motion.rs, motion_roi.rs,      *)
(* privacy.rs and imaging.rs (RVD), daynight.rs (RIC), recorder_config.rs  *)
(* (RMR), and the timezone, which is a file that several of them load.     *)
(***************************************************************************)
EXTENDS StreamSettings

(* A setting that is looked at, set, looked at, saved and looked for in    *)
(* the file; `last` is what is looked at once more.                        *)
LiveSetting(part, look(_, _), disk(_, _), last, report) ==
    Handler({part}, Live,
        <<look(part, Anything({"active"}))>>,
        <<Set(part, Live, Nothing), look(part, Wanted({"active"})), Save,
          disk(part, Wanted({"disk"}))>> \o last,
        report)

-----------------------------------------------------------------------------
(* RAD: levels, codecs and processing.  The microphone that is switched    *)
(* live is not saved; that must leave the mute alone.                      *)

audio_levels(part, must)      == Look(part, must)
input_observation(must)       == <<Look("codec", must)>>
processing_observation(must)  == <<Look("processing", must)>>
audio_settings_observation(must) == input_observation(must) \o processing_observation(must)
audio_disk_level(part, must)  == Look(part, must)
audio_disk_section(must)      == <<Look("codec", must), Look("processing", must)>>
live_audio_observation(must)  == LookAlways({"muted"}, must)

update_audio == LiveSetting("level", audio_levels, audio_disk_level, <<>>, NoReport)

(* Levels, the codec and the processing are commands of their own; what is *)
(* not asked for of the processing is sent as observed.                    *)
audio_commands == <<Set("codec", Live, Nothing), Set("processing", Live, Nothing)>>
update_audio_settings ==
    Handler({"codec", "processing"}, Live,
        audio_settings_observation(Anything({"active"})),
        audio_commands \o audio_settings_observation(Wanted({"active"}))
        \o <<Save>> \o audio_disk_section(Wanted({"disk"})),
        NoReport)

set_live_audio ==
    [Handler({"enabled", "muted"}, Volatile,
        <<live_audio_observation(Anything({"active"})), Look("enabled", Anything({"active"}))>>,
        <<Set("enabled", Volatile, Nothing),
          live_audio_observation(Unchanged({"active"})), Look("enabled", Wanted({"active"}))>>,
        NoReport) EXCEPT !.asked = {"enabled"}]

-----------------------------------------------------------------------------
(* RSD: the paths of the two streams have to differ.  The handler compares *)
(* what is asked with what was observed, and RSD compares what it has.     *)

access_observation(part, must)  == LookAlways({part}, must)
saved_access_paths(part, must)  == Look(part, must)
access_config == SavedReport
update_access ==
    [Handler({"main", "sub"}, Live,
        <<access_observation("main", Anything({"active"})), access_observation("sub", Anything({"active"})),
          Compare("active")>>,
        <<SetAll({"main", "sub"}, Live, Nothing),
          Look("main", Wanted({"active"})), Look("sub", Wanted({"active"})), Save,
          saved_access_paths("main", Wanted({"disk"})),
          saved_access_paths("sub", Wanted({"disk"}))>>,
        access_config) EXCEPT
     !.excludes = {[main |-> value, sub |-> value] : value \in {0, 1}}, !.guarded = TRUE]

-----------------------------------------------------------------------------
(* ROD: the text of the camera.  The settings go out under a fresh         *)
(* receipt, which ROD and RVD have to show; the named metadata is one      *)
(* command that ROD checks, saves and publishes itself.                    *)

osd_observation(part, must) == Look(part, must)
osd_apply_state(part, must) == Look(part, must)
osd_config_readback == SavedReport
update_osd_config ==
    Handler({"text"}, Live,
        <<osd_observation("text", Anything({"config"}))>>,
        <<Set("text", Live, Nothing), osd_observation("text", Wanted({"config"})),
          osd_apply_state("text", Wanted({"active"})), Save,
          Look("text", Wanted({"disk"})), osd_observation("text", Wanted({"config"}))>>,
        osd_config_readback)

update_osd_metadata_config ==
    Handler({"metadata"}, Checked, <<>>, <<Commit({"metadata"}, Checked)>>, NoReport)

-----------------------------------------------------------------------------
(* RVD's detector.  A request always says whether it is on, and may set    *)
(* one more field; a region is set first and the detector switched on      *)
(* again after it.                                                         *)

motion_config_observation(part, must) == Look(part, must)
motion_disk_enabled(must)             == Look("enabled", must)
motion_disk_sensitivity(part, must)   == Look(part, must)
motion_disk_skip_frame_count(part, must) == Look(part, must)
motion_disk_lifecycle(part, must)     == Look(part, must)
motion_disk_actions(part, must)       == Look(part, must)
motion_action_config(part, must)      == Look(part, must)
motion_disk_roi(part, must)           == Look(part, must)
apply_motion_roi(part)                == Set(part, Live, Nothing)
motion_config == SavedReport

(* What is always sent and looked at, around what one field adds.          *)
DetectorBefore == <<motion_config_observation("enabled", Anything({"active"}))>>
DetectorSeen   == <<motion_config_observation("enabled", Wanted({"active"}))>>
DetectorSaved  == <<Save, motion_disk_enabled(Wanted({"disk"}))>>
DetectorSwitch == <<Set("enabled", Live, Nothing)>>
Detector(field, before, sets, looks, in_file) ==
    [Handler({"enabled", field}, Live, DetectorBefore \o before,
        sets \o DetectorSeen \o looks \o DetectorSaved \o in_file,
        motion_config) EXCEPT !.required = {"enabled"}]

motion_sensitivity(must)     == <<motion_config_observation("sensitivity", must)>>
motion_skip_frame_count(must) == <<motion_config_observation("skip", must)>>
motion_lifecycle_config(must) == <<motion_config_observation("lifecycle", must)>>
motion_roi_observation(must) == <<motion_config_observation("region", must)>>
set_motion_sensitivity ==
    Detector("sensitivity", motion_sensitivity(Anything({"active"})),
        DetectorSwitch \o <<Set("sensitivity", Live, Nothing)>>,
        motion_sensitivity(Wanted({"active"})),
        <<motion_disk_sensitivity("sensitivity", Wanted({"disk"}))>>)
set_motion_skip_frames ==
    Detector("skip", motion_skip_frame_count(Anything({"active"})),
        DetectorSwitch \o <<Set("skip", Live, Nothing)>>,
        motion_skip_frame_count(Wanted({"active"})),
        <<motion_disk_skip_frame_count("skip", Wanted({"disk"}))>>)
set_motion_lifecycle ==
    Detector("lifecycle", <<>>,
        DetectorSwitch \o <<Set("lifecycle", Live, Nothing)>>
        \o motion_lifecycle_config(Wanted({"active"})), <<>>,
        <<motion_disk_lifecycle("lifecycle", Wanted({"disk"}))>>)
set_motion_actions ==
    Detector("actions", <<motion_action_config("actions", Anything({"active"}))>>,
        DetectorSwitch \o <<Set("actions", Live, Nothing),
                            motion_action_config("actions", Wanted({"active"}))>>, <<>>,
        <<motion_disk_actions("actions", Wanted({"disk"})),
          motion_action_config("actions", Wanted({"active"}))>>)
set_motion_roi ==
    Detector("region", motion_roi_observation(Anything({"active"})),
        <<apply_motion_roi("region")>> \o DetectorSwitch,
        motion_roi_observation(Wanted({"active"})),
        <<motion_disk_roi("region", Wanted({"disk"}))>> \o DetectorSeen
        \o motion_roi_observation(Wanted({"active"})))

-----------------------------------------------------------------------------
(* RVD's privacy: every media path that took part has to take part still.  *)

privacy_config_observation(must, participants) ==
    <<Look("enabled", must), LookAlways({"participants"}, participants)>>
privacy_disk_enabled(must) == Look("enabled", must)
privacy_config == SavedReport
update_privacy_config ==
    [Handler({"enabled", "participants"}, Live,
        privacy_config_observation(Anything({"active"}), Anything({"active"})),
        <<Set("enabled", Live, Nothing)>>
        \o privacy_config_observation(Wanted({"active"}), Unchanged({"active"}))
        \o <<Save, privacy_disk_enabled(Wanted({"disk"}))>>
        \o privacy_config_observation(Wanted({"active"}), Unchanged({"active"})),
        privacy_config) EXCEPT !.asked = {"enabled"}]

-----------------------------------------------------------------------------
(* RVD's image.  Backlight compensation and highlight suppression (tone)   *)
(* must not both be on: who changes one sends the other as observed.       *)

imaging_state(part, must)            == LookAlways({part}, must)
native_white_balance(part, must)     == Look(part, must)
imaging_disk_antiflicker(part, must) == Look(part, must)
disk_white_balance(part, must)       == Look(part, must)
imaging_fields(must) == <<imaging_state("backlight", must), imaging_state("tone", must)>>
imaging_section(must) == <<LookAlways({"backlight", "tone"}, must)>>
imaging == SavedReport

ImagingWith(merge) ==
    [Handler({"backlight", "tone"}, Live,
        imaging_fields(Anything({"active"})) \o merge,
        <<SetAll({"backlight", "tone"}, Live, Nothing)>> \o imaging_fields(Wanted({"active"}))
        \o <<Save>> \o imaging_section(Wanted({"disk"})),
        NoReport) EXCEPT !.excludes = {[backlight |-> 1, tone |-> 1]}]

SendsTheAskedOnly ==   \* variant: the other of the two is not regarded
    ImagingWith(<<>>)

update_imaging == ImagingWith(<<Merge("active")>>)

(* White balance and anti-flicker are looked at once more, against the     *)
(* file.                                                                   *)
update_white_balance ==
    LiveSetting("white_balance", native_white_balance, disk_white_balance,
                <<native_white_balance("white_balance", Wanted(Live))>>, imaging)
update_anti_flicker ==
    LiveSetting("anti_flicker", imaging_state, imaging_disk_antiflicker,
                <<imaging_state("anti_flicker", Wanted(Live))>>, imaging)

-----------------------------------------------------------------------------
(* RIC: a request always has a mode, and may have any of ten groups; here  *)
(* it has one.  The thresholds are a command of their own; the others go   *)
(* with the mode in one; the mode of the next start is set alone.  Some    *)
(* are looked at once more after the save.                                 *)

daynight_observation(part, must)  == Look(part, must)
daynight_disk_section(part, must) == Look(part, must)

(* What one group shows, and what of it is in the file.                    *)
threshold_observation(must)         == daynight_observation("thresholds", must)
timing_observation(must)            == daynight_observation("timing", must)
schedule_observation(must)          == daynight_observation("schedule", must)
sun_observation(must)               == daynight_observation("sun", must)
ir850_at_night_observation(must)    == daynight_observation("ir850", must)
automation_observation(must)        == daynight_observation("automation", must)
automatic_outputs_observation(must) == daynight_observation("outputs", must)
confirmation_observation(must)      == daynight_observation("confirmation", must)
loglevel_observation(must)          == daynight_observation("loglevel", must)
saved_thresholds(must)         == daynight_disk_section("thresholds", must)
saved_timing_for_request(must) == daynight_disk_section("timing", must)
saved_schedule(must)           == daynight_disk_section("schedule", must)
saved_sun(must)                == daynight_disk_section("sun", must)
saved_ir850_at_night(must)     == daynight_disk_section("ir850", must)
saved_automation(must)         == daynight_disk_section("automation", must)
saved_outputs(must)            == daynight_disk_section("outputs", must)
saved_confirmation_count(must) == daynight_disk_section("confirmation", must)
saved_loglevel(must)           == daynight_disk_section("loglevel", must)

(* What the handler does for every group, around its commands.             *)
ModeBefore == <<daynight_observation("mode", Anything({"active"}))>>
ModeSeen   == <<daynight_observation("mode", Wanted({"active"}))>>
ModeSaved  == <<Save, daynight_disk_section("mode", Wanted({"disk"}))>>
daynight_request(group, before, after, report_of) ==
    [Handler({"mode", group}, Live, before, after, report_of) EXCEPT !.required = {"mode"}]
DayNight(group, observation(_), on_disk(_), sets, last, report_of) ==
    daynight_request(group,
        ModeBefore \o <<observation(Anything({"active"}))>>,
        sets \o ModeSeen \o <<observation(Wanted({"active"}))>>
        \o ModeSaved \o <<on_disk(Wanted({"disk"}))>> \o last,
        report_of)
OnceMore(observation(_)) == ModeSeen \o <<observation(Wanted({"active"}))>>
set_daynight_settings(group) == <<SetAll({"mode", group}, Live, Nothing)>>
set_daynight_thresholds == <<Set("thresholds", Live, Nothing), Set("mode", Live, Nothing)>>

thresholds_report == SavedReport
timing_report     == SavedReport
schedule_report   == SavedReport
sun_report        == SavedReport
automation_report == SavedReport
outputs_report    == SavedReport

daynight_thresholds ==
    DayNight("thresholds", threshold_observation, saved_thresholds,
             set_daynight_thresholds, <<>>, thresholds_report)
daynight_timing ==
    DayNight("timing", timing_observation, saved_timing_for_request,
             set_daynight_settings("timing"), <<>>, timing_report)
daynight_schedule ==
    DayNight("schedule", schedule_observation, saved_schedule,
             set_daynight_settings("schedule"), <<>>, schedule_report)
daynight_sun ==
    DayNight("sun", sun_observation, saved_sun,
             set_daynight_settings("sun"), OnceMore(sun_observation), sun_report)
daynight_ir850 ==
    DayNight("ir850", ir850_at_night_observation, saved_ir850_at_night,
             set_daynight_settings("ir850"), OnceMore(ir850_at_night_observation), SavedReport)
daynight_automation ==
    DayNight("automation", automation_observation, saved_automation,
             set_daynight_settings("automation"), OnceMore(automation_observation),
             automation_report)
daynight_outputs ==
    DayNight("outputs", automatic_outputs_observation, saved_outputs,
             set_daynight_settings("outputs"), OnceMore(automatic_outputs_observation),
             outputs_report)
daynight_confirmation ==
    DayNight("confirmation", confirmation_observation, saved_confirmation_count,
             set_daynight_settings("confirmation"), OnceMore(confirmation_observation),
             SavedReport)
daynight_loglevel ==
    DayNight("loglevel", loglevel_observation, saved_loglevel,
             set_daynight_settings("loglevel"), OnceMore(loglevel_observation), SavedReport)

(* Alone, with the mode the camera has, the mode of the next start leaves  *)
(* the camera as it is.                                                    *)
startup_observation(configured, boot_active) ==
    <<daynight_observation("initial", [config |-> configured, active |-> boot_active])>>
saved_initial_mode(must) == daynight_disk_section("initial", must)
startup_report == Report(<<Live, {"disk"}>>, {"config", "disk"}, FALSE)
set_daynight_initial_mode ==
    [Handler({"initial"}, Restart,
        startup_observation("any", "any"),
        <<Set("initial", Restart, Nothing)>> \o startup_observation("wanted", "unchanged")
        \o <<Save, saved_initial_mode(Wanted({"disk"}))>>
        \o startup_observation("wanted", "unchanged"),
        startup_report) EXCEPT !.tellsPending = FALSE]

-----------------------------------------------------------------------------
(* RMR: the recorder's policy is merged with what is asked, checked as a   *)
(* whole and sent as a whole.                                              *)

recorder_observation(part, must) == LookAlways({part}, must)
recorder_disk(part, must)        == LookAlways({part}, must)
recorder_config == SavedReport
update_recorder_config ==
    LET both(look(_, _), must) == <<look("limit", must), look("duration", must)>>
    IN  [Handler({"limit", "duration"}, Live,
            both(recorder_observation, Anything({"active"})) \o <<Merge("active")>>,
            <<SetAll({"limit", "duration"}, Live, Nothing)>>
            \o both(recorder_observation, Wanted({"active"}))
            \o <<Save>> \o both(recorder_disk, Wanted({"disk"}))
            \o both(recorder_observation, Wanted({"active"})),
            recorder_config) EXCEPT !.excludes = {[limit |-> 1, duration |-> 1]}]

-----------------------------------------------------------------------------
(* The timezone: the file is written, then each daemon is told to load it. *)
(* A process has one: what it has in memory is what it does.               *)

timezone_status(daemon, must) == Look(daemon, must)
timezone_reload(daemon)       == Set(daemon, Live, Wanted(Live))
timezone_matches == <<timezone_status("rvd", Wanted(Live)),
                      timezone_status("rod", Wanted(Live))>>
time_config == Report(<<{"disk"}, {"active"}, {"disk"}>>, {"active", "disk"}, FALSE)
update_time_config ==
    [Handler({"rvd", "rod"}, Live,
        <<timezone_status("rvd", Anything({"active"})), timezone_status("rod", Anything({"active"}))>>,
        <<Commit({"rvd", "rod"}, File), timezone_reload("rvd"), timezone_reload("rod")>>
        \o timezone_matches \o <<LookAlways({"rvd", "rod"}, Wanted({"disk"}))>>,
        time_config) EXCEPT
     !.required = {"rvd", "rod"}, !.alike = TRUE, !.owners = "each"]

-----------------------------------------------------------------------------
(* What is switched live and not saved.  The outputs of RIC answer with a  *)
(* partial apply, the others with a plain error.                           *)

ir_output_state(must) == Look("output", must)
set_ir_output ==
    Handler({"output"}, Volatile, <<ir_output_state(Anything({"active"}))>>,
        <<Set("output", Volatile, Wanted({"active"})), ir_output_state(Wanted({"active"}))>>,
        NoReport)

PlainSwitch(before, look(_)) ==
    [Handler({"switch"}, Volatile, before,
        <<Set("switch", Volatile, Nothing), look(Wanted({"active"}))>>,
        NoReport) EXCEPT !.plain = TRUE]
color_state(must)   == Look("switch", must)
privacy_state(must) == Look("switch", must)
ric_mode(must)      == Look("switch", must)
motion_status(must) == Look("switch", must)
set_color         == PlainSwitch(<<>>, color_state)
set_privacy       == PlainSwitch(<<>>, privacy_state)
set_daynight_mode == PlainSwitch(<<>>, ric_mode)
live_motion       == PlainSwitch(<<motion_status(Anything({"active"}))>>, motion_status)

CameraHandlers ==
    [audio |-> update_audio, audio_settings |-> update_audio_settings,
     live_audio |-> set_live_audio, access |-> update_access, osd |-> update_osd_config,
     osd_metadata |-> update_osd_metadata_config, motion_sensitivity |-> set_motion_sensitivity,
     motion_skip |-> set_motion_skip_frames, motion_lifecycle |-> set_motion_lifecycle,
     motion_actions |-> set_motion_actions, motion_roi |-> set_motion_roi,
     privacy |-> update_privacy_config, imaging |-> update_imaging,
     white_balance |-> update_white_balance, anti_flicker |-> update_anti_flicker,
     thresholds |-> daynight_thresholds, timing |-> daynight_timing,
     schedule |-> daynight_schedule, sun |-> daynight_sun, ir850 |-> daynight_ir850,
     automation |-> daynight_automation, outputs |-> daynight_outputs,
     confirmation |-> daynight_confirmation, loglevel |-> daynight_loglevel,
     initial_mode |-> set_daynight_initial_mode, recorder |-> update_recorder_config,
     timezone |-> update_time_config, ir_output |-> set_ir_output, color |-> set_color,
     live_privacy |-> set_privacy, daynight_mode |-> set_daynight_mode,
     live_motion |-> live_motion]

Handlers ==
    [name \in DOMAIN StreamHandlers \union DOMAIN CameraHandlers |->
        IF name \in DOMAIN StreamHandlers THEN StreamHandlers[name] ELSE CameraHandlers[name]]
=============================================================================
