--------------------------- MODULE StreamSettings ---------------------------
(***************************************************************************)
(* The handlers of streams.rs: what RVD encodes.  stream0 is "main",       *)
(* stream1 is "sub".                                                       *)
(***************************************************************************)
EXTENDS SettingsSteps

Streams == {"main", "sub"}
EachStream(commands(_)) == ForBoth("main", "sub", commands)

(* get-... of one stream, and config-read-section of its part of the file. *)
stream_gop_observation(stream, must)      == Look(stream, must)
stream_disk_gop(stream, must)             == Look(stream, must)
stream_codec_observation(stream, must)    == Look(stream, must)
stream_disk_codec(stream, must)           == Look(stream, must)
stream_profile_observation(stream, must)  == Look(stream, must)
stream_disk_profile(stream, must)         == Look(stream, must)
stream_encoding_observation(stream, must) == Look(stream, must)
stream_disk_encoding(stream, must)        == Look(stream, must)
stream_gop_mode_observation(stream, must) == Look(stream, must)
stream_disk_gop_mode(stream, must)        == Look(stream, must)
stream_rc_config_observation(stream, must) == Look(stream, must)
stream_disk_rc_config(stream, must)       == Look(stream, must)
stream_enable_observation(stream, must)   == Look(stream, must)
stream_disk_enabled(stream, must)         == Look(stream, must)
stream_audio_configured(stream, must)     == Look(stream, must)
stream_audio_owner(stream, must)          == Look(stream, must)
stream_disk_audio_enabled(stream, must)   == Look(stream, must)
stream_geometry_observation(stream, must) == LookAlways({stream}, must)
stream_disk_geometry(stream, must)        == LookAlways({stream}, must)

(* Live settings: each stream is set and looked at, all are saved, each is *)
(* looked for in the file and looked at once more.                         *)
LiveStreams(observation(_, _), disk(_, _), report) ==
    Handler(Streams, Live,
        EachStream(LAMBDA s : <<observation(s, Anything({"active"}))>>),
        EachStream(LAMBDA s : <<Set(s, Live, Nothing), observation(s, Wanted({"active"}))>>)
        \o <<Save>>
        \o EachStream(LAMBDA s : <<disk(s, Wanted({"disk"})), observation(s, Wanted({"active"}))>>),
        report)

gop_report      == SavedReport
encoding_report == SavedReport
codec_report    == SavedReport
profile_report  == SavedReport

NoDiskCheck ==   \* variant: after the save only RVD is looked at, not its file
    LiveStreams(stream_gop_observation, LAMBDA s, must : Look(s, Nothing), gop_report)

update_gop      == LiveStreams(stream_gop_observation, stream_disk_gop, gop_report)
update_encoding == LiveStreams(stream_encoding_observation, stream_disk_encoding, encoding_report)
update_codec    == LiveStreams(stream_codec_observation, stream_disk_codec, codec_report)
update_profile  == LiveStreams(stream_profile_observation, stream_disk_profile, profile_report)

(* The frame rate is one command, which RVD applies, reads back and saves  *)
(* itself: no separate save, readback or retry.                            *)
fps_reply(stream)  == Commit({stream}, Checked)

update_fps == Handler({"main"}, Checked, <<>>, <<fps_reply("main")>>, NoReport)

(* Settings that wait for a restart: what is active must not change, and   *)
(* each reply to the command has to tell that the restart is pending just  *)
(* when what was active differs from what is asked.                        *)
RestartStreams(observation(_, _), disk(_, _), report) ==
    Handler(Streams, Restart,
        EachStream(LAMBDA s : <<observation(s, Anything({"active"}))>>),
        EachStream(LAMBDA s : <<Set(s, Restart, Waits({"active"}))>>)
        \o <<Save>>
        \o EachStream(LAMBDA s : <<disk(s, Wanted({"disk"})), observation(s, Unchanged({"active"}))>>),
        report)

gop_mode_report  == RestartReport
rc_config_report == RestartReport

update_gop_mode  == RestartStreams(stream_gop_mode_observation, stream_disk_gop_mode, gop_mode_report)
update_rc_config == RestartStreams(stream_rc_config_observation, stream_disk_rc_config, rc_config_report)

(* Only the sub stream can be switched off.                                *)
PendingByMemory ==   \* variant: what is active is compared with RVD's memory
    Report(<<Live>>, Live, TRUE)

enabled_report == Report(<<{"active", "config"}, {"disk"}>>, {"active", "disk"}, TRUE)
update_enabled ==
    Handler({"sub"}, Restart,
        <<stream_enable_observation("sub", Anything(Live)), stream_disk_enabled("sub", Anything({"disk"}))>>,
        <<Set("sub", Restart, [config |-> "wanted", active |-> "unchanged"]), Save,
          stream_enable_observation("sub", [config |-> "wanted", active |-> "unchanged"]),
          stream_disk_enabled("sub", Wanted({"disk"}))>>,
        enabled_report)

(* The sound of a stream: the policy is RVD's, its owners are RSD and the  *)
(* stream's recorder, which learn of it when they start.                   *)
stream_audio_observation(stream, config, active) ==
    <<stream_audio_configured(stream, [config |-> config]),
      stream_audio_owner(stream, [active |-> active])>>
audio_inclusion_report ==
    Report(<<{"config"}, {"active"}, {"disk"}>>, {"active", "disk"}, TRUE)
update_audio_inclusion ==
    [Handler(Streams, Restart,
        EachStream(LAMBDA s : stream_audio_observation(s, "any", "any")),
        EachStream(LAMBDA s : <<Set(s, Restart, Wanted({"config"}))>>)
        \o <<Save>>
        \o EachStream(LAMBDA s : <<stream_disk_audio_enabled(s, Wanted({"disk"}))>>
                                 \o stream_audio_observation(s, "wanted", "unchanged")),
        audio_inclusion_report) EXCEPT !.owners = "two"]

(* The sizes of both streams go together, because the sub stream has to be *)
(* a third of the main one at most: the size that is not asked for is the  *)
(* saved one.  Value 1 of "main" is the small size, of "sub" the large; of *)
(* "roi" it is a motion region that only the large one holds.  RVD moves a *)
(* region that is the whole frame of the sub stream with it, by what it    *)
(* has in memory; the handler expects it to, by what is in the file.       *)
geometry_report == RestartReport
stream_disk_motion_roi(must) == LookAlways({"roi"}, must)

update_geometry ==
    [Handler(Streams \union {"roi"}, Restart,
        EachStream(LAMBDA s : <<stream_geometry_observation(s, Anything({"active"}))>>)
        \o EachStream(LAMBDA s : <<stream_disk_geometry(s, Anything({"disk"}))>>)
        \o <<stream_disk_motion_roi(Anything({"disk"})), Merge("disk")>>,
        <<SetAll(Streams, Restart, Waits({"active"})), Save,
          stream_disk_motion_roi(Wanted({"disk"}))>>
        \o EachStream(LAMBDA s : <<stream_disk_geometry(s, Wanted({"disk"})),
                                   stream_geometry_observation(s, Unchanged({"active"}))>>),
        geometry_report) EXCEPT
     !.asked = Streams, !.follows = {<<"roi", "sub">>},
     !.excludes = {[main |-> 1, sub |-> 1], [sub |-> 0, roi |-> 1]}]

(* The buffers can only be read: what RVD has against its file.            *)
stream_buffer_report == Report(<<Live, {"disk"}>>, Places, FALSE)
stream_buffers == Handler({"main"}, Restart, <<>>, <<>>, stream_buffer_report)

StreamHandlers ==
    [gop |-> update_gop, encoding |-> update_encoding, codec |-> update_codec,
     profile |-> update_profile, fps |-> update_fps, gop_mode |-> update_gop_mode,
     rc_config |-> update_rc_config, enabled |-> update_enabled,
     audio_inclusion |-> update_audio_inclusion, geometry |-> update_geometry,
     buffers |-> stream_buffers]
=============================================================================
