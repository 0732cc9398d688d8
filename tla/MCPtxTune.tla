----------------------------- MODULE MCPtxTune -----------------------------
EXTENDS PtxTune
LOCAL INSTANCE TLC

Tune == {"SET_CHANNEL"}
Cable == {"SET_PARAMS", "TUNE"}
C767 == <<"C", 767000, 0>>
J767 == <<"J", 767000, 0>>

Load(f, faults, uses, channels, slots, cable, outside) ==
    [family |-> f, faults |-> faults, uses |-> uses, channels |-> channels,
     slots |-> slots, cable |-> cable, outside |-> outside]

MCWorkloads ==
    { (* one receiver through all systems; a frequency the tuner cannot take *)
      Load("mlt", 1, 0 :> Tune \cup Cable \cup {"STATUS"}, {0, 63}, {0},
           {C767, J767, <<"C", 1048576, 0>>}, {}),
      (* systems by PTX_SET_SYSTEM_MODE, and a slot that is out of range *)
      Load("mlt", 1, 0 :> Tune \cup {"SET_SYSTEM_MODE"}, {12}, {0, 8}, {}, {}),
      (* a cable user, a neighbour, the card reader *)
      Load("mlt", 1, 0 :> Cable @@ 1 :> Tune, {0, 63}, {0}, {C767}, {}),
      Load("mlt", 0, 0 :> Cable @@ 1 :> Tune, {0, 63}, {0}, {C767}, {"card"}),
      (* capture, the wait for a TSMF header, and unplugging *)
      Load("mlt", 1, 0 :> Cable \cup {"STREAMING"} @@ 1 :> {"STREAMING"}, {}, {}, {C767}, {"unplug"}),
      Load("mlt", 1, 0 :> {"LNB_POWER"} @@ 1 :> {"LNB_POWER"}, {}, {}, {}, {"unplug"}),
      (* receivers of different systems, and the card reader *)
      Load("px4", 1, 0 :> Tune @@ 2 :> Tune, {0, 63}, {0}, {}, {}),
      Load("px4", 1, 0 :> Tune @@ 2 :> {}, {0}, {0, 16400}, {}, {"card"}),
      Load("px4", 1, 0 :> Tune \cup {"STREAMING", "STATUS"} @@ 2 :> {"STREAMING", "STATUS"},
           {0}, {0}, {}, {"unplug"}),
      Load("px4", 1, 0 :> {"LNB_POWER"} @@ 1 :> {"LNB_POWER"}, {}, {}, {}, {"unplug"}),
      (* one receiver that changes between ISDB-T and ISDB-S *)
      Load("isdb2056", 1, 0 :> Tune \cup {"STATUS"}, {0, 63}, {0, 16400}, {}, {}),
      Load("isdb2056", 1, 0 :> Tune \cup {"STREAMING"}, {0, 63}, {0}, {}, {"unplug"}),
      Load("s1ur", 1, 0 :> Tune \cup {"STREAMING", "STATUS"}, {12, 63}, {0}, {}, {"unplug"}),
      Load("isdbt2071", 1, 0 :> Tune \cup {"SET_SYSTEM_MODE", "TUNE", "STREAMING", "STATUS"},
           {63}, {0}, {}, {"unplug"}),
      (* every channel *)
      Load("isdb2056", 0, 0 :> Tune, 0..23, {0}, {}, {}),
      Load("isdbt2071", 0, 0 :> Tune, 0..112, {0}, {}, {}) }

(* One cable user and one neighbour, with nothing that fails.              *)
MCNeighbours == { Load("mlt", 0, 0 :> Cable @@ 1 :> {}, {}, {}, {C767}, {}) }

MCTsids == {16400}
============================================================================
