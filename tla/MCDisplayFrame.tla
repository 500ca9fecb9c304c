---------------------------- MODULE MCDisplayFrame ----------------------------
(* DisplayFrame on two strips of two colors, for every kind of display but *)
(* the one with two DIRECT buffers and no begin_frame (DirectPush).        *)
EXTENDS DisplayFrame

Setup(mode, count, driver) == [mode |-> mode, buffer_count |-> count, driver |-> driver]

MCStrips == {1, 2}
MCScenes == {<<0, 0>>, <<0, 1>>}

DirectPush == {Setup("DIRECT", 2, "push")}
PartialPair == {Setup("PARTIAL", 2, "push")}
MCSetups == PartialPair \cup {Setup("PARTIAL", 1, "push"), Setup("DIRECT", 1, "single"),
                              Setup("PARTIAL", 2, "flip"), Setup("DIRECT", 2, "flip"),
                              Setup("DIRECT", 1, "push"), Setup("FULL", 2, "flip"),
                              Setup("FULL", 1, "push"), Setup("DIRECT", 2, "default")}

(* Between the modes that keep histories, and from these to FULL.          *)
DamageModes == {"PARTIAL", "DIRECT"}
MCModeChanges == DamageModes \X (DamageModes \cup {"FULL"})
=============================================================================
