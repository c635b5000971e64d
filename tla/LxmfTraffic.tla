----------------------------- MODULE LxmfTraffic ----------------------------
(* The command inbox together with the bytes its messages are made of.       *)
EXTENDS LxmfInbox, LxmfWireCases

\* Whatever is let in is what its sender packed: the writer's numbers and
\* texts read back, and a message has the sender, the time and the command that
\* it was sent with (Msgpack.cpp:47-180, Lxmf.cpp:54-123, LxmfCommand.cpp:13-58).
QueuedAsSent ==
    (\E m \in Msgs : fate[m] = "queued") => ReadsBack /\ PackedIsUnpacked
=============================================================================
