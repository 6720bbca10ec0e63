------------------------- MODULE MCSCSIPassThrough -------------------------
(* Drives with one protocol, with TCG and a vendor specific one, with all. *)
EXTENDS SCSIPassThrough
MCSupported == {{0}, {0, 1, 240}, 0 .. 255}
=============================================================================
