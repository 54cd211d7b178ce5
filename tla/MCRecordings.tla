----------------------------- MODULE MCRecordings -----------------------------
(* Model values for Recordings: pages of one and of three rows; a device without a
   cap, with one as wide as the first page, or with one between the two. *)
EXTENDS Recordings
MCLimits == <<1, 3>>
MCCaps == {None, 1, 2}
MCFrames == <<"video", "video", "audio">>
===============================================================================
