--------------------------- MODULE MCAutoCompress ---------------------------
(* Two clips; one daemon that may be restarted and one scan_now request.  No   *)
(* clip's camera_id is a prefix of the other's; no pass keeps a frame of s2.   *)
(* The daemon's reads of s1 may end early; the request's do not, so that a     *)
(* full and a short copy of one clip meet.                                     *)
EXTENDS AutoCompress, TLC

CONSTANTS s1, s2, d1, r1

MCPrefixNone == {<<s1, s1>>, <<s2, s2>>}
MCEmpty      == {<<d1, s2>>, <<r1, s2>>}
MCNobodyEmpty == {}
MCShortReads  == {<<d1, s1>>}

(* "clip" and "clip_2": auto_clip is a prefix of auto_clip_2_<time>.mp4.       *)
MCPrefixClip == {<<s1, s1>>, <<s2, s2>>, <<s1, s2>>}
=============================================================================
