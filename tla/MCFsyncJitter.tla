---------------------------- MODULE MCFsyncJitter ----------------------------
(* Small instances of FsyncEpisodes: 2 "nanoseconds" per millisecond and a *)
(* threshold of 1 ms put one latency exactly on it and one above it but in *)
(* the same whole millisecond.                                             *)
EXTENDS FsyncEpisodes
=============================================================================
