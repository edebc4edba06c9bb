---------------------------- MODULE MCThreadPool ----------------------------
(* A small pool: three jobs, three threads, rosters of two and of one. *)
EXTENDS ThreadPool

CONSTANTS j1, j2, j3, t1, t2, t3

SmallRosters == {{t1, t2, t3}, {t2}}
=============================================================================
