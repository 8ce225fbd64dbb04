---- MODULE MCTaskFuture ----
(* An instance of TaskFuture: two runs and three getters on three threads. *)
EXTENDS TaskFuture, TLC

CONSTANTS r1, r2, g1, g2, g3, t1, t2, t3

\* Each getter may be on a thread that also runs the task, where it may keep
\* the run out, or on one that does not.
HomeApart ==
  r1 :> {t1} @@ g1 :> {t1, t3} @@ r2 :> {t2, t3} @@ g2 :> {t2, t3} @@ g3 :> {t2}

====
