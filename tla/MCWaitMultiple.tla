---------------------------- MODULE MCWaitMultiple ----------------------------
(* The objects and handle arrays of WaitMultiple's model checks. *)
EXTENDS WaitMultiple

CONSTANTS a, m, s, man, thr, file

MixedKind ==
  [o \in Object |->
     CASE o = a -> "auto" [] o = man -> "manual" [] o = s -> "semaphore"
       [] o = m -> "mutex" [] o = thr -> "thread" [] OTHER -> "file"]
AllLists == {<<a, s>>}
MixedLists == {<<m, a>>, <<s, a>>, <<a, man>>, <<thr, m, file>>, <<a, file>>}
=============================================================================
