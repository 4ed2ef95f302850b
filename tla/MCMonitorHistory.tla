------------------------- MODULE MCMonitorHistory --------------------------
(***************************************************************************)
(* PathMonitor with what some questions have to remember: the names each   *)
(* path has ever had, and the reads that ended after the thread was told   *)
(* to stop.                                                                *)
(***************************************************************************)
EXTENDS MCPathMonitor

VARIABLES ever, late

Present == [p \in Path |-> IF node[p] = NoInode THEN {} ELSE files[node[p]]]

HInit ==
  /\ Init
  /\ ever = Present
  /\ late = 0

HNext ==
  /\ Next
  /\ ever' = [p \in Path |-> ever[p] \cup Present'[p]]
  /\ late' = IF m_stop /\ pc.monitor = "wait" /\ pc'.monitor = "parse"
             THEN late + 1
             ELSE late

hvars == <<vars, ever, late>>

HSpec == HInit /\ [][HNext]_hvars

(* A listing never offers a name its directory has not had, in whatever    *)
(* order events come and whichever are lost or applied to the wrong entry  *)
(* (monitor.cpp:96-110).                                                   *)
NamesWereThere ==
  \A p \in Path : m_path[p] # Absent => Range(m_path[p]) \subseteq ever[p]

(* After stop() has set m_stop the thread comes back from read at most once *)
(* (monitor.cpp:82-87): the check is made before each read.                *)
OneReadAfterStop == late <= 1

=============================================================================
