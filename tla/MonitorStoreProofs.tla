------------------------- MODULE MonitorStoreProofs -------------------------
(***************************************************************************)
(* Proofs about MonitorStore, for every set of channels and every bound.   *)
(*                                                                         *)
(* Base is inductive for any number of channels; it gives type correctness *)
(* and that monitor files never roll back.  With one channel, Base and     *)
(* Kept together are inductive, and give Durable, ManagerNeverStale and    *)
(* ClosedStaysClosed.                                                      *)
(***************************************************************************)
EXTENDS MonitorStore, TLAPS

\* Where the process can be while a loop or a persister call is in progress.
Control ==
    /\ pc \in {"down", "halted", "manager", "sync"} => stage = "idle" /\ todo = {}
    /\ pc \in {"down", "halted", "manager"} => \A c \in Channels : chan[c] = "none"
    /\ stage \in {"update", "closing"} =>
          pc = "up" /\ todo = {} /\ chan[cur] \in {"open", "failing"}
    /\ \A c \in Channels : chan[c] = "opening" =>
          c = cur /\ todo = {} /\ pc = "up" /\ stage \in {"write", "clear"}

\* Monitors that are in memory where the code goes on to use them.
Present ==
    /\ stage # "idle" => mem[cur] # Absent
    /\ \A c \in todo : mem[c] # Absent
    /\ \A c \in Channels :
          chan[c] \in {"opening", "open", "failing"} => mem[c] # Absent

\* A monitor in memory is never behind its file.
FileBehind ==
    /\ \A c \in Channels : mem[c] # Absent => monFile[c] <= mem[c]
    /\ pc = "manager" => \A c \in Channels : monFile[c] = Absent <=> mem[c] = Absent
    /\ pc \in {"sync", "watch", "up"} => \A c \in Channels :
          chan[c] = "none" => mem[c] = Absent /\ monFile[c] = Absent
    /\ \A c \in Channels : chan[c] = "opening" /\ stage = "write" => monFile[c] = Absent

Base == TypeOK /\ Control /\ Present /\ FileBehind

\* The files of a channel end where its persistence last returned ...
Exact ==
    \A c \in Channels : returned[c] # Absent =>
        /\ monFile[c] <= returned[c]
        /\ \A u \in updates : u[1] = c => u[2] <= returned[c]

\* ... and so does its monitor, but for an update that is being written.
Level ==
    /\ \A c \in Channels : mem[c] # Absent => returned[c] <= mem[c]
    /\ \A c \in Channels : returned[c] # Absent /\ mem[c] # Absent =>
          mem[c] = IF stage \in {"update", "closing"} /\ c = cur
                   THEN returned[c] + 1 ELSE returned[c]
    /\ \A c \in Channels : chan[c] \in {"open", "failing"} => returned[c] # Absent
    /\ stage = "clear" => monFile[cur] = mem[cur]

\* The manager file is never ahead, and is behind for a closed channel.
ManagerBehind ==
    /\ ~ mgrExists => \A c \in Channels : mgrFile[c] = Absent
    /\ \A c \in Channels : mgrFile[c] <= returned[c]
    /\ \A c \in ended : mgrFile[c] # Absent => mgrFile[c] < returned[c]
    /\ \A c \in ended : monFile[c] # Absent

Kept == Durable /\ Exact /\ Level /\ ManagerBehind /\ ClosedStaysClosed

IInv == Base /\ Kept

-----------------------------------------------------------------------------
(* Any number of channels.                                                 *)

LEMMA BaseInit == Init => Base
  BY MaxAssumption, Zenon DEF Init, Base, TypeOK, Control, Present, FileBehind, Ids, MaybeId, Absent

LEMMA BaseStep == Base /\ [Next]_vars => Base'
  <1> SUFFICES ASSUME Base, [Next]_vars PROVE Base'
    OBVIOUS
  <1> USE MaxAssumption DEF Base, TypeOK, Control, Present, FileBehind, Ids, MaybeId, Absent,
          disk, inmem, hist, ctl
  <1>1. CASE ReadMonitors
    BY <1>1 DEF ReadMonitors, Replayed
  <1>2. CASE ReplayFails
    BY <1>2 DEF ReplayFails
  <1>3. CASE ReadManager
    BY <1>3 DEF ReadManager
  <1>5. CASE FreshManager
    BY <1>5 DEF FreshManager
  <1>6. CASE SyncChain
    BY <1>6 DEF SyncChain, Watched
  <1>7. CASE WatchDone
    BY <1>7 DEF WatchDone
  <1>8. CASE WriteUpdate
    BY <1>8 DEF WriteUpdate
  <1>9. CASE WriteMonitor
    BY <1>9 DEF WriteMonitor
  <1>10. CASE RemoveUpdate
    BY <1>10 DEF RemoveUpdate
  <1>11. CASE ClearDone
    BY <1>11 DEF ClearDone
  <1>12. CASE PersistManager
    BY <1>12 DEF PersistManager
  <1>13. CASE Crash
    BY <1>13 DEF Crash
  <1>14. CASE BlockConnected
    BY <1>14 DEF BlockConnected, Watched, Idle
  <1>15. CASE OpenFails
    BY <1>15 DEF OpenFails
  <1>16. ASSUME NEW c \in Channels, WatchNext(c) PROVE Base'
    BY <1>16 DEF WatchNext
  <1>17. ASSUME NEW c \in Channels, BlockNext(c) PROVE Base'
    BY <1>17 DEF BlockNext
  <1>18. ASSUME NEW c \in Channels, OpenChannel(c) PROVE Base'
    BY <1>18 DEF OpenChannel, Idle
  <1>19. ASSUME NEW c \in Channels, NEW s \in {"update", "closing"}, UpdateChannel(c, s) PROVE Base'
    BY <1>19 DEF UpdateChannel, Idle
  <1>20. CASE UNCHANGED vars
    BY <1>20 DEF vars
  <1>21. QED
    BY <1>1, <1>2, <1>3, <1>5, <1>6, <1>7, <1>8, <1>9, <1>10, <1>11, <1>12, <1>13, <1>14, <1>15, <1>16, <1>17, <1>18, <1>19, <1>20, Zenon DEF Next, Startup, Persisting
\* Every variable keeps its type, however many channels share updates/: in
\* particular an update file is only ever written for a monitor in memory.
THEOREM TypeCorrect == Spec => []TypeOK
  <1>1. Base => TypeOK
    BY DEF Base
  <1> QED
    BY <1>1, BaseInit, BaseStep, PTL DEF Spec

\* However many channels share updates/, no write of a monitor file (a new
\* channel's, a block's, or Step 10's after a crash) replaces a newer monitor.
THEOREM NeverRollsBack == Spec => MonitorFileNeverRollsBack
  <1>1. Base /\ [Next]_vars => [\A c \in Channels : monFile'[c] >= monFile[c]]_vars
    <2> SUFFICES ASSUME Base, Next, NEW c \in Channels PROVE monFile'[c] >= monFile[c]
      BY DEF vars
    <2>1. CASE WriteMonitor
      BY <2>1 DEF WriteMonitor, Base, TypeOK, Present, FileBehind, MaybeId, Ids, Absent
    <2>2. CASE ~ WriteMonitor
      <3>1. UNCHANGED monFile
        BY <2>2 DEF Next, Startup, Persisting, ReadMonitors, ReplayFails, ReadManager,
           FreshManager, SyncChain, WatchDone, WatchNext, WriteUpdate,
           RemoveUpdate, ClearDone, BlockNext, PersistManager, Crash, BlockConnected,
           OpenFails, OpenChannel, UpdateChannel, disk
      <3> QED
        BY <3>1, MaxAssumption DEF Base, TypeOK, MaybeId, Ids, Absent
    <2> QED
      BY <2>1, <2>2
  <1> QED
    BY <1>1, BaseInit, BaseStep, PTL DEF Spec, MonitorFileNeverRollsBack

-----------------------------------------------------------------------------
(* One channel.                                                            *)

OneChannel == \A c, d \in Channels : c = d

LEMMA KeptInit == Init => Kept
  BY DEF Init, Kept, Durable, Exact, Level, ManagerBehind, ClosedStaysClosed, Absent

LEMMA KeptStep == ASSUME OneChannel PROVE IInv /\ [Next]_vars => Kept'
  <1> SUFFICES ASSUME IInv, [Next]_vars PROVE Kept'
    OBVIOUS
  <1> USE MaxAssumption DEF IInv, Base, TypeOK, Control, Present, FileBehind,
          Kept, Durable, Exact, Level, ManagerBehind, ClosedStaysClosed,
          Ids, MaybeId, Absent, disk, inmem, hist, ctl
  <1>1. CASE ReadMonitors
    <2>1. PICK f \in [Channels -> MaybeId] : Replayed(f) /\ mem' = f
      BY <1>1 DEF ReadMonitors
    <2>2. ASSUME NEW c \in Channels, f[c] # -1, returned[c] # -1 PROVE f[c] = returned[c]
      <3>1. /\ monFile[c] # -1 /\ f[c] >= monFile[c]
            /\ UpdateIds(c) = (monFile[c] + 1)..f[c]
        BY <2>1, <2>2 DEF Replayed, ReplaysTo
      <3>2. CASE f[c] < returned[c]
        <4>1. <<c, returned[c]>> \in UpdatesFor(c)
          BY <2>1, <2>2, <3>1, <3>2 DEF UpdatesFor
        <4>2. returned[c] \in UpdateIds(c)
          BY <4>1 DEF UpdateIds
        <4> QED
          BY <2>1, <2>2, <3>1, <3>2, <4>2
      <3>3. CASE f[c] > returned[c]
        <4>1. f[c] \in UpdateIds(c)
          BY <2>1, <2>2, <3>1, <3>3
        <4>2. PICK u \in updates : u[2] = f[c]
          BY <4>1 DEF UpdateIds, UpdatesFor
        <4>3. u[1] = c
          BY <4>2 DEF OneChannel
        <4> QED
          BY <2>1, <2>2, <3>3, <4>2, <4>3
      <3> QED
        BY <2>1, <2>2, <3>2, <3>3
    <2>3. UNCHANGED <<disk, chan, hist, stage, cur, todo>> /\ pc = "down" /\ pc' = "manager"
      BY <1>1 DEF ReadMonitors
    <2> QED
      BY <2>1, <2>2, <2>3
  <1>2. CASE ReplayFails
    BY <1>2 DEF ReplayFails, OneChannel
  <1>3. CASE ReadManager
    BY <1>3 DEF ReadManager, StaleMonitor, OneChannel
  <1>5. CASE FreshManager
    BY <1>5 DEF FreshManager, OneChannel
  <1>6. CASE SyncChain
    BY <1>6 DEF SyncChain, Watched, OneChannel
  <1>7. CASE WatchDone
    BY <1>7 DEF WatchDone, OneChannel
  <1>8. CASE WriteUpdate
    BY <1>8 DEF WriteUpdate, OneChannel
  <1>9. CASE WriteMonitor
    BY <1>9 DEF WriteMonitor, OneChannel
  <1>10. CASE RemoveUpdate
    BY <1>10 DEF RemoveUpdate, OneChannel
  <1>11. CASE ClearDone
    BY <1>11 DEF ClearDone, OneChannel
  <1>12. CASE PersistManager
    BY <1>12 DEF PersistManager, OneChannel
  <1>13. CASE Crash
    BY <1>13 DEF Crash, OneChannel
  <1>14. CASE BlockConnected
    BY <1>14 DEF BlockConnected, Watched, Idle, OneChannel
  <1>15. CASE OpenFails
    BY <1>15 DEF OpenFails, OneChannel
  <1>16. ASSUME NEW c \in Channels, WatchNext(c) PROVE Kept'
    BY <1>16 DEF WatchNext, OneChannel
  <1>17. ASSUME NEW c \in Channels, BlockNext(c) PROVE Kept'
    BY <1>17 DEF BlockNext, OneChannel
  <1>18. ASSUME NEW c \in Channels, OpenChannel(c) PROVE Kept'
    BY <1>18 DEF OpenChannel, Idle, OneChannel
  <1>19. ASSUME NEW c \in Channels, NEW s \in {"update", "closing"}, UpdateChannel(c, s) PROVE Kept'
    BY <1>19 DEF UpdateChannel, Idle, OneChannel
  <1>20. CASE UNCHANGED vars
    BY <1>20 DEF vars
  <1>21. QED
    BY <1>1, <1>2, <1>3, <1>5, <1>6, <1>7, <1>8, <1>9, <1>10, <1>11, <1>12, <1>13, <1>14, <1>15, <1>16, <1>17, <1>18, <1>19, <1>20, Zenon DEF Next, Startup, Persisting
LEMMA IInvStep == ASSUME OneChannel PROVE IInv /\ [Next]_vars => IInv'
  BY BaseStep, KeptStep DEF IInv

LEMMA IInvAlways == ASSUME OneChannel PROVE Spec => []IInv
  <1>1. Init => IInv
    BY BaseInit, KeptInit DEF IInv
  <1> QED
    BY <1>1, IInvStep, PTL DEF Spec

\* With one channel, every update whose persistence has returned stays on disk
\* through every crash, whether in the monitor file or in updates/.
THEOREM OneChannelDurable == ASSUME OneChannel PROVE Spec => []Durable
  <1>1. IInv => Durable
    BY DEF IInv, Kept
  <1> QED
    BY <1>1, IInvAlways, PTL

\* With one channel, Step 8 never finds the monitor missing or behind the
\* manager file, so its unwrap() is never reached with that error.
THEOREM OneChannelManagerLoads == ASSUME OneChannel PROVE Spec => []ManagerNeverStale
  <1>1. IInv => ManagerNeverStale
    BY MaxAssumption DEF IInv, Base, TypeOK, FileBehind, Kept, Durable, Level, ManagerBehind,
       ManagerNeverStale, StaleMonitor, MaybeId, Ids, Absent
  <1> QED
    BY <1>1, IInvAlways, PTL

\* With one channel, a channel once closed is never open again after a restart.
THEOREM OneChannelStaysClosed == ASSUME OneChannel PROVE Spec => []ClosedStaysClosed
  <1>1. IInv => ClosedStaysClosed
    BY DEF IInv, Kept
  <1> QED
    BY <1>1, IInvAlways, PTL
=============================================================================
