---------------------------- MODULE MonitorStore ----------------------------
(***************************************************************************)
(* How the node keeps its ChannelMonitors on disk and finds them again     *)
(* after a crash: YourPersister (disk.rs) under LDK's ChainMonitor, the    *)
(* ChannelManager file that the background processor writes, and Steps 7   *)
(* to 10 of start_ldk (main.rs).                                           *)
(*                                                                         *)
(* A monitor is abstracted to its latest_update_id and to whether it has   *)
(* seen its funding output spent; a persisted ChannelMonitorUpdate to the  *)
(* channel and the update_id in its file name.  Every file system call     *)
(* that can be interrupted by a crash is a step of its own.  A file        *)
(* written by write_to_file appears when it is renamed into place: the     *)
(* ".tmp" file it is renamed from is skipped by every reader.              *)
(***************************************************************************)
EXTENDS Integers, FiniteSets

CONSTANTS
    Channels,   \* funding outpoints (txid and index)
    TxidOf,     \* the txid of each funding outpoint
    MaxUpdate   \* bound on the update_ids explored

ASSUME TxidAssumption == DOMAIN TxidOf = Channels
ASSUME MaxAssumption == MaxUpdate \in Nat

Absent == -1    \* no file, no monitor, or not listed

VARIABLES
    monFile,    \* monitors/<txid>_<index>: the update_id it holds
    spentFile,  \* ... and its funding_spend_seen flag
    updates,    \* updates/: the set of <<channel, update_id>> files
    mgrExists,  \* whether the manager file exists
    mgrFile,    \* manager: latest_monitor_update_id of each listed channel
    mem,        \* the ChannelMonitors in memory
    spent,      \* their funding_spend_seen flags
    chan,       \* the channel as the ChannelManager has it
    returned,   \* history: the last update_id whose persistence returned
    ended,      \* history: the channels the node has seen closed
    pc,         \* where the process is
    stage,      \* the persister call in progress ...
    cur,        \* ... the channel it is for ...
    todo        \* ... and the monitors its loop has still to visit

disk  == <<monFile, spentFile, updates, mgrExists, mgrFile>>
inmem == <<mem, spent, chan>>
ctl   == <<pc, stage, cur, todo>>
vars  == <<monFile, spentFile, updates, mgrExists, mgrFile, mem, spent, chan,
           returned, ended, pc, stage, cur, todo>>
hist  == <<returned, ended>>

Ids == 0..MaxUpdate
MaybeId == Ids \cup {Absent}

\* The type invariant: what each file, each monitor and the persister's call
\* in progress may hold.
TypeOK ==
    /\ monFile \in [Channels -> MaybeId]
    /\ spentFile \in [Channels -> BOOLEAN]
    /\ updates \subseteq Channels \X Ids
    /\ mgrExists \in BOOLEAN
    /\ mgrFile \in [Channels -> MaybeId]
    /\ mem \in [Channels -> MaybeId]
    /\ spent \in [Channels -> BOOLEAN]
    /\ chan \in [Channels -> {"none", "opening", "open", "failing", "closed"}]
    /\ returned \in [Channels -> MaybeId]
    /\ ended \subseteq Channels
    /\ pc \in {"down", "halted", "manager", "sync", "watch", "up"}
    /\ stage \in {"idle", "update", "closing", "write", "clear"}
    /\ cur \in Channels
    /\ todo \subseteq Channels

\* A fresh data directory, before the first start.
Init ==
    /\ monFile = [c \in Channels |-> Absent]
    /\ spentFile = [c \in Channels |-> FALSE]
    /\ updates = {}
    /\ mgrExists = FALSE
    /\ mgrFile = [c \in Channels |-> Absent]
    /\ mem = [c \in Channels |-> Absent]
    /\ spent = [c \in Channels |-> FALSE]
    /\ chan = [c \in Channels |-> "none"]
    /\ returned = [c \in Channels |-> Absent]
    /\ ended = {}
    /\ pc = "down"
    /\ stage = "idle"
    /\ cur \in Channels
    /\ todo = {}

-----------------------------------------------------------------------------
(* Start-up: main.rs, Steps 7 to 10.                                       *)

\* read_channelmonitor_updates collects the updates under their txid only.
UpdatesFor(c) == {u \in updates : TxidOf[u[1]] = TxidOf[c]}
UpdateIds(c) == {u[2] : u \in UpdatesFor(c)}

\* Applying the updates read for c, sorted by update_id, to the monitor read
\* for c brings it to n.  update_monitor panics unless each update_id is the
\* monitor's plus one, and returns an error, at which start_ldk gives up, once
\* the monitor has seen its funding output spent.
ReplaysTo(c, n) ==
    /\ UpdateIds(c) = (monFile[c] + 1)..n
    /\ \A u, v \in UpdatesFor(c) : u[2] = v[2] => u = v
    /\ spentFile[c] => UpdatesFor(c) = {}

\* The monitors that Step 7 reads from disk and brings up to date.
Replayed(f) ==
    \A c \in Channels :
        IF monFile[c] = Absent THEN f[c] = Absent
        ELSE f[c] >= monFile[c] /\ ReplaysTo(c, f[c])

ReadMonitors ==
    /\ pc = "down"
    /\ \E f \in [Channels -> MaybeId] : Replayed(f) /\ mem' = f
    /\ spent' = spentFile
    /\ pc' = "manager"
    /\ UNCHANGED <<disk, chan, hist, stage, cur, todo>>

\* An update is out of order, or refused: the process ends, disk untouched.
ReplayFails ==
    /\ pc = "down"
    /\ ~ \E f \in [Channels -> MaybeId] : Replayed(f)
    /\ pc' = "halted"
    /\ UNCHANGED <<disk, inmem, hist, stage, cur, todo>>

\* ChannelManager::read refuses a channel whose monitor is missing or behind.
StaleMonitor(c) == mgrFile[c] # Absent /\ mem[c] < mgrFile[c]

\* Mutant: a channel behind its monitor is taken up as it is.
ReadManagerNoForceClose ==
    /\ pc = "manager" /\ mgrExists
    /\ IF \E c \in Channels : StaleMonitor(c)
       THEN pc' = "halted" /\ UNCHANGED <<chan, ended>>
       ELSE /\ chan' = [c \in Channels |-> IF mem[c] = Absent THEN "none"
                                           ELSE IF mgrFile[c] # Absent THEN "open"
                                           ELSE "closed"]
            /\ ended' = ended \cup {c \in Channels : chan'[c] = "closed"}
            /\ pc' = "sync"
    /\ UNCHANGED <<disk, mem, spent, returned, stage, cur, todo>>

\* Step 8 with a manager file: a channel behind its monitor is force-closed.  The
\* unwrap() on a refused read ends the process.
ReadManager ==
    /\ pc = "manager" /\ mgrExists
    /\ IF \E c \in Channels : StaleMonitor(c)
       THEN pc' = "halted" /\ UNCHANGED <<chan, ended>>
       ELSE /\ chan' = [c \in Channels |-> IF mem[c] = Absent THEN "none"
                                           ELSE IF mgrFile[c] = mem[c] THEN "open"
                                           ELSE "closed"]
            /\ ended' = ended \cup {c \in Channels : chan'[c] = "closed"}
            /\ pc' = "sync"
    /\ UNCHANGED <<disk, mem, spent, returned, stage, cur, todo>>

\* Step 8 without one: a fresh node, whose Steps 9 and 10 see no monitor.
FreshManager ==
    /\ pc = "manager" /\ ~ mgrExists
    /\ mem' = [c \in Channels |-> Absent]
    /\ chan' = [c \in Channels |-> IF monFile[c] = Absent THEN "none" ELSE "closed"]
    /\ ended' = ended \cup {c \in Channels : chan'[c] = "closed"}
    /\ pc' = "up"
    /\ UNCHANGED <<disk, spent, returned, stage, cur, todo>>

Watched == {c \in Channels : mem[c] # Absent}

\* Step 9: the monitors learn of blocks connected while the node was down.
SyncChain ==
    /\ pc = "sync"
    /\ \E S \in SUBSET Watched :
          spent' = [c \in Channels |-> spent[c] \/ c \in S]
    /\ todo' = Watched
    /\ pc' = "watch"
    /\ UNCHANGED <<disk, mem, chan, hist, stage, cur>>

\* Step 10: watch_channel for the next monitor, which persists it anew.
WatchNext(c) ==
    /\ pc = "watch" /\ stage = "idle" /\ c \in todo
    /\ cur' = c /\ stage' = "write" /\ todo' = todo \ {c}
    /\ UNCHANGED <<disk, inmem, hist, pc>>

WatchDone ==
    /\ pc = "watch" /\ stage = "idle" /\ todo = {}
    /\ pc' = "up"
    /\ UNCHANGED <<disk, inmem, hist, stage, cur, todo>>

-----------------------------------------------------------------------------
(* Running: ChainMonitor's calls, one at a time under its monitors lock.   *)

Idle == pc = "up" /\ stage = "idle" /\ todo = {}

\* Mutant: watch_channel without its check for a monitor already present.
OpenChannelTwice(c) ==
    /\ Idle
    /\ mem' = [mem EXCEPT ![c] = 0]
    /\ spent' = [spent EXCEPT ![c] = FALSE]
    /\ chan' = [chan EXCEPT ![c] = "opening"]
    /\ cur' = c /\ stage' = "write"
    /\ UNCHANGED <<disk, hist, pc, todo>>

\* watch_channel for a newly funded channel.
OpenChannel(c) ==
    /\ Idle /\ chan[c] = "none"
    /\ mem' = [mem EXCEPT ![c] = 0]
    /\ spent' = [spent EXCEPT ![c] = FALSE]
    /\ chan' = [chan EXCEPT ![c] = "opening"]
    /\ cur' = c /\ stage' = "write"
    /\ UNCHANGED <<disk, hist, pc, todo>>

\* write_to_file failed in persist_new_channel: the channel is given up.
OpenFails ==
    /\ pc = "up" /\ stage = "write" /\ chan[cur] = "opening"
    /\ mem' = [mem EXCEPT ![cur] = Absent]
    /\ chan' = [chan EXCEPT ![cur] = "none"]
    /\ stage' = "idle"
    /\ UNCHANGED <<disk, spent, hist, pc, cur, todo>>

\* update_channel: the monitor in memory is updated before it is persisted.
\* Force-closing sends one last update; so does a refused update.
UpdateChannel(c, s) ==
    /\ Idle /\ mem[c] < MaxUpdate
    /\ \/ s = "update" /\ chan[c] = "open"
       \/ s = "closing" /\ chan[c] \in {"open", "failing"}
    /\ mem' = [mem EXCEPT ![c] = @ + 1]
    /\ cur' = c /\ stage' = s
    /\ UNCHANGED <<disk, spent, chan, hist, pc, todo>>

\* Mutant: the file is named after the next update.
WriteUpdateOffByOne ==
    /\ stage \in {"update", "closing"}
    /\ updates' = updates \cup {<<cur, mem[cur] + 1>>}
    /\ returned' = [returned EXCEPT ![cur] = mem[cur]]
    /\ chan' = [chan EXCEPT ![cur] = IF stage = "closing" THEN "closed"
                                     ELSE IF spent[cur] THEN "failing" ELSE @]
    /\ ended' = IF stage = "closing" THEN ended \cup {cur} ELSE ended
    /\ stage' = "idle"
    /\ UNCHANGED <<monFile, spentFile, mgrExists, mgrFile, mem, spent, pc, cur, todo>>

\* update_persisted_channel(Some(update)) writes updates/<txid>_<index>_<id>.
WriteUpdate ==
    /\ stage \in {"update", "closing"}
    /\ updates' = updates \cup {<<cur, mem[cur]>>}
    /\ returned' = [returned EXCEPT ![cur] = mem[cur]]
    /\ chan' = [chan EXCEPT ![cur] = IF stage = "closing" THEN "closed"
                                     ELSE IF spent[cur] THEN "failing" ELSE @]
    /\ ended' = IF stage = "closing" THEN ended \cup {cur} ELSE ended
    /\ stage' = "idle"
    /\ UNCHANGED <<monFile, spentFile, mgrExists, mgrFile, mem, spent, pc, cur, todo>>

\* process_chain_data: a block is given to every monitor in turn.
BlockConnected ==
    /\ Idle /\ Watched # {}
    /\ todo' = Watched
    /\ UNCHANGED <<disk, inmem, hist, pc, stage, cur>>

\* Mutant: a monitor that the block does not concern is not persisted.
BlockNextSkipsUntouched(c) ==
    /\ pc = "up" /\ stage = "idle" /\ c \in todo
    /\ \E b \in BOOLEAN : /\ spent' = [spent EXCEPT ![c] = @ \/ b]
                          /\ stage' = IF b THEN "write" ELSE "idle"
    /\ cur' = c /\ todo' = todo \ {c}
    /\ UNCHANGED <<disk, mem, chan, hist, pc>>

BlockNext(c) ==
    /\ pc = "up" /\ stage = "idle" /\ c \in todo
    /\ \E b \in BOOLEAN : spent' = [spent EXCEPT ![c] = @ \/ b]
    /\ cur' = c /\ stage' = "write" /\ todo' = todo \ {c}
    /\ UNCHANGED <<disk, mem, chan, hist, pc>>

\* The full monitor replaces its file (persist_new_channel, and
\* update_persisted_channel(None)) ...
WriteMonitor ==
    /\ stage = "write"
    /\ monFile' = [monFile EXCEPT ![cur] = mem[cur]]
    /\ spentFile' = [spentFile EXCEPT ![cur] = spent[cur]]
    /\ stage' = "clear"
    /\ UNCHANGED <<updates, mgrExists, mgrFile, inmem, hist, pc, cur, todo>>

\* Mutant: updates/ is emptied before the monitor is in place.
RemoveUpdateEarly ==
    /\ stage \in {"write", "clear"}
    /\ \E u \in updates : updates' = updates \ {u}
    /\ UNCHANGED <<monFile, spentFile, mgrExists, mgrFile, inmem, hist, ctl>>

\* ... then remove_dir_all unlinks the files of updates/ one by one, whatever
\* their channel ...
RemoveUpdate ==
    /\ stage = "clear"
    /\ \E u \in updates : updates' = updates \ {u}
    /\ UNCHANGED <<monFile, spentFile, mgrExists, mgrFile, inmem, hist, ctl>>

\* ... and the call returns.
ClearDone ==
    /\ stage = "clear" /\ updates = {}
    /\ stage' = "idle"
    /\ IF chan[cur] = "opening"
       THEN /\ chan' = [chan EXCEPT ![cur] = "open"]
            /\ returned' = [returned EXCEPT ![cur] = mem[cur]]
       ELSE UNCHANGED <<chan, returned>>
    /\ UNCHANGED <<disk, mem, spent, ended, pc, cur, todo>>

\* Mutant: the manager is written without waiting for the consistency lock.
PersistManagerUnlocked ==
    /\ pc = "up"
    /\ mgrExists' = TRUE
    /\ mgrFile' = [c \in Channels |-> IF chan[c] = "open" THEN mem[c] ELSE Absent]
    /\ UNCHANGED <<monFile, spentFile, updates, inmem, hist, ctl>>

\* The background processor persists the manager.  ChannelManager::write waits
\* for the calls that hold the consistency lock; blocks do not hold it.
PersistManager ==
    /\ pc = "up"
    /\ stage \notin {"update", "closing"}
    /\ \A c \in Channels : chan[c] # "opening"
    /\ mgrExists' = TRUE
    /\ mgrFile' = [c \in Channels |-> IF chan[c] = "open" THEN mem[c] ELSE Absent]
    /\ UNCHANGED <<monFile, spentFile, updates, inmem, hist, ctl>>

-----------------------------------------------------------------------------
\* The process dies (panic = "abort", kill, power): memory is lost.
Crash ==
    /\ pc # "down"
    /\ mem' = [c \in Channels |-> Absent]
    /\ spent' = [c \in Channels |-> FALSE]
    /\ chan' = [c \in Channels |-> "none"]
    /\ pc' = "down" /\ stage' = "idle" /\ todo' = {}
    /\ UNCHANGED <<disk, hist, cur>>

Startup ==
    \/ ReadMonitors \/ ReplayFails
    \/ ReadManager \/ FreshManager
    \/ SyncChain \/ WatchDone
    \/ \E c \in Channels : WatchNext(c)

Persisting ==
    \/ WriteUpdate \/ WriteMonitor \/ RemoveUpdate \/ ClearDone
    \/ \E c \in Channels : BlockNext(c)

Next ==
    \/ Startup \/ Persisting \/ PersistManager \/ Crash
    \/ BlockConnected \/ OpenFails
    \/ \E c \in Channels : OpenChannel(c)
    \/ \E c \in Channels, s \in {"update", "closing"} : UpdateChannel(c, s)

Spec == Init /\ [][Next]_vars

\* The threads keep running: start_ldk goes on with its steps, and a persister
\* call that has begun, and the loop it is part of, goes on to its end.
FairSpec == Spec /\ WF_vars(Startup) /\ WF_vars(Persisting)

-----------------------------------------------------------------------------
(* Properties.                                                             *)

\* Every update whose persistence has returned to ChainMonitor is on disk,
\* in the channel's monitor file or in an update file of its own (disk.rs,
\* update_persisted_channel), at every point of every write and after every
\* crash.
Durable ==
    \A c \in Channels : returned[c] # Absent =>
        /\ monFile[c] # Absent
        /\ \A i \in (monFile[c] + 1)..returned[c] : <<c, i>> \in updates

\* Whenever start_ldk reads the manager file, the monitor it has just rebuilt
\* from monitors/ and updates/ is there and not behind it, so that the
\* unwrap() of Step 8 is not reached with an error.
ManagerNeverStale ==
    pc = "manager" => \A c \in Channels : ~ StaleMonitor(c)

\* A channel that the node has force-closed, or found to be closed at a start,
\* is never taken up again as open by a later start, whatever manager file the
\* crash left behind (main.rs, Step 8).
ClosedStaysClosed ==
    \A c \in ended : chan[c] \in {"none", "closed"}

\* No step replaces a monitor file by an older monitor, the writes of
\* Step 10, which write what was rebuilt after a crash, included.
MonitorFileNeverRollsBack ==
    [][\A c \in Channels : monFile'[c] >= monFile[c]]_vars

\* Once process_chain_data, or Step 10, has begun to write the monitors it
\* gets all of them into their files and leaves updates/ empty, or the process
\* dies.
BlockSettles ==
    todo # {} ~> \/ pc = "down"
                 \/ updates = {} /\ \A c \in Watched : monFile[c] = mem[c]
=============================================================================
