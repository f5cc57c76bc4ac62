---------------------------- MODULE CaptureRecorder ----------------------------
(***************************************************************************)
(* The packet recorder of the relay (capture.run) with its rotating files  *)
(* (capture_store.Store) and the readers of their indexes. A recording is  *)
(* a PCAP file, written through a buffer, and a SQLite index, written in   *)
(* transactions. The recorder is one process; what interferes with it is   *)
(* the administrator who changes the settings, kills, and errors of the    *)
(* disk at any of its writes; readers run beside it.                       *)
(*                                                                         *)
(* A packet is its destination port; sizes are counted in packets, an      *)
(* index and the header of a file count Overhead. Time limits (the age of  *)
(* a file, one second between measurements) may expire at any moment.      *)
(***************************************************************************)
EXTENDS Naturals, Sequences, FiniteSets, SequencesExt

CONSTANTS
  Config,       \* settings: [on, ports, budget]
  SegmentRows,  \* packets of a file
  Overhead,     \* size of an empty recording
  Reserve,      \* what prune keeps free
  PageRows,     \* records of a page
  Fault,        \* which faults happen
  MaxFaults, MaxPackets, MaxChanges,  \* bounds; a packet opens one file at most
  None

FaultKinds == {"error", "kill", "full", "dump", "stop"}

(* A row of an index: a packet's port, and where in the file it is. *)
Ports == UNION {c.ports : c \in Config}
Row == [port : Ports, offset : Nat]

ASSUME ConstantsAssumption ==
  /\ \A c \in Config : c.on \in BOOLEAN /\ c.budget \in Nat /\ c.budget > Overhead + Reserve
  /\ SegmentRows \in Nat \ {0} /\ PageRows \in Nat \ {0}
  /\ Overhead \in Nat /\ Reserve \in Nat \ {0}
  /\ Fault \subseteq FaultKinds
  /\ MaxPackets \in Nat
  /\ None \notin Nat /\ None \notin Seq(Ports) /\ None \notin Seq(Row)

VARIABLES
  wanted,   \* the settings in the database
  config,   \* those the recorder works with
  pc,       \* "down", "loop", the stages of append, "broken"
  proc,     \* whether tcpdump runs
  store,    \* the Store in memory
  disk,     \* the files, by number
  packet,   \* the packet that is being appended
  view,     \* a reader's pages of one recording
  faults, files, packets, changes

vars == <<wanted, config, pc, proc, store, disk, packet, view, faults, files,
          packets, changes>>

File == 1..MaxPackets
Gone == [bytes |-> None, rows |-> None, info |-> None]
NoView == [file |-> None, anchor |-> 0, page |-> 0, read |-> <<>>]
Stages == {"rotate", "check", "room", "open", "write"}

(* The packets in the files, the indexes, and what both take up.           *)
Packets(d) == UNION {{n} \X DOMAIN d[n].bytes : n \in {m \in File : d[m].bytes # None}}
Indexes(d) == {n \in File : d[n].rows # None}
Size(d) == Cardinality(Packets(d)) + Overhead * Cardinality(Indexes(d))

(* A store is open when it has a file; "dead" is one whose file object was *)
(* closed by a failure, so that every further use of it raises.            *)
NewStore(c, u) ==
  [config |-> c, file |-> None, bytes |-> <<>>, rows |-> <<>>, used |-> u, dead |-> FALSE]

(* Mutant: the count of rows goes on in the next file. *)
ClosedFile(s) == [s EXCEPT !.file = None, !.dead = FALSE]

(* After close the next packet starts a recording of its own. *)
Closed(s) == [s EXCEPT !.file = None, !.bytes = <<>>, !.rows = <<>>, !.dead = FALSE]

(* The store holds at least what is on the disk of its file. *)
TypeOK ==
  /\ wanted \in Config /\ config \in Config \cup {None}
  /\ pc \in {"down", "loop", "broken"} \cup Stages
  /\ proc \in BOOLEAN /\ (proc => config # None /\ config.on)
  /\ store # None =>
       /\ store.config \in Config
       /\ store.file # None /\ ~store.dead =>
            /\ IsPrefix(disk[store.file].bytes, store.bytes)
            /\ IsPrefix(disk[store.file].rows, store.rows)
            /\ Len(store.bytes) <= SegmentRows
  /\ pc \in Stages => packet \in config.ports
  /\ view.page > 0 => view.file \in File

Init ==
  /\ wanted \in Config
  /\ config = None /\ pc = "down" /\ proc = FALSE /\ store = None
  /\ disk = [n \in File |-> Gone]
  /\ packet = None /\ view = NoView
  /\ faults = 0 /\ files = 0 /\ packets = 0 /\ changes = 0
-----------------------------------------------------------------------------
(* capture.configure commits other settings. *)
Configure ==
  /\ changes < MaxChanges
  /\ changes' = changes + 1
  /\ \E c \in Config : c # wanted /\ wanted' = c
  /\ UNCHANGED <<config, pc, proc, store, disk, packet, view, faults, files, packets>>
-----------------------------------------------------------------------------
FaultHappens(k) == k \in Fault /\ faults < MaxFaults /\ faults' = faults + 1

(* A kill: what was in memory is gone. *)
Dies == pc' = "down" /\ proc' = FALSE /\ store' = None /\ config' = None /\ packet' = None

(* A step is broken off when the disk has become one of D: by an error,    *)
(* which leaves the store s to the loop's handler, or by a kill.           *)
BrokenOff(D, s) ==
  /\ disk' \in D
  /\ \/ FaultHappens("error") /\ pc' = "broken" /\ store' = s /\ UNCHANGED <<proc, config, packet>>
     \/ FaultHappens("kill") /\ Dies
  /\ UNCHANGED <<wanted, view, files, packets, changes>>

(* The next stage, with the disk d and the store s. *)
Goes(to, d, s) ==
  /\ pc' = to /\ disk' = d /\ store' = s
  /\ UNCHANGED <<wanted, config, proc, view, faults, files, packets, changes>>

Open(s) == s.file # None

(* Store.flush: first the buffer of the PCAP file, then the transaction of *)
(* the index, which with the first rows has the header.                    *)
WithBytes(d, s) == IF Open(s) THEN [d EXCEPT ![s.file].bytes = s.bytes] ELSE d
WithRows(d, s) ==
  IF Open(s) THEN [d EXCEPT ![s.file].rows = s.rows, ![s.file].info = s.config] ELSE d
Flushed(d, s) == WithRows(WithBytes(d, s), s)

(* Mutant: the index first. *)
IndexFirst(d, s) == {d, WithRows(d, s)}

(* What a flush that is broken off leaves. *)
HalfFlushed(d, s) == {d, WithBytes(d, s)}

Without(d, N) == [n \in File |-> IF n \in N THEN Gone ELSE d[n]]

(* Store.prune goes through the recordings from the oldest on, and leaves  *)
(* out the one that is being written: what is too old goes, the first k,   *)
(* and what is too much together with all that is newer.                   *)
Doomed(d, s, k) ==
  { n \in File \ {s.file} :
      /\ d[n] # Gone
      /\ n <= k \/ Size(Without(d, 1..(n - 1) \ {s.file})) + Reserve > s.config.budget }

Prunings(d, s) == {Without(d, Doomed(d, s, k)) : k \in 0..files}

(* A recording is two files, and a pruning may end before, between and     *)
(* after any of them.                                                      *)
HalfPruned(d, s) ==
  {d} \cup
  UNION { LET N == Doomed(d, s, k)
          IN  UNION { LET e == Without(d, {m \in N : m < n})
                      IN  { [e EXCEPT ![n].bytes = None], [e EXCEPT ![n].rows = None, ![n].info = None],
                            [e EXCEPT ![n] = Gone] } : n \in N }
          : k \in 0..files }

Fits(d, s) == Size(d) + Reserve <= s.config.budget
-----------------------------------------------------------------------------
(* The store is of no use any more: whatever it is asked raises. *)
UseOfDead ==
  /\ pc = "loop" /\ store # None /\ store.dead
  /\ pc' = "broken"
  /\ UNCHANGED <<wanted, config, proc, store, disk, packet, view, faults, files, packets, changes>>

Usable == store # None /\ ~store.dead

(* close: the file is flushed, and forgotten in any case, but when the     *)
(* buffer cannot be written: then the store stays behind, dead.            *)
CloseBreaks ==
  \/ BrokenOff({disk}, [store EXCEPT !.dead = TRUE])
  \/ BrokenOff(HalfFlushed(disk, store), Closed(store))

(* The service starts; it holds collector.lock. *)
Boot ==
  /\ pc = "down" /\ pc' = "loop"
  /\ UNCHANGED <<wanted, config, proc, store, disk, packet, view, faults, files, packets, changes>>

(* Mutant: settings are not read while tcpdump runs. *)
ChangedWhenIdle == wanted # config /\ ~proc

(* What the loop reads every three seconds. *)
Changed == wanted # config

(* The settings are read and have changed: tcpdump ends, the store is      *)
(* closed, and a new one, which prunes, takes its place.                   *)
Refresh ==
  /\ pc = "loop" /\ Changed
  /\ (store # None => ~store.dead)
  /\ LET d == IF store = None THEN disk ELSE Flushed(disk, store)
         s == NewStore(wanted, 0)
     IN  \/ /\ \E e \in Prunings(d, s) : disk' = e /\ store' = NewStore(wanted, Size(e))
            /\ config' = wanted /\ proc' = FALSE
            /\ UNCHANGED <<wanted, pc, packet, view, faults, files, packets, changes>>
         \/ store # None /\ Open(store) /\ CloseBreaks
         \/ BrokenOff(HalfPruned(d, s), IF store = None THEN None ELSE Closed(store))

Active == config # None /\ config.on /\ config.ports # {}

(* tcpdump is started, after the backoff. *)
StartDump ==
  /\ pc = "loop" /\ Active /\ ~proc
  /\ proc' = TRUE
  /\ UNCHANGED <<wanted, config, pc, store, disk, packet, view, faults, files, packets, changes>>

(* tcpdump ends by itself: the loop notices and raises. *)
DumpDies ==
  /\ pc = "loop" /\ proc
  /\ FaultHappens("dump")
  /\ pc' = "broken"
  /\ UNCHANGED <<wanted, config, proc, store, disk, packet, view, files, packets, changes>>

(* A packet that passes the filters of the loop is appended. *)
Receive ==
  /\ pc = "loop" /\ proc /\ Usable /\ packets < MaxPackets
  /\ packets' = packets + 1
  /\ packet' \in config.ports
  /\ pc' = "rotate"
  /\ UNCHANGED <<wanted, config, proc, store, disk, view, faults, files, changes>>

(* The file is full or five minutes old. *)
Rotate ==
  /\ pc = "rotate"
  /\ \/ /\ ~Open(store) \/ Len(store.bytes) < SegmentRows
        /\ Goes("check", disk, store)
     \/ /\ Open(store)
        /\ Goes("check", Flushed(disk, store), Closed(store)) \/ CloseBreaks
  /\ UNCHANGED packet

(* append answers False: the packet is counted as skipped. *)
Skip(d) == Goes("loop", d, Closed(store)) /\ packet' = None

(* Prunings of the disk d with the store s, after which the append goes on *)
(* at "to", if there is room, or skips the packet.                         *)
PruneAnd(to, d, s) ==
  \/ \E e \in Prunings(d, s) :
       IF Fits(e, s) THEN Goes(to, e, [s EXCEPT !.used = Size(e)]) /\ UNCHANGED packet
                     ELSE Skip(Flushed(e, s))
  \/ /\ FaultHappens("full")
     /\ pc' = "loop" /\ packet' = None /\ store' = Closed(s)
     /\ \E e \in Prunings(d, s) : disk' = Flushed(e, s)
     /\ UNCHANGED <<wanted, config, proc, view, files, packets, changes>>
  \/ BrokenOff(HalfPruned(d, s), s)

(* A second has passed: what is written is measured. *)
Check ==
  /\ pc = "check"
  /\ \/ Goes("room", disk, store) /\ UNCHANGED packet
     \/ PruneAnd("room", Flushed(disk, store), store)
     \/ Open(store) /\ BrokenOff(HalfFlushed(disk, store), store)

(* Mutant: the packet itself is not counted. *)
NoRoom(s) == s.used > s.config.budget

(* The next packet would exceed the budget. *)
Exceeds(s) == s.used + 1 > s.config.budget

MakeRoom ==
  /\ pc = "room"
  /\ IF Exceeds(store)
       THEN PruneAnd("open", Flushed(disk, store), Closed(store)) \/ (Open(store) /\ CloseBreaks)
       ELSE Goes("open", disk, store) /\ UNCHANGED packet

(* Store.start, if no file is open: the PCAP file, then the index, whose   *)
(* header is in its first transaction.                                     *)
StartFile ==
  /\ pc = "open"
  /\ LET n == files + 1
         opened == [store EXCEPT !.file = n]
         pcap(d) == [d EXCEPT ![n].bytes = <<>>]
         both(d) == [d EXCEPT ![n].bytes = <<>>, ![n].rows = <<>>]
     IN  IF Open(store) THEN Goes("write", disk, store) /\ UNCHANGED packet
         ELSE \/ \E e \in Prunings(disk, store) :
                   IF ~Fits(e, store) THEN Skip(e)
                   ELSE \/ /\ pc' = "write" /\ disk' = both(e) /\ files' = n
                           /\ store' = [opened EXCEPT !.used = Size(e)]
                           /\ UNCHANGED <<wanted, config, proc, packet, view, faults, packets, changes>>
                        \/ /\ \/ FaultHappens("error") /\ pc' = "broken"
                                   /\ store' = [opened EXCEPT !.dead = TRUE]
                                   /\ UNCHANGED <<proc, config, packet>>
                              \/ FaultHappens("kill") /\ Dies
                           /\ disk' \in {pcap(e), both(e)} /\ files' = n
                           /\ UNCHANGED <<wanted, view, packets, changes>>
              \/ BrokenOff(HalfPruned(disk, store), store)

(* The packet and its row are written; every hundred rows or after a       *)
(* second they are flushed. A write that fails may have reached the disk   *)
(* in part, and its row does not follow.                                   *)
Write ==
  /\ pc = "write"
  /\ LET s == [store EXCEPT !.bytes = Append(@, packet),
                            !.rows = Append(@, [port |-> packet, offset |-> Len(store.bytes) + 1]),
                            !.used = @ + 1]
         half == [store EXCEPT !.bytes = s.bytes]
     IN  \/ Goes("loop", disk, s) /\ packet' = None
         \/ Goes("loop", Flushed(disk, s), s) /\ packet' = None
         \/ BrokenOff({disk, WithBytes(disk, half)}, half)
         \/ BrokenOff(HalfFlushed(disk, s), s)

(* Store.tick, and after it the pruning of every thirty seconds. *)
Tick ==
  /\ pc = "loop" /\ Usable
  /\ \/ \E s \in {store, Closed(store)} :
          /\ \/ Goes("loop", Flushed(disk, store), s)
             \/ \E e \in Prunings(Flushed(disk, store), s) : Goes("loop", e, [s EXCEPT !.used = Size(e)])
          /\ UNCHANGED packet
     \/ Open(store) /\ (BrokenOff(HalfFlushed(disk, store), store) \/ CloseBreaks)
     \/ BrokenOff(HalfPruned(Flushed(disk, store), store), store)

(* The handler of the loop: tcpdump ends and the store is closed; an error *)
(* of that is suppressed. It may be the fault that led here once more, and *)
(* does not count: a second failure in a row finds the store dead.         *)
Recover ==
  /\ pc = "broken"
  /\ pc' = "loop" /\ proc' = FALSE /\ packet' = None
  /\ IF store = None \/ ~Open(store) \/ store.dead
       THEN /\ store' = IF store = None THEN None ELSE Closed(store)
            /\ UNCHANGED disk
       ELSE \/ disk' = Flushed(disk, store) /\ store' = Closed(store)
            \/ /\ "error" \in Fault
               /\ \/ disk' = disk /\ store' = [store EXCEPT !.dead = TRUE]
                  \/ disk' \in HalfFlushed(disk, store) /\ store' = Closed(store)
  /\ UNCHANGED <<wanted, config, view, faults, files, packets, changes>>

(* SIGTERM: the loop ends and the store is closed. *)
Stop ==
  /\ pc = "loop"
  /\ FaultHappens("stop")
  /\ Dies
  /\ disk' = IF Usable THEN Flushed(disk, store) ELSE disk
  /\ UNCHANGED <<wanted, view, files, packets, changes>>
-----------------------------------------------------------------------------
(* capture_store.files shows recordings whose two files are there and      *)
(* whose index has its header.                                             *)
Listed(n) == disk[n].bytes # None /\ disk[n].info # None

AtMost(a, b) == IF a < b THEN a ELSE b

(* Mutant: later pages start from the newest record again. *)
FromNewest(rows, anchor) == Len(rows)

(* records: pages are counted from the anchor of the first one. *)
AnchorOf(rows, anchor) == AtMost(Len(rows), anchor)

(* The records of a page, the newest first. *)
Page(rows, anchor, page) ==
  LET top == AnchorOf(rows, anchor) - (page - 1) * PageRows
  IN  [i \in 1..AtMost(PageRows, top) |-> rows[top + 1 - i]]

Pages(n) == (n + PageRows - 1) \div PageRows

(* A reader opens a recording that is listed, and turns its pages; when    *)
(* the recording is gone, it is told so.                                   *)
ReadFirst(n) ==
  /\ Listed(n) /\ disk[n].rows # <<>>
  /\ LET rows == disk[n].rows
     IN  view' = [file |-> n, anchor |-> Len(rows), page |-> 1, read |-> Page(rows, Len(rows), 1)]
  /\ UNCHANGED <<wanted, config, pc, proc, store, disk, packet, faults, files, packets, changes>>

ReadNext ==
  /\ view # NoView
  /\ LET rows == disk[view.file].rows
     IN  IF rows = None THEN view' = NoView
         ELSE /\ view.page < Pages(view.anchor)
              /\ view' = [view EXCEPT !.page = @ + 1,
                                      !.read = @ \o Page(rows, view.anchor, view.page + 1)]
  /\ UNCHANGED <<wanted, config, pc, proc, store, disk, packet, faults, files, packets, changes>>

Next ==
  \/ Configure \/ Boot \/ Refresh \/ UseOfDead \/ StartDump \/ DumpDies \/ Receive
  \/ Rotate \/ Check \/ MakeRoom \/ StartFile \/ Write \/ Tick \/ Recover \/ Stop
  \/ (\E n \in File : ReadFirst(n)) \/ ReadNext

Spec == Init /\ [][Next]_vars

(* systemd restarts the service and its loop goes on; packets need not     *)
(* come, and nobody need read.                                             *)
FairSpec ==
  /\ Spec
  /\ WF_vars(Boot) /\ WF_vars(Refresh) /\ WF_vars(UseOfDead) /\ WF_vars(StartDump)
  /\ WF_vars(Rotate \/ Check \/ MakeRoom \/ StartFile \/ Write) /\ WF_vars(Recover)
-----------------------------------------------------------------------------
(* A record that a reader can be shown is in the recording at its offset,  *)
(* wherever the recorder was killed and whichever write failed, and it is  *)
(* of a port that the header names: one that was selected when the         *)
(* recording was made, through changes of settings that fail half way.     *)
RecordsOnDisk ==
  \A n \in File : Listed(n) =>
    \A i \in DOMAIN disk[n].rows :
      LET row == disk[n].rows[i]
      IN  /\ row.offset <= Len(disk[n].bytes) /\ disk[n].bytes[row.offset] = row.port
          /\ row.port \in disk[n].info.ports

(* The recordings stay within the budget, but for the files of a recording *)
(* that has just been opened, which are counted with the next measurement. *)
WithinBudget == store # None => Size(disk) <= store.config.budget + Overhead

(* What a reader has turned over is the recording from the anchor down,    *)
(* each record once, although records come in meanwhile.                   *)
PagesFit ==
  view # NoView /\ disk[view.file].rows # None =>
    view.read = [i \in 1..AtMost(view.page * PageRows, view.anchor) |->
                   disk[view.file].rows[view.anchor + 1 - i]]

(* When settings and faults have come to an end, the recorder records or   *)
(* does not, as the settings say.                                          *)
FollowsSettings ==
  <>[](config = wanted /\ (proc <=> (wanted.on /\ wanted.ports # {})))
=============================================================================
