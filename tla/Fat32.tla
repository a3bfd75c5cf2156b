-------------------------------- MODULE Fat32 --------------------------------
(***************************************************************************)
(* boot/core/fat32.c on a mounted volume: josh_fat32_open_path walks       *)
(* directory chains, josh_fat32_read_file walks the chain of a file.  The  *)
(* FAT and the directories hold anything: chains that are cyclic, end too  *)
(* early, or leave the volume.  A FAT entry gets its value when it is      *)
(* first read and keeps it.  The unit of sizes and offsets is the sector:  *)
(* the bytes a partial first or last sector contributes are left out.      *)
(***************************************************************************)
EXTENDS Fat32Volume, Sequences

CONSTANTS
  BadCluster,  \* FAT32_BAD_CLUSTER, 0x0FFFFFF7 in the code
  Images,      \* boot sectors to mount
  Segments,    \* numbers of path segments to look up
  MaxSize      \* bound: file size, offset and length, in sectors

ASSUME Fat32Assumption ==
  /\ BadCluster \in Nat /\ 1 < BadCluster /\ BadCluster + 1 < WordLimit
  /\ Images \subseteq Bpbs
  /\ Segments \subseteq Nat
  /\ MaxSize \in Nat

VARIABLES
  walk,
  fat,         \* FAT entries read so far
  depth,       \* path segments left
  cluster,     \* where the walk is
  visited,     \* clusters of this chain already left behind
  file,        \* the directory entry found
  offset, length,   \* the request, length clipped to the file
  trail,       \* history: the clusters of this chain so far, `cluster' the last
  out,         \* sectors delivered
  faulted,     \* some read failed
  outcome

walkVars == <<fat, depth, cluster, visited, file, offset, length, trail, out>>
fatVars     == <<volumeVars, walkVars, walk, faulted, outcome>>

Unread == WordLimit          \* FAT entry not read yet
Eoc    == BadCluster + 1     \* FAT32_EOC_MIN and above
Broken == 0                  \* 0, 1 or FAT32_BAD_CLUSTER

\* What an entry can hold, in the 28 bits that next_cluster keeps of it: a mark,
\* or a number below the marks, of the volume's own clusters or one past them.
\* On a volume with still more clusters the marks are cluster numbers too.
FatValues == {Broken, Eoc} \cup {c \in 2 .. volume.cluster_count + 2 : c < BadCluster}

NoFile == [directory |-> FALSE, first |-> 0, size |-> 0]

WalkStart ==
  /\ walk = "mount"
  /\ fat = [c \in Words |-> Unread]
  /\ cluster = 0
  /\ visited = 0
  /\ file = NoFile
  /\ offset = 0
  /\ length = 0
  /\ trail = <<>>
  /\ out = <<>>
  /\ faulted = FALSE
  /\ outcome = "none"

WalkInit ==
  /\ bpb \in Images /\ VolumeStart
  /\ depth \in Segments /\ WalkStart

Ends(s) == walk' = "done" /\ outcome' = s

Fails(s) == Ends(s) /\ UNCHANGED <<volumeVars, walkVars, faulted>>

\* Begin to walk the chain at c.
Enter(c) == cluster' = c /\ visited' = 0 /\ trail' = <<c>>

DoMount ==
  /\ walk = "mount"
  /\ Mount \/ MountUnreadable
  /\ IF status' = "ok"
     THEN /\ walk' = IF depth = 0 THEN "opened" ELSE "directory"
          /\ Enter(volume'.root_cluster)
          /\ file' = [directory |-> TRUE, first |-> volume'.root_cluster, size |-> 0]
          /\ UNCHANGED outcome
     ELSE Ends(status') /\ UNCHANGED <<cluster, visited, trail, file>>
  /\ UNCHANGED <<fat, depth, offset, length, out, faulted>>

\* Any read of any sector.
ReadFault ==
  /\ walk \in {"directory", "directory_next", "read", "read_next"}
  /\ faulted' = TRUE
  /\ Ends("io_error")
  /\ UNCHANGED <<volumeVars, walkVars>>

\* next_cluster: the value of the current cluster's entry.
Lookup(v) ==
  /\ InFat(volume, cluster)
  /\ v \in IF fat[cluster] = Unread THEN FatValues ELSE {fat[cluster]}
  /\ fat' = [fat EXCEPT ![cluster] = v]

\* The walk goes on to it.
Advance(v) == Lookup(v) /\ cluster' = v /\ trail' = Append(trail, v)

-----------------------------------------------------------------------------
(* josh_fat32_open_path and find_in_directory. *)

BadSegment ==
  /\ walk = "directory"
  /\ visited = 0
  /\ Fails("bad_path")

\* The cluster lies outside the volume.
DirectoryLeavesVolume ==
  /\ walk = "directory"
  /\ ~ClusterReadable(volume, cluster)
  /\ Fails("corrupt")

EndOfDirectory ==
  /\ walk = "directory"
  /\ ClusterReadable(volume, cluster)
  /\ Fails("not_found")

\* Deleted, long-name and volume entries and other names are passed over.
NoMatch ==
  /\ walk = "directory"
  /\ ClusterReadable(volume, cluster)
  /\ walk' = "directory_next"
  /\ UNCHANGED <<volumeVars, walkVars, faulted, outcome>>

Match(f) ==
  /\ walk = "directory"
  /\ ClusterReadable(volume, cluster)
  /\ file' = f
  /\ IF f.first < 2 /\ f.size # 0
     THEN Ends("corrupt") /\ UNCHANGED <<cluster, visited, trail, depth>>
     ELSE IF depth = 1
     THEN walk' = "opened" /\ UNCHANGED <<cluster, visited, trail, depth, outcome>>
     ELSE IF ~f.directory
     THEN Ends("not_directory") /\ UNCHANGED <<cluster, visited, trail, depth>>
     ELSE IF ~ClusterValid(volume, f.first)
     THEN Ends("corrupt") /\ UNCHANGED <<cluster, visited, trail, depth>>
     ELSE Enter(f.first) /\ depth' = depth - 1 /\ UNCHANGED <<walk, outcome>>
  /\ UNCHANGED <<volumeVars, fat, offset, length, out, faulted>>

\* Mutant: the turns of the loop are not counted.
VisitedStuck == visited

Visited == visited + 1

DirectoryNext(v) ==
  /\ walk = "directory_next"
  /\ Advance(v)
  /\ visited' = Visited
  /\ IF v = Broken \/ (v # Eoc /\ visited' > volume.cluster_count) THEN Ends("corrupt")
     ELSE IF v = Eoc THEN Ends("not_found")
     ELSE walk' = "directory" /\ UNCHANGED outcome
  /\ UNCHANGED <<volumeVars, depth, file, offset, length, out, faulted>>

\* Its entry lies behind the end of the FAT.
BeyondFat ==
  /\ walk \in {"directory_next", "skip", "read_next"}
  /\ ~InFat(volume, cluster)
  /\ Fails("corrupt")

-----------------------------------------------------------------------------
(* josh_fat32_read_file. *)

PerCluster == volume.sectors_per_cluster

Skipped == offset \div PerCluster    \* skip_clusters

\* Early returns, the clipping of the length, and the start of the walk.
ReadFile(o, l) ==
  LET clipped == IF l > file.size - o THEN file.size - o ELSE l
  IN  /\ walk = "opened"
      /\ offset' = o
      /\ IF file.directory THEN Ends("not_directory") /\ length' = 0
         ELSE IF o > file.size THEN Ends("bad_path") /\ length' = 0
         ELSE /\ length' = clipped
              /\ IF clipped = 0 THEN Ends("ok")
                 ELSE IF ~ClusterValid(volume, file.first) THEN Ends("corrupt")
                 ELSE /\ walk' = IF o >= PerCluster THEN "skip" ELSE "read"
                      /\ UNCHANGED outcome
      /\ Enter(file.first)
      /\ UNCHANGED <<volumeVars, fat, depth, file, out, faulted>>

\* The first loop; it reports every failure, an unreadable FAT sector too, as
\* corruption.
SkipCluster(v) ==
  /\ walk = "skip"
  /\ Advance(v)
  /\ visited' = visited + 1
  /\ IF v \in {Broken, Eoc} THEN Ends("corrupt")
     ELSE walk' = (IF visited' = Skipped THEN "read" ELSE "skip") /\ UNCHANGED outcome
  /\ UNCHANGED <<volumeVars, depth, file, offset, length, out, faulted>>

SkipFault ==
  /\ walk = "skip"
  /\ InFat(volume, cluster)
  /\ faulted' = TRUE
  /\ Ends("corrupt")
  /\ UNCHANGED <<volumeVars, walkVars>>

\* Where reading begins in the current cluster: only the first one read may
\* begin in the middle.
FirstSector == IF visited = Skipped THEN offset % PerCluster ELSE 0

\* Mutant: a count is compared as if it were a cluster number.
TooLongNumbered == visited + 2 > volume.cluster_count

TooLong == visited > volume.cluster_count

ReadTooLong ==
  /\ walk = "read"
  /\ TooLong \/ ~ClusterReadable(volume, cluster)
  /\ Fails("corrupt")

ReadCluster ==
  /\ walk = "read"
  /\ ~TooLong
  /\ ClusterReadable(volume, cluster)
  /\ LET left == length - Len(out)
         room == PerCluster - FirstSector
         take == IF left < room THEN left ELSE room
         base == ClusterLba(volume, cluster) + FirstSector
     IN  out' = out \o [s \in 1..take |-> base + s - 1]
  /\ IF Len(out') = length THEN Ends("ok") ELSE walk' = "read_next" /\ UNCHANGED outcome
  /\ UNCHANGED <<volumeVars, fat, depth, cluster, visited, file, offset, length,
                 trail, faulted>>

ReadNext(v) ==
  /\ walk = "read_next"
  /\ Advance(v)
  /\ visited' = visited + 1
  /\ IF v \in {Broken, Eoc} THEN Ends("corrupt") ELSE walk' = "read" /\ UNCHANGED outcome
  /\ UNCHANGED <<volumeVars, depth, file, offset, length, out, faulted>>

-----------------------------------------------------------------------------
Files == [directory : BOOLEAN, first : 0 .. volume.cluster_count + 2, size : 0..MaxSize]

Lookups ==
  \/ BadSegment
  \/ DirectoryLeavesVolume
  \/ EndOfDirectory
  \/ NoMatch
  \/ \E f \in Files : Match(f)
  \/ \E v \in FatValues : DirectoryNext(v)

\* Requests: all of the rest of the file, as stage2_pm.c makes them, one
\* sector, or nothing.
Reads ==
  \/ \E o \in 0..MaxSize, l \in {0, 1, MaxSize} : ReadFile(o, l)
  \/ \E v \in FatValues : SkipCluster(v) \/ ReadNext(v)
  \/ SkipFault
  \/ ReadTooLong
  \/ ReadCluster

WalkNext == DoMount \/ ReadFault \/ BeyondFat \/ Lookups \/ Reads

WalkSpec == WalkInit /\ [][WalkNext]_fatVars
-----------------------------------------------------------------------------
\* The clusters walked are linked by the FAT.
Chained == \A k \in 1 .. Len(trail) - 1 : trail[k+1] = fat[trail[k]]

\* The sectors the request names, in the order of the chain.
Requested ==
  [s \in 1..length |->
     LET position == offset + s - 1
     IN  ClusterLba(volume, trail[position \div PerCluster + 1])
           + (position % PerCluster)]

\* A read that reports success delivered exactly the requested sectors of the
\* chain that starts at the file's first cluster, in order: skipping, clipping
\* and the partial first cluster fit together whatever the chain looks like.
ReadsFollowChain ==
  walk = "done" /\ outcome = "ok" => trail[1] = file.first /\ out = Requested

\* The walk reports corruption only where there is some: the chain from its
\* start to where the walk stopped leaves the volume or the FAT, meets an end
\* or bad mark, or comes back to a cluster it has passed.  A legal chain is
\* never cut off by the visited counter, however long.  A first cluster is not
\* read from the FAT and is never a mark.
ChainIsBad ==
  \E k \in 1 .. Len(trail) :
    \/ k > 1 /\ trail[k] \in {Broken, Eoc}
    \/ ~ClusterReadable(volume, trail[k])
    \/ ~InFat(volume, trail[k])
    \/ \E j \in 1 .. k - 1 : trail[j] = trail[k]

EntryIsBad == ~ClusterValid(volume, file.first)

CorruptIsReal ==
  (walk = "done" /\ outcome = "corrupt" /\ status = "ok" /\ ~faulted)
    => ChainIsBad \/ EntryIsBad

\* What josh_fat32_open_path and josh_fat32_read_file report is true of the
\* volume: success delivered the file, and corruption is there.
ReadsExactly == Chained /\ ReadsFollowChain /\ CorruptIsReal

\* An upper bound on the steps left: two for a cluster of each chain still to be
\* walked, where the visited counter limits the directories' chains, and it or
\* the offset the file's.
StepsLeft ==
  LET directory == 2 * (volume.cluster_count + 2)
      reading   == 2 * (volume.cluster_count + MaxSize + 3)
  IN  CASE walk = "directory"      -> reading + 1 + depth * directory - 2 * visited
        [] walk = "directory_next" -> reading + depth * directory - 2 * visited
        [] walk = "opened"         -> reading
        [] walk = "skip"           -> reading - 1 - 2 * visited
        [] walk = "read"           -> reading - 1 - 2 * visited
        [] walk = "read_next"      -> reading - 2 - 2 * visited
        [] OTHER                   -> 0

\* Lookup and read end on every FAT, the cyclic ones included: each step of a
\* mounted volume's walk brings a bound on their number down.
WalkEnds ==
  [][walk # "mount" => StepsLeft' < StepsLeft /\ StepsLeft' >= 0]_<<walk, walkVars>>
=============================================================================
