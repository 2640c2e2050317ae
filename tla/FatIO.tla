------------------------------- MODULE FatIO -------------------------------
(***************************************************************************)
(* The file I/O of the FAT driver, src/drivers/generic/slowfat/io.c:       *)
(* read_sync (with read_callback), write_sync, trunc_file and              *)
(* WriteFatDirent, on files of one volume.                                 *)
(*                                                                         *)
(* Each call is one step: the driver runs it under fat_lock and fd_lock,   *)
(* and one caller is modelled.  A byte is a zero of the fresh volume, the  *)
(* byte k of the buffer of the w-th call, or Junk (bytes the driver reads  *)
(* from outside a cluster buffer or outside the data area).  Every         *)
(* Vfs_FdRead / Vfs_FdWrite of a call may be the one that fails: the       *)
(* call's parameter io is the number of the failing transfer (0: none).   *)
(*                                                                         *)
(* The cluster helpers (FollowClusterChain, ExtendClusters,               *)
(* AllocateClusters, FreeClusters, TruncateClusters) are not in the        *)
(* repository.  They are modelled on the FAT as a table of links: a chain *)
(* is followed link by link, and since write_sync addresses the clusters  *)
(* of a file as cluster + i, ExtendClusters grows a chain only into the   *)
(* free clusters right after it, and AllocateClusters takes a run of free *)
(* clusters.  content is the ghost contents the calls should have given   *)
(* each file.                                                              *)
(***************************************************************************)
EXTENDS Integers, Sequences, SequencesExt, FiniteSets

CONSTANTS Files,      \* open files (fat_dirent_cache entries)
          BPC,        \* bytesPerCluster
          NClusters,  \* data clusters of the volume: 2 .. NClusters + 1
          Offsets,    \* blkOffset passed to read_sync / write_sync
          Counts,     \* blkCount passed to read_sync / write_sync
          TruncSizes, \* blkCount passed to trunc_file
          IoErrors,   \* whether a transfer may fail
          MaxCalls    \* calls made in all (model bound)

ASSUME /\ BPC \in Nat \ {0} /\ Counts \subseteq Nat \ {0}
       /\ Offsets \cup TruncSizes \subseteq Nat /\ IoErrors \in BOOLEAN

Clusters == 2 .. NClusters + 1
\* FAT entries: 0 marks a free cluster, a value past the last an end of chain.
FREE == 0
EOC == NClusters + 2
\* A byte is <<w, k>>: byte k of the buffer of the w-th call; call 0 gives
\* the zeroes of a fresh volume and -1 the bytes nobody wrote.
Zero == <<0, 0>>
Junk == <<-1, 0>>
Bytes == {Zero, Junk} \cup ((1 .. MaxCalls) \X (0 .. Max(Counts) - 1))
Pos == 0 .. BPC - 1
ZeroCluster == [j \in Pos |-> Zero]

VARIABLES fat,      \* cluster -> next cluster, EOC or FREE
          disk,     \* cluster -> its bytes
          ent,      \* file -> cache_entry->data: [first, size]
          dirent,   \* file -> the directory entry on the volume
          content,  \* file -> the bytes the file should hold (ghost)
          rd,       \* the last read_sync: arguments, buffer, *nBlkRead
          ret,      \* the last call: [op, ok]
          faults,   \* kernel-heap misuse and panics seen (ghost)
          calls

vars == <<fat, disk, ent, dirent, content, rd, ret, faults, calls>>

NoFile == [first |-> 0, size |-> 0]

Init == /\ fat = [c \in Clusters |-> FREE]
        /\ disk = [c \in Clusters |-> ZeroCluster]
        /\ ent = [f \in Files |-> NoFile]
        /\ dirent = ent
        /\ content = [f \in Files |-> <<>>]
        /\ rd = [ok |-> TRUE, buf |-> [j \in {} |-> Junk], nRead |-> 0, want |-> <<>>]
        /\ ret = [op |-> "none", ok |-> TRUE]
        /\ faults = {}
        /\ calls = 0

\* (x / bytesPerCluster) + ((x % bytesPerCluster) != 0)
Ceil(x) == x \div BPC + (IF x % BPC # 0 THEN 1 ELSE 0)
MinOf(a, b) == IF a < b THEN a ELSE b

-----------------------------------------------------------------------------
(* The cluster helpers, on a FAT table T.                                  *)

RECURSIVE ChainFrom(_, _, _)
ChainFrom(T, c, d) ==
  IF c \notin Clusters \/ d = 0 THEN <<>>
  ELSE <<c>> \o (IF T[c] \in Clusters THEN ChainFrom(T, T[c], d - 1) ELSE <<>>)

\* FollowClusterChain: the clusters of the chain starting at c.
Chain(T, c) == ChainFrom(T, c, NClusters)

\* The run of n clusters from s, linked into one chain.
Run(s, n) == [i \in 1 .. n |-> s + i - 1]
IsFreeRun(T, s, n) == \A i \in 1 .. n : s + i - 1 \in Clusters /\ T[s + i - 1] = FREE
Link(T, cs) == [c \in Clusters |->
                 IF \E i \in DOMAIN cs : cs[i] = c
                 THEN LET i == CHOOSE i \in DOMAIN cs : cs[i] = c
                      IN IF i = Len(cs) THEN EOC ELSE cs[i + 1]
                 ELSE T[c]]

\* ExtendClusters(cache, c, new, old): grows the chain to new clusters.
CanExtend(T, c, new) ==
  /\ c \in Clusters
  /\ LET ch == Chain(T, c) IN
     Len(ch) >= new \/ IsFreeRun(T, ch[Len(ch)] + 1, new - Len(ch))
Extend(T, c, new) ==
  LET ch == Chain(T, c) IN
  IF Len(ch) >= new THEN T ELSE Link(T, ch \o Run(ch[Len(ch)] + 1, new - Len(ch)))

\* AllocateClusters(cache, n): the first cluster of a free run of n.
AllocStarts(T, n) == {s \in Clusters : IsFreeRun(T, s, n)}

\* FreeClusters(cache, c, n): frees the first n clusters of the chain.
FreeChain(T, c, n) ==
  LET gone == Range(SubSeq(Chain(T, c), 1, MinOf(n, Len(Chain(T, c))))) IN
  [x \in Clusters |-> IF x \in gone THEN FREE ELSE T[x]]

\* TruncateClusters(cache, c, new, old): ends the chain after new clusters.
TruncateChain(T, c, new) ==
  LET ch == Chain(T, c) IN
  IF new = 0 \/ new > Len(ch) THEN T
  ELSE [x \in Clusters |-> IF x = ch[new] THEN EOC
                           ELSE IF \E i \in new + 1 .. Len(ch) : ch[i] = x THEN FREE
                           ELSE T[x]]

\* Vfs_FdRead of cluster c; a cluster number below 2 is the reserved area.
ReadCluster(D, c) == IF c \in Clusters THEN D[c] ELSE [j \in Pos |-> Junk]
WriteCluster(D, c, b) == IF c \in Clusters THEN [D EXCEPT ![c] = b] ELSE D

-----------------------------------------------------------------------------
(* The calls.  io is the number of the transfer that fails (0: none).      *)

IoChoices == IF IoErrors THEN 0 .. 2 * NClusters + 4 ELSE {0}

Begin(op) == /\ calls < MaxCalls /\ "panic" \notin faults
             /\ calls' = calls + 1

\* read_callback for each cluster of the chain, then read_sync's return.
\* The callback keeps i in udata but not current_offset, cluster_offset or
\* bytesLeft: every cluster is copied to buf + 0 from the same offset, the
\* walk stops after the call with i >= nClustersToRead or at once when
\* blkCount < bytesPerCluster, and *nBlkRead is blkCount - blkCount.  A
\* failed Vfs_FdRead frees cluster_buf and releases fd_lock in the
\* callback, and read_sync frees and releases them again.
ReadCallbacks(f, off, n, io) ==
  LET s == ent[f].size
      nToRead == IF off + n >= s THEN s - off ELSE n
      ch == Chain(fat, ent[f].first + off \div BPC)
      nVisit == MinOf(Len(ch), IF n < BPC THEN 1 ELSE Ceil(nToRead) + 1)
      failed == io \in 1 .. nVisit
      done == IF failed THEN io - 1 ELSE nVisit
      co == off % BPC
      L == MinOf(n, BPC)
  IN [buf |-> [j \in 0 .. n - 1 |->
                IF done > 0 /\ j < L /\ co + j < BPC THEN disk[ch[done]][co + j] ELSE Junk],
      ok |-> ~failed,
      misuse |-> (IF failed THEN {"double_free"} ELSE {})
                 \cup (IF done > 0 /\ co + L > BPC THEN {"overread"} ELSE {})]

ReadSync(f, off, n, io) ==
  /\ Begin("read")
  /\ LET r == IF off >= ent[f].size THEN [buf |-> [j \in 0 .. n - 1 |-> Junk], ok |-> TRUE, misuse |-> {}]
              ELSE ReadCallbacks(f, off, n, io)
     IN /\ rd' = [ok |-> r.ok, buf |-> r.buf, nRead |-> 0,
                  want |-> SubSeq(content[f], off + 1, MinOf(off + n, Len(content[f])))]
        /\ ret' = [op |-> "read", ok |-> r.ok]
        /\ faults' = faults \cup r.misuse
  /\ UNCHANGED <<fat, disk, ent, dirent, content>>

\* The copy loop of a reallocation: cluster from + i to cluster to + i.
RECURSIVE CopyClusters(_, _, _, _)
CopyClusters(D, from, to, m) ==
  IF m = 0 THEN D
  ELSE LET D1 == CopyClusters(D, from, to, m - 1)
       IN WriteCluster(D1, to + m - 1, ReadCluster(D1, from + m - 1))

\* The loop of write_sync, from iteration i: memcpy to cluster_buf +
\* cluster_offset of the bytes at buf + current_offset, Vfs_FdWrite of the
\* whole cluster_buf, then memzero.  Bytes copied past the buffer's end
\* are lost.
RECURSIVE WriteLoop(_, _, _, _, _, _)
WriteLoop(st, t0, i, src, nClW, failAt) ==
  IF ~(i < nClW /\ st.left > 0) THEN st
  ELSE LET L == IF st.left <= BPC THEN st.left ELSE BPC - st.co
           cb == [j \in Pos |-> IF st.co <= j /\ j < st.co + L THEN src[st.cur + j - st.co] ELSE st.cb[j]]
           st1 == [st EXCEPT !.io = @ + 1, !.over = @ \/ st.co + L > BPC]
       IN IF st1.io = failAt THEN [st1 EXCEPT !.ok = FALSE]
          ELSE WriteLoop([st1 EXCEPT !.D = WriteCluster(@, t0 + i, cb), !.cb = ZeroCluster,
                           !.co = 0, !.cur = @ + BPC, !.left = @ - BPC,
                           !.outside = @ \/ t0 + i \notin Clusters],
                         t0, i + 1, src, nClW, failAt)

\* WriteFatDirent: Vfs_FdRead and Vfs_FdWrite of the sector holding the
\* entry; its status is ignored by both callers.
DirentWritten(f, e, ioFirst, io) ==
  IF io \in {ioFirst, ioFirst + 1} THEN dirent ELSE [dirent EXCEPT ![f] = e]

\* The file after the w-th call writes its n bytes at off.
Written(c, off, n, w) ==
  [k \in 1 .. IF Len(c) > off + n THEN Len(c) ELSE off + n |->
     IF off < k /\ k <= off + n THEN <<w, k - off - 1>>
     ELSE IF k <= Len(c) THEN c[k] ELSE Zero]

\* A variant that points first_cluster at the new run only for a file that
\* had no cluster, leaving a moved file's entry at its freed chain.
ExpandedEntryNewOnly(e, st, realloc, grow, n) ==
  [first |-> IF realloc /\ e.first = 0 THEN st ELSE e.first,
   size |-> IF grow THEN e.size + n ELSE e.size]

\* The entry after write_sync's expansion: filesize += blkCount, and
\* first_cluster_high / low set to the new run when the chain was moved.
ExpandedEntry(e, st, realloc, grow, n) ==
  [first |-> IF realloc THEN st ELSE e.first, size |-> IF grow THEN e.size + n ELSE e.size]

\* write_sync, from its checks to its return.  If the write reaches the
\* cluster-aligned size the chain is extended, or a run of clusters is
\* allocated, the old clusters copied to it one Vfs_FdRead / Vfs_FdWrite
\* pair each and freed, and the entry pointed at the run.  filesize grows
\* by blkCount before any of it, and the cluster_buf of the expansion is
\* freed only on a failed copy.  The data phase reads the first cluster
\* and writes cluster + blkOffset / bytesPerCluster + i for each i.
WriteSync(f, off, n, io) ==
  /\ Begin("write")
  /\ LET e == ent[f]
         expandClusters == off + n >= Ceil(e.size) * BPC
         requiresExpand == off + n > e.size \/ expandClusters
         sz == Ceil(e.size)
         s1 == e.size + n
         newCls == Ceil(s1)
         realloc == expandClusters /\ ~CanExtend(fat, e.first, newCls)
         src == [k \in 0 .. n - 1 |-> <<calls + 1, k>>]
     IN \/ /\ realloc /\ AllocStarts(fat, newCls) = {}
           /\ ent' = [ent EXCEPT ![f].size = s1]
           /\ faults' = faults \cup {"leak"}
           /\ ret' = [op |-> "write", ok |-> FALSE]
           /\ UNCHANGED <<fat, disk, dirent, content, rd>>
        \/ \E st \in (IF realloc THEN AllocStarts(fat, newCls) ELSE {e.first}) :
           LET nCopy == IF realloc THEN 2 * sz ELSE 0
               copyFails == io \in 1 .. nCopy
               T1 == IF ~expandClusters THEN fat
                     ELSE IF realloc THEN Link(fat, Run(st, newCls))
                     ELSE Extend(fat, e.first, newCls)
               D1 == CopyClusters(disk, e.first, st, IF copyFails THEN (io - 1) \div 2 ELSE sz)
               T2 == IF realloc /\ e.first # 0 THEN FreeChain(T1, e.first, sz) ELSE T1
               e1 == ExpandedEntry(e, st, realloc, requiresExpand, n)
               k0 == nCopy + (IF requiresExpand THEN 2 ELSE 0) + 1
               t0 == e1.first + off \div BPC
               st0 == [D |-> D1, cb |-> ReadCluster(D1, t0), co |-> off % BPC, cur |-> 0,
                       left |-> n, io |-> k0, ok |-> io # k0, over |-> FALSE, outside |-> FALSE]
               w == IF io = k0 THEN st0 ELSE WriteLoop(st0, t0, 0, src, Ceil(n), io)
           IN IF copyFails
              THEN /\ fat' = T1 /\ disk' = D1
                   /\ ent' = [ent EXCEPT ![f].size = s1]
                   /\ ret' = [op |-> "write", ok |-> FALSE]
                   /\ UNCHANGED <<dirent, content, rd, faults>>
              ELSE /\ fat' = T2 /\ disk' = w.D
                   /\ ent' = [ent EXCEPT ![f] = e1]
                   /\ dirent' = IF requiresExpand THEN DirentWritten(f, e1, nCopy + 1, io) ELSE dirent
                   /\ ret' = [op |-> "write", ok |-> w.ok]
                   /\ faults' = faults \cup (IF requiresExpand THEN {"leak"} ELSE {})
                                       \cup (IF w.over THEN {"overflow"} ELSE {})
                                       \cup (IF w.outside THEN {"outside"} ELSE {})
                   /\ content' = IF w.ok THEN [content EXCEPT ![f] = Written(@, off, n, calls + 1)]
                                 ELSE content
                   /\ UNCHANGED rd

\* trunc_file: OBOS_ASSERT(filesize >= blkCount) stops the kernel before
\* the check that would return OBOS_STATUS_INVALID_ARGUMENT.
TruncFile(f, m, io) ==
  /\ Begin("trunc")
  /\ LET e == ent[f]
         newCls == Ceil(m)
         T1 == TruncateChain(fat, e.first, newCls)
         e1 == [first |-> IF newCls = 0 THEN 0 ELSE e.first, size |-> m]
     IN \/ /\ m = e.size
           /\ ret' = [op |-> "trunc", ok |-> TRUE]
           /\ UNCHANGED <<fat, ent, dirent, content, faults>>
        \/ /\ m > e.size
           /\ faults' = faults \cup {"panic"}
           /\ ret' = [op |-> "trunc", ok |-> FALSE]
           /\ UNCHANGED <<fat, ent, dirent, content>>
        \/ /\ m < e.size
           /\ fat' = IF newCls = 0 THEN FreeChain(T1, e.first, Ceil(e.size)) ELSE T1
           /\ ent' = [ent EXCEPT ![f] = e1]
           /\ dirent' = DirentWritten(f, e1, 1, io)
           /\ content' = [content EXCEPT ![f] = [k \in 1 .. m |-> IF k <= Len(@) THEN @[k] ELSE Zero]]
           /\ ret' = [op |-> "trunc", ok |-> TRUE]
           /\ UNCHANGED faults
  /\ UNCHANGED <<disk, rd>>

\* The kernel stops on a panic; the model stops at MaxCalls.
Done == /\ calls = MaxCalls \/ "panic" \in faults
        /\ UNCHANGED vars

Next == \/ \E f \in Files, io \in IoChoices :
              \/ \E off \in Offsets, n \in Counts : ReadSync(f, off, n, io) \/ WriteSync(f, off, n, io)
              \/ \E m \in TruncSizes : io <= 2 /\ TruncFile(f, m, io)
        \/ Done

Spec == Init /\ [][Next]_vars

-----------------------------------------------------------------------------
(* Properties.                                                             *)

TypeOK ==
  /\ fat \in [Clusters -> {FREE, EOC} \cup Clusters]
  /\ disk \in [Clusters -> [Pos -> Bytes]]
  /\ ent \in [Files -> [first : {0} \cup Clusters, size : Nat]]
  /\ dirent \in [Files -> [first : {0} \cup Clusters, size : Nat]]
  /\ content \in [Files -> Seq(Bytes)]
  /\ rd.ok \in BOOLEAN /\ rd.nRead \in Nat
  /\ ret.op \in {"none", "read", "write", "trunc"} /\ ret.ok \in BOOLEAN
  /\ faults \subseteq {"leak", "overflow", "overread", "double_free", "outside", "panic"}
  /\ calls \in 0 .. MaxCalls

FileChain(f) == Range(Chain(fat, ent[f].first))

\* The FAT and the dirent cache agree whatever write_sync and trunc_file
\* did, the failed ones included: every cluster an entry's chain reaches is
\* allocated, and no cluster is in the chains of two files.  A reallocation
\* that frees the old chain and leaves first_cluster pointing at it, or an
\* extension into another file's clusters, breaks it.
FatIntegrity ==
  /\ \A f \in Files : \A c \in FileChain(f) : fat[c] # FREE
  /\ \A f, g \in Files : f # g => FileChain(f) \cap FileChain(g) = {}

\* Every byte of a file that a call has written is on the volume, in the
\* cluster its chain gives for that offset (write_sync's data loop).
ByteAt(f, k) ==
  LET ch == Chain(fat, ent[f].first) IN
  IF k \div BPC < Len(ch) THEN disk[ch[k \div BPC + 1]][k % BPC] ELSE Junk
VolumeHoldsContent ==
  \A f \in Files : \A k \in 1 .. Len(content[f]) : ByteAt(f, k - 1) = content[f][k]

\* filesize is the length the writes and truncations gave the file.
SizeIsWritten == \A f \in Files : ent[f].size = Len(content[f])

\* A successful read_sync fills the caller's buffer with the file's bytes
\* from the offset and reports how many it read.
ReadReturnsData ==
  (ret.op = "read" /\ ret.ok) =>
     /\ rd.nRead = Len(rd.want)
     /\ \A j \in 1 .. Len(rd.want) : rd.buf[j - 1] = rd.want[j]

\* No call frees a buffer twice, leaks one, or copies outside one.
NoHeapMisuse == faults \cap {"leak", "overflow", "overread", "double_free"} = {}

\* After a call that returned success, the directory entries on the volume
\* are those of the cache (WriteFatDirent's status is ignored).
DirentPersisted == ret.ok => dirent = ent
====
