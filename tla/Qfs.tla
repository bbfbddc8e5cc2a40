-------------------------------- MODULE Qfs ---------------------------------
(***************************************************************************)
(* The file system in the data flash: clib/qfs.c with its users            *)
(* clib/fswrapper.c (the commands R and W of the host) and clib/log.c.     *)
(*                                                                         *)
(* The first page of the chip holds the directory, an array of inodes,     *)
(* followed by a magic number; each inode owns a fixed range of pages.     *)
(* The chip's BUF2 holds the directory and its BUF1 one data page, and     *)
(* what is in the buffers only is gone after a power failure.  fs_t caches *)
(* one inode, last_inode, and its index.                                   *)
(*                                                                         *)
(* A cell is what one chunk of data or one line of the log adds to a file. *)
(* Writing a page of the chip is taken to be atomic.                       *)
(***************************************************************************)
EXTENDS Naturals, Sequences

CONSTANTS
  QfsInodes,     (* QFS_MAX_INODE, 32.                                     *)
  QfsPages,      (* Pages of a file, 128.                                  *)
  QfsBlock,      (* QFS_BLOCKSIZE, 512, in cells.                          *)
  QfsHostName,   (* Names of the files of the host ...                     *)
  QfsLog,        (* ... and of the log, newest part first (LOG_NRFILES).   *)
  QfsEmpty, QfsMagic,          (* Name of an unused inode, magic number.   *)
  QfsData,       (* Contents of a cell: uploads differ in it,              *)
  QfsLine, QfsErased,          (* a line of the log, anything else.        *)
  QfsUploads,    (* Lengths the host announces.                            *)
  QfsRotate,     (* log_rotate's limit, 65000.                             *)
  QfsWear,       (* Bound: cells written in all.                           *)
  QfsNone

QfsLogNames == {QfsLog[i] : i \in DOMAIN QfsLog}
QfsName == QfsHostName \union QfsLogNames

ASSUME QfsAssumption ==
  /\ QfsInodes \in 2 .. 255 /\ QfsPages \in Nat \ {0, 1}
  /\ QfsBlock \in Nat \ {0, 1}
  /\ {QfsEmpty, QfsMagic, QfsNone} \intersect QfsName = {} /\ QfsEmpty # QfsMagic
  /\ QfsNone \notin Seq(QfsData \union {QfsLine, QfsErased})
  /\ QfsLog \in Seq(QfsName) /\ Len(QfsLog) >= 2
  /\ \A i, j \in DOMAIN QfsLog : QfsLog[i] = QfsLog[j] => i = j
  /\ QfsUploads \subseteq Nat /\ QfsWear \in Nat
  /\ QfsRotate \in 0 .. QfsPages * QfsBlock - 1

VARIABLES
  fs,            (* fs_t and the chip: see QfsFormat and QfsTypeOK.        *)
  logfd, logoffset, logEnabled,
  upload,        (* filesize, offset and inode of write_filedata, or none. *)
  qfsSafe,       (* History: names not changed since the last fs_sync.     *)
  qfsWear        (* Cells written so far.                                  *)

qfsVars == <<fs, logfd, logoffset, logEnabled, upload, qfsSafe, qfsWear>>

Syslog == QfsLog[1]
QfsIndex == 0 .. QfsInodes - 1
QfsPage == 1 .. QfsInodes * QfsPages - 1
QfsBlank == [i \in 1 .. QfsBlock |-> QfsErased]

(* 0xffff, and one block less for the last inode.  A cell that would only  *)
(* partly fit does not exist.                                              *)
QfsLimit(inode) ==
  (IF inode = QfsInodes - 1 THEN QfsPages - 1 ELSE QfsPages) * QfsBlock - 1

(* The chip has no page 1 + 32*128: the address wraps. *)
offset2page(inode, off) ==
  (1 + inode * QfsPages + off \div QfsBlock) % (QfsInodes * QfsPages)

(* The magic number lies where the inode QfsInodes would. *)
QfsFormatted ==
  [i \in 0 .. QfsInodes |-> [name |-> IF i = QfsInodes THEN QfsMagic ELSE QfsEmpty,
                             len  |-> 4]]

(* Mutant: the directory is not written. *)
fs_sync_page(f) ==
  [f EXCEPT !.saved = IF f.pageModified THEN [@ EXCEPT ![f.lastpage] = f.buf1] ELSE @,
            !.pageModified = FALSE]

fs_sync(f) ==
  [f EXCEPT !.saved = IF f.pageModified THEN [@ EXCEPT ![f.lastpage] = f.buf1] ELSE @,
            !.savedRoot = IF f.rootModified THEN f.root ELSE @,
            !.pageModified = FALSE, !.rootModified = FALSE]

(* chip is an fs record of which only savedRoot and saved are used. *)
fs_init(chip, force) ==
  LET root == chip.savedRoot
      load == [chip EXCEPT !.root = root, !.lastpage = 0,
                 !.pageModified = FALSE, !.rootModified = FALSE,
                 !.index = 255, !.inode = root[QfsInodes]]
  IN IF root[QfsInodes] = QfsFormatted[QfsInodes] /\ ~force
     THEN load
     ELSE fs_sync([load EXCEPT !.root = QfsFormatted, !.rootModified = TRUE,
                               !.inode = QfsFormatted[0]])

(* The index of the first inode of that name, or QfsInodes. *)
QfsFirst(f, name) ==
  IF \E i \in QfsIndex : f.root[i].name = name
  THEN CHOOSE i \in QfsIndex : /\ f.root[i].name = name
                               /\ \A j \in 0 .. i - 1 : f.root[j].name # name
  ELSE QfsInodes

(* A search leaves the last inode it read in the cache; one that fails     *)
(* leaves inode 31 with the index 32.                                      *)
QfsSearch(f, name) ==
  LET i == QfsFirst(f, name)
  IN [f EXCEPT !.index = i, !.inode = f.root[IF i = QfsInodes THEN i - 1 ELSE i]]

QfsCached(f, name) == f.inode.name = name

fs_get_inode(f, name) == IF QfsCached(f, name) THEN f ELSE QfsSearch(f, name)

fs_found(f, name) == QfsCached(f, name) \/ QfsFirst(f, name) # QfsInodes

fs_create(f, name) ==
  LET g == QfsSearch(f, QfsEmpty)
      new == [name |-> name, len |-> 0]
  IN IF g.index = QfsInodes
     THEN g
     ELSE [g EXCEPT !.inode = new, !.root[g.index] = new, !.rootModified = TRUE]

fs_created(f) == QfsFirst(f, QfsEmpty) # QfsInodes

QfsSetName(f, from, to) ==
  LET g == fs_get_inode(f, from)
  IN IF fs_found(f, from)
     THEN [g EXCEPT !.inode.name = to,
                    !.root[g.index] = [g.inode EXCEPT !.name = to],
                    !.rootModified = TRUE]
     ELSE g

fs_remove(f, name) == QfsSetName(f, name, QfsEmpty)
fs_rename(f, from, to) == QfsSetName(fs_remove(f, to), from, to)

cache_last_inode(f, inode) ==
  IF f.index = inode THEN f
  ELSE [f EXCEPT !.index = inode, !.inode = f.root[inode]]

cache_page(f, page, doload) ==
  IF f.lastpage = page THEN f
  ELSE LET saved == IF f.pageModified THEN [f.saved EXCEPT ![f.lastpage] = f.buf1]
                                      ELSE f.saved
       IN [f EXCEPT !.saved = saved, !.pageModified = FALSE, !.lastpage = page,
                    !.buf1 = IF doload THEN saved[page] ELSE @]

(* k cells c are written.  Only pages that hold something are loaded. *)
fs_write(f, inode, off, k, c) ==
  LET g == cache_last_inode(f, inode)
      old == g.inode.len
      h == IF old < off + k
           THEN [g EXCEPT !.inode.len = off + k, !.root[inode].len = off + k,
                          !.rootModified = TRUE]
           ELSE g
      page == offset2page(inode, off)
      from == off % QfsBlock
      lastoldpage == offset2page(inode, old) + (IF old % QfsBlock = 0 THEN 0 ELSE 1)
      Put(d, p, cells) ==
        [cache_page(d, p, lastoldpage > p) EXCEPT
           !.buf1 = [i \in 1 .. QfsBlock |-> IF i \in cells THEN c ELSE @[i]],
           !.pageModified = TRUE]
      first == Put(h, page, from + 1 .. from + k)
  IN IF off + k > QfsLimit(inode) THEN f
     ELSE IF from + k > QfsBlock THEN Put(first, page + 1, 1 .. from + k - QfsBlock)
     ELSE first

(* read_file of a whole file, page by page. *)
fs_read(f, inode) ==
  LET g == cache_last_inode(f, inode)
      pages == (g.inode.len + QfsBlock - 1) \div QfsBlock
      read[i \in 0 .. pages] ==
        IF i = 0 THEN g
        ELSE cache_page(read[i - 1], offset2page(inode, (i - 1) * QfsBlock), TRUE)
  IN read[pages]

log_init(f) ==
  LET g == fs_get_inode(f, Syslog)
      h == fs_create(g, Syslog)
  IN IF fs_found(f, Syslog) THEN [fs |-> g, fd |-> g.index, offset |-> g.inode.len]
     ELSE IF fs_created(g)  THEN [fs |-> fs_sync(h), fd |-> h.index, offset |-> 0]
     ELSE [fs |-> h, fd |-> QfsNone, offset |-> 0]

log_rotate(f) ==
  LET last == Len(QfsLog)
      renamed[i \in 1 .. last] ==
        IF i = last THEN f ELSE fs_rename(renamed[i + 1], QfsLog[i], QfsLog[i + 1])
  IN log_init(renamed[1])

LogFrom(l) == fs' = l.fs /\ logfd' = l.fd /\ logoffset' = l.offset

QfsErasedChip ==
  LET root == [i \in 0 .. QfsInodes |-> [name |-> QfsEmpty, len |-> 0]]
  IN [root |-> root, savedRoot |-> root, buf1 |-> QfsBlank,
      saved |-> [p \in QfsPage |-> QfsBlank], lastpage |-> 0, index |-> 255,
      inode |-> root[0], pageModified |-> FALSE, rootModified |-> FALSE]

QfsInit ==
  /\ LET l == log_init(fs_init(QfsErasedChip, FALSE))
     IN fs = l.fs /\ logfd = l.fd /\ logoffset = l.offset
  /\ logEnabled = FALSE
  /\ upload = QfsNone
  /\ qfsSafe = QfsName
  /\ qfsWear = 0

(* The log's inode still is the log, and ends where the next line goes.    *)
(* W does not check it when the host formats the chip or replaces the log; *)
(* hosts are taken to do so with the log off, and to restart the device.   *)
QfsLogIsCurrent ==
  logfd # QfsNone => fs.root[logfd] = [name |-> Syslog, len |-> logoffset]

(* The command W. *)
QfsUpload(n, size) ==
  /\ upload = QfsNone
  /\ n \in QfsLogNames => ~logEnabled
  /\ LET removed == fs_remove(fs, n)
         created == fs_create(removed, n)
     IN /\ fs' = created
        /\ upload' = IF fs_created(removed) /\ size > 0
                     THEN [inode |-> created.index, name |-> n,
                           offset |-> 0, size |-> size]
                     ELSE QfsNone
  /\ qfsSafe' = qfsSafe \ {n}
  /\ UNCHANGED <<logfd, logoffset, logEnabled, qfsWear>>

QfsDelete(n) ==
  /\ upload = QfsNone
  /\ n = Syslog => ~logEnabled
  /\ fs' = fs_sync(fs_remove(fs, n))
  /\ qfsSafe' = QfsName
  /\ UNCHANGED <<logfd, logoffset, logEnabled, upload, qfsWear>>

QfsFormat ==
  /\ upload = QfsNone /\ ~logEnabled
  /\ fs' = fs_init(fs, TRUE)
  /\ qfsSafe' = QfsName
  /\ UNCHANGED <<logfd, logoffset, logEnabled, upload, qfsWear>>

QfsEnableLog ==
  /\ upload = QfsNone
  /\ logEnabled \/ QfsLogIsCurrent
  /\ logEnabled' = ~logEnabled
  /\ UNCHANGED <<fs, logfd, logoffset, upload, qfsSafe, qfsWear>>

(* write_filedata: fs_sync after exactly the announced length.  An offset  *)
(* that has run past it only counts on, here up to the longest file.       *)
QfsChunk(k, c) ==
  /\ upload # QfsNone
  /\ qfsWear + k <= QfsWear /\ qfsWear' = qfsWear + k
  /\ LET new == fs_write(fs, upload.inode, upload.offset, k, c)
         done == upload.offset + k = upload.size
     IN /\ upload.offset + k <= QfsPages * QfsBlock
        /\ fs' = IF done THEN fs_sync(new) ELSE new
        /\ upload' = IF done THEN QfsNone ELSE [upload EXCEPT !.offset = @ + k]
        /\ qfsSafe' = IF done THEN QfsName
                      ELSE IF new = fs THEN qfsSafe ELSE qfsSafe \ {upload.name}
  /\ UNCHANGED <<logfd, logoffset, logEnabled>>

(* The command R, of a file and of the directory. *)
QfsReadFile(n) ==
  /\ upload = QfsNone
  /\ LET g == fs_get_inode(fs, n)
     IN fs' = IF fs_found(fs, n) THEN fs_read(g, g.index) ELSE g
  /\ UNCHANGED <<logfd, logoffset, logEnabled, upload, qfsSafe, qfsWear>>

fs_list ==
  /\ upload = QfsNone
  /\ fs' = [fs EXCEPT !.index = QfsInodes, !.inode = fs.root[QfsInodes - 1]]
  /\ UNCHANGED <<logfd, logoffset, logEnabled, upload, qfsSafe, qfsWear>>

Log ==
  /\ logEnabled /\ logfd # QfsNone
  /\ qfsWear < QfsWear /\ qfsWear' = qfsWear + 1
  /\ LET l == IF logoffset >= QfsRotate THEN log_rotate(fs)
              ELSE [fs |-> fs, fd |-> logfd, offset |-> logoffset]
     IN /\ l.fd # QfsNone     (* The directory has room for the new part. *)
        /\ LogFrom([l EXCEPT !.fs = fs_write(l.fs, l.fd, l.offset, 1, QfsLine),
                             !.offset = @ + 1])
  /\ qfsSafe' = (IF logoffset >= QfsRotate THEN QfsName ELSE qfsSafe) \ {Syslog}
  /\ UNCHANGED <<logEnabled, upload>>

LogBatteryLow ==
  /\ logEnabled
  /\ fs' = fs_sync(fs)
  /\ qfsSafe' = QfsName
  /\ UNCHANGED <<logfd, logoffset, logEnabled, upload, qfsWear>>

(* A power failure, possibly after fs_sync or cache_page has saved the     *)
(* data page, and the next start.                                          *)
QfsRestart ==
  /\ \E chip \in {fs, [fs_sync(fs) EXCEPT !.savedRoot = fs.savedRoot]} :
       LogFrom(log_init(fs_init([chip EXCEPT !.buf1 = QfsBlank], FALSE)))
  /\ upload' = QfsNone
  /\ qfsSafe' = QfsName
  /\ UNCHANGED <<logEnabled, qfsWear>>

QfsNext ==
  \/ \E n \in QfsHostName : \/ \E size \in QfsUploads : QfsUpload(n, size)
                            \/ QfsDelete(n) \/ QfsReadFile(n)
  \/ \E k \in 1 .. 2, c \in QfsData : QfsChunk(k, c)
  \/ QfsFormat \/ QfsEnableLog \/ fs_list
  \/ Log \/ LogBatteryLow \/ QfsRestart

QfsSpec == QfsInit /\ [][QfsNext]_qfsVars

(* What the host reads of a file. *)
QfsRead(n) ==
  LET g == fs_get_inode(fs, n)
      Page(i) == offset2page(g.index, i - 1)
      At(p) == IF p = fs.lastpage THEN fs.buf1 ELSE fs.saved[p]
  IN IF fs_found(fs, n)
     THEN [i \in 1 .. g.inode.len |-> At(Page(i))[((i - 1) % QfsBlock) + 1]]
     ELSE QfsNone

(* Type invariant. *)
QfsTypeOK ==
  LET Inode == [name : QfsName \union {QfsEmpty, QfsMagic},
                len : (0 .. QfsPages * QfsBlock - 1) \union {4}]
      Page == [1 .. QfsBlock -> QfsData \union {QfsLine, QfsErased}]
      Root == [0 .. QfsInodes -> Inode]
  IN /\ fs \in [root : Root, savedRoot : Root, buf1 : Page, saved : [QfsPage -> Page],
                lastpage : {0} \union QfsPage, index : 0 .. QfsInodes \union {255},
                inode : Inode, pageModified : BOOLEAN, rootModified : BOOLEAN]
     /\ logfd \in QfsIndex \union {QfsNone} /\ logoffset \in Nat
     /\ logEnabled \in BOOLEAN
     /\ upload \in {QfsNone} \union
          [inode : QfsIndex, name : QfsName, offset : 0 .. QfsPages * QfsBlock,
           size : QfsUploads]
     /\ qfsSafe \subseteq QfsName /\ qfsWear \in 0 .. QfsWear

(* The commands and the log are a store of named files, whatever the order *)
(* of uploads, deletions, lines and rotations of the log: no file changes  *)
(* because another one does, pages written behind each other's back are    *)
(* found again, and a power failure at any point leaves the files alone    *)
(* that did not change since the last fs_sync (qfs.h: 'to ensure that data *)
(* is written to the flash you have to use fs_sync').  This needs a        *)
(* directory that never fills up: see QfsLastFile.                         *)
QfsFiles ==
  INSTANCE FileStore WITH
    Name <- QfsName, NoFile <- QfsNone, Cell <- QfsData \union {QfsLine},
    Logs <- QfsLog, files <- [n \in QfsName |-> QfsRead(n)], safe <- qfsSafe
QfsIsAFileStore == QfsFiles!Spec

(* qfs.c:17: 'up to 32 files', so each file of a full directory is found   *)
(* at its inode.                                                           *)
QfsLastFile ==
  \A n \in QfsName :
    QfsFirst(fs, n) # QfsInodes => fs_get_inode(fs, n).index = QfsFirst(fs, n)
=============================================================================
